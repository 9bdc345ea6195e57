----------------------------- MODULE ParamStore -----------------------------
(***************************************************************************)
(* llmt::ParamStore (include/llmt/model/param_store.h,                     *)
(* src/model/param_store.cpp): named parameters are registered, then       *)
(* finalize() lays them out in one device allocation carved into four      *)
(* spans - weights, gradients and Adam's two moments - and fills in the    *)
(* data pointers.  Addresses are offsets from the base of that allocation. *)
(* finalize() runs as the steps of its loops; nothing else can run between *)
(* them, but each can abort the program.                                   *)
(***************************************************************************)
EXTENDS ArenaLayout, Sequences

CONSTANTS
  Names,      \* parameter and alias names, EmptyName among them
  EmptyName,  \* the empty string
  Numels,     \* element counts of the shapes passed to add
  DtypeSets,  \* the StateDtypes a caller passes to the constructor
  MaxParams   \* bound: parameters registered

Kind == 0 .. 3  \* StateKind: Weight, Grad, AdamM, AdamV

ASSUME ParamStoreAssumption ==
  /\ EmptyName \in Names
  /\ Numels \subseteq Int
  /\ DtypeSets \subseteq [Kind -> DType]
  /\ MaxParams \in Nat

Null == -1  \* nullptr
NoMem == [capacity |-> Null, used |-> Null]  \* m_mem disengaged

VARIABLES
  dtypes,     \* m_dtypes
  params,     \* m_params: name and element count, in registration order
  data,       \* the data pointers of each parameter, by kind
  index,      \* m_index: real and alias names to positions in params
  paramNumel, \* m_param_numel
  spanBytes,  \* m_span_bytes
  base,       \* m_base
  mem,        \* m_mem: the arena, or NoMem
  pc,         \* "ctor", "idle" between calls, or the phase of finalize()
  kind,       \* finalize: loop variable k
  offsets,    \* finalize: the offsets computed so far, by kind
  off,        \* finalize: the running offset
  total,      \* finalize: the sum of the spans so far
  fatal       \* the message the program aborted with, or "none"

registry == <<params, index, paramNumel>>
layout == <<data, spanBytes, base, mem>>
locals == <<kind, offsets, off, total>>
vars == <<dtypes, registry, layout, pc, locals, fatal>>

Finalized == mem # NoMem
Registered(name) == name \in DOMAIN index
ParamBytes(i, k) == Bytes(params[i].numel, dtypes[k])

Messages ==
  {"storage dtype not supported", "add refused", "alias refused",
   "finalize refused", "cudaMalloc failed", "arena exhausted",
   "unknown parameter", "flat before finalize"}

(* detail::fatal prints a message and aborts: nothing happens afterwards.  *)
Fatal(msg) ==
  /\ fatal' = msg
  /\ UNCHANGED <<dtypes, registry, layout, pc, locals>>

Idle == fatal = "none" /\ pc = "idle"

Init ==
  /\ dtypes \in DtypeSets
  /\ params = <<>>
  /\ data = <<>>
  /\ index = <<>>
  /\ paramNumel = 0
  /\ spanBytes = [k \in Kind |-> 0]
  /\ base = [k \in Kind |-> Null]
  /\ mem = NoMem
  /\ pc = "ctor"
  /\ kind = 0
  /\ offsets = [k \in Kind |-> <<>>]
  /\ off = 0
  /\ total = 0
  /\ fatal = "none"

Construct ==
  /\ fatal = "none" /\ pc = "ctor"
  /\ \/ /\ \E k \in Kind : dtypes[k] # "FP32"
        /\ Fatal("storage dtype not supported")
     \/ /\ \A k \in Kind : dtypes[k] = "FP32"
        /\ pc' = "idle"
        /\ UNCHANGED <<dtypes, registry, layout, locals, fatal>>

(* Mutations: a duplicate name is not looked for; an empty shape passes.   *)
AddRefusedButForDuplicates(name, numel) ==
  Finalized \/ name = EmptyName \/ numel <= 0
AddRefusedButForEmpty(name, numel) ==
  Finalized \/ name = EmptyName \/ numel < 0 \/ Registered(name)

AddRefused(name, numel) ==
  Finalized \/ name = EmptyName \/ numel <= 0 \/ Registered(name)

Add(name, numel) ==
  /\ Idle
  /\ \/ /\ AddRefused(name, numel)
        /\ Fatal("add refused")
     \/ /\ ~AddRefused(name, numel)
        /\ Len(params) < MaxParams
        /\ params' = Append(params, [name |-> name, numel |-> numel])
        /\ data' = Append(data, [k \in Kind |-> Null])
        /\ index' = [n \in DOMAIN index \cup {name} |->
                       IF Registered(n) THEN index[n] ELSE Len(params) + 1]
        /\ paramNumel' = paramNumel + numel
        /\ UNCHANGED <<dtypes, spanBytes, base, mem, pc, locals, fatal>>

(* Mutation: an existing entry is overwritten (operator[] for try_emplace).*)
AliasOverwrites(alias, target) ==
  /\ Idle
  /\ Registered(target)
  /\ index' = [n \in DOMAIN index \cup {alias} |->
                 IF n = alias THEN index[target] ELSE index[n]]
  /\ UNCHANGED <<dtypes, params, paramNumel, layout, pc, locals, fatal>>

Alias(alias, target) ==
  /\ Idle
  /\ \/ /\ ~Registered(target) \/ Registered(alias)
        /\ Fatal("alias refused")
     \/ /\ Registered(target) /\ ~Registered(alias)
        /\ index' = [n \in DOMAIN index \cup {alias} |->
                       IF n = alias THEN index[target] ELSE index[n]]
        /\ UNCHANGED <<dtypes, params, paramNumel, layout, pc, locals, fatal>>

Finalize ==
  /\ Idle
  /\ \/ /\ Finalized \/ params = <<>>
        /\ Fatal("finalize refused")
     \/ /\ ~Finalized /\ params # <<>>
        /\ pc' = "pack"
        /\ UNCHANGED <<dtypes, registry, layout, locals, fatal>>

-----------------------------------------------------------------------------
(* The steps of finalize().                                                *)
Packed == Len(offsets[kind])

(* Mutation: the running offset is not rounded up to the alignment.        *)
PackParamUnaligned ==
  /\ fatal = "none" /\ pc = "pack" /\ Packed < Len(params)
  /\ offsets' = [offsets EXCEPT ![kind] = Append(@, off)]
  /\ off' = off + ParamBytes(Packed + 1, kind)
  /\ UNCHANGED <<dtypes, registry, layout, pc, kind, total, fatal>>

PackParam ==
  /\ fatal = "none" /\ pc = "pack" /\ Packed < Len(params)
  /\ offsets' = [offsets EXCEPT ![kind] = Append(@, off)]
  /\ off' = AlignUp(off + ParamBytes(Packed + 1, kind))
  /\ UNCHANGED <<dtypes, registry, layout, pc, kind, total, fatal>>

(* Mutation: the running offset is not reset for the next kind.            *)
CloseSpanKeepsOffset ==
  /\ fatal = "none" /\ pc = "pack" /\ Packed = Len(params)
  /\ spanBytes' = [spanBytes EXCEPT ![kind] = off]
  /\ total' = (total + off) % Word
  /\ IF kind < 3 THEN kind' = kind + 1 /\ UNCHANGED pc
                 ELSE kind' = 0 /\ pc' = "malloc"
  /\ UNCHANGED <<dtypes, registry, data, base, mem, offsets, off, fatal>>

(* Mutation: the spans are padded once more when they are added up.        *)
CloseSpanPadsTotal ==
  /\ fatal = "none" /\ pc = "pack" /\ Packed = Len(params)
  /\ spanBytes' = [spanBytes EXCEPT ![kind] = off]
  /\ total' = (total + off + Align) % Word
  /\ off' = 0
  /\ IF kind < 3 THEN kind' = kind + 1 /\ UNCHANGED pc
                 ELSE kind' = 0 /\ pc' = "malloc"
  /\ UNCHANGED <<dtypes, registry, data, base, mem, offsets, fatal>>

CloseSpan ==
  /\ fatal = "none" /\ pc = "pack" /\ Packed = Len(params)
  /\ spanBytes' = [spanBytes EXCEPT ![kind] = off]
  /\ total' = (total + off) % Word
  /\ off' = 0
  /\ IF kind < 3 THEN kind' = kind + 1 /\ UNCHANGED pc
                 ELSE kind' = 0 /\ pc' = "malloc"
  /\ UNCHANGED <<dtypes, registry, data, base, mem, offsets, fatal>>

(* The Arena constructor; cudaMalloc may fail, which CUDA_CHECK turns into *)
(* an abort.                                                               *)
ConstructArena ==
  /\ fatal = "none" /\ pc = "malloc"
  /\ \/ Fatal("cudaMalloc failed")
     \/ /\ mem' = [capacity |-> total, used |-> 0]
        /\ pc' = "carve"
        /\ UNCHANGED <<dtypes, registry, data, spanBytes, base, locals, fatal>>

(* Arena::alloc_bytes for one span; the memset that follows it is modelled *)
(* with the device's memory, in DeviceMemory and StoreStream.              *)
Carve ==
  /\ fatal = "none" /\ pc = "carve"
  /\ LET bytes == spanBytes[kind] IN
       \/ /\ Exhausted(mem.used, bytes, mem.capacity)
          /\ Fatal("arena exhausted")
       \/ /\ ~Exhausted(mem.used, bytes, mem.capacity)
          /\ base' = [base EXCEPT ![kind] = Aligned(mem.used)]
          /\ mem' = [capacity |-> mem.capacity, used |-> End(mem.used, bytes)]
          /\ IF kind < 3 THEN kind' = kind + 1 /\ UNCHANGED pc
                         ELSE kind' = 0 /\ pc' = "fill"
          /\ UNCHANGED <<dtypes, registry, data, spanBytes, offsets, off, total, fatal>>

(* Mutation: every kind's pointers are filled from the Weight span.        *)
FillViewsFromWeight ==
  /\ fatal = "none" /\ pc = "fill"
  /\ data' = [i \in 1 .. Len(params) |->
                [k \in Kind |-> base[0] + offsets[k][i]]]
  /\ pc' = "idle"
  /\ UNCHANGED <<dtypes, registry, spanBytes, base, mem, locals, fatal>>

FillViews ==
  /\ fatal = "none" /\ pc = "fill"
  /\ data' = [i \in 1 .. Len(params) |->
                [k \in Kind |-> base[k] + offsets[k][i]]]
  /\ pc' = "idle"
  /\ UNCHANGED <<dtypes, registry, spanBytes, base, mem, locals, fatal>>

-----------------------------------------------------------------------------
(* Lookups change no state unless they abort.                              *)
At(name) == index[name]
Flat(k) == [data |-> base[k], numel |-> spanBytes[k] \div DtypeSize(dtypes[k])]

AtUnknown(name) == Idle /\ ~Registered(name) /\ Fatal("unknown parameter")
FlatEarly == Idle /\ ~Finalized /\ Fatal("flat before finalize")

Next ==
  \/ Construct
  \/ \E name \in Names, numel \in Numels : Add(name, numel)
  \/ \E alias \in Names, target \in Names : Alias(alias, target)
  \/ Finalize \/ PackParam \/ CloseSpan \/ ConstructArena \/ Carve \/ FillViews
  \/ \E name \in Names : AtUnknown(name)
  \/ FlatEarly

Spec == Init /\ [][Next]_vars

-----------------------------------------------------------------------------
Ready == Finalized /\ pc = "idle"

Slice(i, k) == [off |-> data[i][k], bytes |-> ParamBytes(i, k)]

Param == [name : Names \ {EmptyName}, numel : {n \in Numels : n > 0}]

RegistryTypeOK ==
  /\ dtypes \in DtypeSets
  /\ params \in Seq(Param)
  /\ Len(params) <= MaxParams
  /\ DOMAIN index \subseteq Names
  /\ \A name \in DOMAIN index : index[name] \in 1 .. Len(params)
  /\ paramNumel \in Nat

LayoutTypeOK ==
  /\ data \in Seq([Kind -> Nat \cup {Null}])
  /\ Len(data) = Len(params)
  /\ spanBytes \in [Kind -> Nat]
  /\ base \in [Kind -> Nat \cup {Null}]
  /\ mem = NoMem \/ mem \in [capacity : Size, used : Size]

ProgressTypeOK ==
  /\ pc \in {"ctor", "idle", "pack", "malloc", "carve", "fill"}
  /\ kind \in Kind
  /\ offsets \in [Kind -> Seq(Nat)]
  /\ off \in Nat
  /\ total \in Size
  /\ fatal \in Messages \cup {"none"}

TypeOK == RegistryTypeOK /\ LayoutTypeOK /\ ProgressTypeOK

(* After finalize() every (parameter, state kind) pair has its own bytes:  *)
(* 256-byte aligned, inside the span flat() returns for that kind, and     *)
(* disjoint from every other pair's, so that no gradient, moment or weight *)
(* is ever written through another parameter's view.                       *)
SlicesSound ==
  Ready =>
    \A i \in 1 .. Len(params), k \in Kind :
      /\ Slice(i, k).off % Align = 0
      /\ base[k] <= Slice(i, k).off
      /\ Slice(i, k).off + Slice(i, k).bytes <= base[k] + spanBytes[k]
      /\ \A j \in 1 .. Len(params), l \in Kind :
           <<i, k>> # <<j, l>> => RegionsDisjoint(Slice(i, k), Slice(j, l))

(* The four spans tile the allocation: in kind order, without a gap, from  *)
(* the first byte to the last (the diagram of the class comment).  The     *)
(* total is computed by one loop and the spans are carved by another, with *)
(* a second alignment computation of its own.                              *)
SpansTile ==
  Ready =>
    /\ base[0] = 0
    /\ \A k \in 1 .. 3 : base[k] = base[k - 1] + spanBytes[k - 1]
    /\ base[3] + spanBytes[3] = mem.capacity
    /\ mem.used = mem.capacity

(* finalize() never runs into the arena's exhaustion abort: the total it   *)
(* asks for is enough for the four aligned requests that follow.           *)
NeverExhausted == fatal # "arena exhausted"

(* Kinds that share a dtype are layout twins: the spans have one size, and *)
(* a parameter's slice is at one byte offset in both.                      *)
LayoutTwins ==
  Ready =>
    \A k, l \in Kind :
      dtypes[k] = dtypes[l] =>
        /\ spanBytes[k] = spanBytes[l]
        /\ \A i \in 1 .. Len(params) : data[i][k] - base[k] = data[i][l] - base[l]

(* A parameter is found under its own name, whatever was registered or     *)
(* aliased before and after it: no alias and no second add() takes a real  *)
(* name away, so two parameters never share a name or a view.              *)
OwnNameResolves ==
  \A i \in 1 .. Len(params) :
    Registered(params[i].name) /\ At(params[i].name) = i

(* What at() answers for a name, once it answers, is the same parameter    *)
(* for ever (weight tying: both names keep resolving to one Param, whose   *)
(* reference is stable), and its views are filled once and never move.     *)
NamesStable ==
  [][/\ \A name \in DOMAIN index :
          /\ name \in DOMAIN index'
          /\ index'[name] = index[name]
          /\ params'[index[name]] = params[index[name]]
     /\ \A i \in 1 .. Len(data) : \A k \in Kind :
          data[i][k] # Null => data'[i][k] = data[i][k]]_vars

(* The premise under which no size_t sum of finalize() wraps: some slot    *)
(* size holds any parameter of any dtype with its padding, and four spans  *)
(* of MaxParams slots fit the word.                                        *)
HoldsAnyParam(slot) ==
  \A numel \in Numels, d \in DType :
    numel > 0 => numel * DtypeSize(d) + Align <= slot

NoWrap ==
  \E slot \in Nat :
    HoldsAnyParam(slot) /\ 4 * (MaxParams * slot) + Align <= Word
=============================================================================
