-------------------------- MODULE ParamStoreProofs --------------------------
(***************************************************************************)
(* Proofs about ParamStore for every set of names, shapes and dtypes and   *)
(* every alignment, as long as no size_t sum of finalize() wraps.          *)
(***************************************************************************)
EXTENDS ParamStore, DataFacts, TLAPS

(* A multiple of Align stays where it is.                                  *)
LEMMA AlignUpOfMultiple ==
  ASSUME NEW n \in Nat, n + Align <= Word, n % Align = 0
  PROVE  AlignUp(n) = n
<1>1. Align \in Nat \ {0}
  BY LayoutAssumption
<1>2. AlignUp(n) \in Nat /\ n <= AlignUp(n) /\ AlignUp(n) < n + Align /\ AlignUp(n) % Align = 0
  BY LayoutAssumption, RoundUp DEF AlignUp
<1>3. AlignUp(n) <= n
  BY <1>1, <1>2, MultiplesApart
<1> QED BY <1>2, <1>3

LEMMA AlignUpType == \A n \in Nat : AlignUp(n) \in Nat
<1> SUFFICES ASSUME NEW n \in Nat PROVE AlignUp(n) \in Nat
  OBVIOUS
<1>1. Align \in Nat \ {0} /\ Word \in Nat \ {0}
  BY LayoutAssumption
<1> DEFINE x == (n + Align - 1) % Word
<1>2. x \in Nat
  BY <1>1, SMT
<1> HIDE DEF x
<1>3. (x \div Align) * Align \in Nat
  BY <1>1, <1>2, DivideAndMultiply
<1> QED BY <1>3 DEF AlignUp, x

LEMMA BytesType == \A numel \in Int, d \in DType : Bytes(numel, d) \in Size
<1> SUFFICES ASSUME NEW numel \in Int, NEW d \in DType
             PROVE  Bytes(numel, d) \in Size
  OBVIOUS
<1>1. DtypeSize(d) \in Int
  BY DEF DtypeSize
<1>2. numel * DtypeSize(d) \in Int
  BY <1>1, SMT
<1> QED BY <1>2, LayoutAssumption DEF Bytes, Size

LEMMA ParamType ==
  ASSUME TypeOK, NEW i \in 1 .. Len(params), NEW k \in Kind
  PROVE  /\ params[i] \in Param
         /\ params[i].numel \in Numels /\ params[i].numel > 0
         /\ params[i].numel \in Int
         /\ dtypes[k] \in DType
         /\ ParamBytes(i, k) \in Nat
<1>1. params[i] \in Param
  BY ElementInSet DEF TypeOK, RegistryTypeOK
<1>2. params[i].numel \in Numels /\ params[i].numel > 0 /\ params[i].numel \in Int
  BY <1>1, ParamStoreAssumption DEF Param
<1>3. dtypes[k] \in DType
  BY ParamStoreAssumption DEF TypeOK, RegistryTypeOK
<1>4. ParamBytes(i, k) \in Nat
  BY <1>2, <1>3, BytesType, LayoutAssumption DEF ParamBytes, Size
<1> QED BY <1>1, <1>2, <1>3, <1>4

-----------------------------------------------------------------------------
(* Type correctness, in the three parts of TypeOK.                         *)
LEMMA InitTypeOK == Init => TypeOK
<1> SUFFICES ASSUME Init PROVE TypeOK
  OBVIOUS
<1>1. 0 \in Size
  BY LayoutAssumption DEF Size
<1>2. RegistryTypeOK
  BY ParamStoreAssumption DEF Init, RegistryTypeOK
<1>3. LayoutTypeOK
  BY DEF Init, LayoutTypeOK
<1>4. ProgressTypeOK
  BY <1>1 DEF Init, ProgressTypeOK, Kind
<1> QED BY <1>2, <1>3, <1>4 DEF TypeOK

LEMMA RegistryFrame ==
  ASSUME RegistryTypeOK, UNCHANGED <<dtypes, registry>>
  PROVE  RegistryTypeOK'
  BY DEF RegistryTypeOK, registry

LEMMA LayoutFrame ==
  ASSUME LayoutTypeOK, UNCHANGED <<params, layout>>
  PROVE  LayoutTypeOK'
  BY DEF LayoutTypeOK, layout, NoMem

LEMMA FatalTypeOK ==
  ASSUME TypeOK, NEW msg \in Messages, Fatal(msg)
  PROVE  TypeOK'
<1>1. UNCHANGED <<dtypes, registry, params, layout, pc, locals>> /\ fatal' = msg
  BY DEF Fatal, registry
<1>2. ProgressTypeOK'
  BY <1>1 DEF TypeOK, ProgressTypeOK, locals
<1> QED BY <1>1, <1>2, RegistryFrame, LayoutFrame DEF TypeOK

LEMMA AddTypeOK ==
  ASSUME TypeOK, NEW name \in Names, NEW numel \in Numels, Add(name, numel)
  PROVE  TypeOK'
<1>1. CASE AddRefused(name, numel) /\ Fatal("add refused")
  BY <1>1, FatalTypeOK DEF Messages
<1>2. CASE ~(AddRefused(name, numel) /\ Fatal("add refused"))
  <2> DEFINE p == [name |-> name, numel |-> numel]
  <2>1. p \in Param /\ numel \in Nat
    <3>1. ~AddRefused(name, numel)
      BY <1>2 DEF Add
    <3> QED BY <3>1, ParamStoreAssumption DEF AddRefused, Param
  <2>2. /\ Len(params) < MaxParams
        /\ params' = Append(params, p)
        /\ data' = Append(data, [k \in Kind |-> Null])
        /\ index' = [n \in DOMAIN index \cup {name} |->
                       IF Registered(n) THEN index[n] ELSE Len(params) + 1]
        /\ paramNumel' = paramNumel + numel
        /\ UNCHANGED <<dtypes, spanBytes, base, mem, pc, locals, fatal>>
    BY <1>2 DEF Add
  <2>3. params' \in Seq(Param) /\ Len(params') = Len(params) + 1
    BY <2>1, <2>2 DEF TypeOK, RegistryTypeOK
  <2>4. Len(params') <= MaxParams
    BY <2>2, <2>3, ParamStoreAssumption DEF TypeOK, RegistryTypeOK
  <2>5. DOMAIN index' \subseteq Names
    BY <2>2 DEF TypeOK, RegistryTypeOK
  <2>6. \A n \in DOMAIN index' : index'[n] \in 1 .. Len(params')
    BY <2>2, <2>3 DEF TypeOK, RegistryTypeOK, Registered
  <2>7. RegistryTypeOK'
    <3>1. paramNumel' \in Nat /\ dtypes' \in DtypeSets
      BY <2>1, <2>2 DEF TypeOK, RegistryTypeOK
    <3> QED BY <2>3, <2>4, <2>5, <2>6, <3>1 DEF RegistryTypeOK
  <2>8. data' \in Seq([Kind -> Nat \cup {Null}]) /\ Len(data') = Len(params')
    BY <2>2, <2>3 DEF TypeOK, RegistryTypeOK, LayoutTypeOK
  <2>9. LayoutTypeOK'
    BY <2>2, <2>8 DEF TypeOK, LayoutTypeOK, NoMem
  <2>10. ProgressTypeOK'
    BY <2>2 DEF TypeOK, ProgressTypeOK, locals
  <2> QED BY <2>7, <2>9, <2>10 DEF TypeOK
<1> QED BY <1>1, <1>2

LEMMA AliasTypeOK ==
  ASSUME TypeOK, NEW alias \in Names, NEW target \in Names, Alias(alias, target)
  PROVE  TypeOK'
<1>1. CASE Fatal("alias refused")
  BY <1>1, FatalTypeOK DEF Messages
<1>2. CASE ~Fatal("alias refused")
  <2>1. /\ Registered(target)
        /\ index' = [n \in DOMAIN index \cup {alias} |->
                       IF n = alias THEN index[target] ELSE index[n]]
        /\ UNCHANGED <<dtypes, params, paramNumel, layout, pc, locals, fatal>>
    BY <1>2 DEF Alias
  <2>2. RegistryTypeOK'
    BY <2>1 DEF TypeOK, RegistryTypeOK, Registered
  <2>3. ProgressTypeOK'
    BY <2>1 DEF TypeOK, ProgressTypeOK, locals
  <2> QED BY <2>1, <2>2, <2>3, LayoutFrame DEF TypeOK
<1> QED BY <1>1, <1>2

LEMMA PackParamTypeOK ==
  ASSUME TypeOK, PackParam
  PROVE  TypeOK'
<1>1. /\ offsets' = [offsets EXCEPT ![kind] = Append(@, off)]
      /\ off' = AlignUp(off + ParamBytes(Packed + 1, kind))
      /\ UNCHANGED <<dtypes, registry, params, layout, pc, kind, total, fatal>>
  BY DEF PackParam, registry
<1>2. Packed + 1 \in 1 .. Len(params) /\ kind \in Kind
  BY DEF PackParam, Packed, TypeOK, RegistryTypeOK, ProgressTypeOK
<1>3. off + ParamBytes(Packed + 1, kind) \in Nat
  BY <1>2, ParamType DEF TypeOK, ProgressTypeOK
<1>4. off' \in Nat
  BY <1>1, <1>3, AlignUpType
<1>5. offsets' \in [Kind -> Seq(Nat)]
  BY <1>1, <1>2 DEF TypeOK, ProgressTypeOK
<1>6. ProgressTypeOK'
  BY <1>1, <1>4, <1>5 DEF TypeOK, ProgressTypeOK
<1> QED BY <1>1, <1>6, RegistryFrame, LayoutFrame DEF TypeOK

LEMMA CloseSpanTypeOK ==
  ASSUME TypeOK, CloseSpan
  PROVE  TypeOK'
<1>1. UNCHANGED <<dtypes, registry, params>>
  BY DEF CloseSpan, registry
<1>2. total' \in Size
  BY LayoutAssumption DEF CloseSpan, TypeOK, ProgressTypeOK, Size
<1>3. kind' \in Kind /\ pc' \in {"pack", "malloc"}
  BY DEF CloseSpan, TypeOK, ProgressTypeOK, Kind
<1>4. ProgressTypeOK'
  BY <1>2, <1>3 DEF CloseSpan, TypeOK, ProgressTypeOK
<1>5. LayoutTypeOK'
  BY <1>1 DEF CloseSpan, TypeOK, ProgressTypeOK, LayoutTypeOK, NoMem
<1> QED BY <1>1, <1>4, <1>5, RegistryFrame DEF TypeOK

LEMMA ConstructArenaTypeOK ==
  ASSUME TypeOK, ConstructArena
  PROVE  TypeOK'
<1>1. CASE Fatal("cudaMalloc failed")
  BY <1>1, FatalTypeOK DEF Messages
<1>2. CASE ~Fatal("cudaMalloc failed")
  <2>1. /\ mem' = [capacity |-> total, used |-> 0]
        /\ pc' = "carve"
        /\ UNCHANGED <<dtypes, registry, data, spanBytes, base, locals, fatal>>
    BY <1>2 DEF ConstructArena
  <2>2. 0 \in Size
    BY LayoutAssumption DEF Size
  <2>3. mem' \in [capacity : Size, used : Size]
    BY <2>1, <2>2 DEF TypeOK, ProgressTypeOK
  <2>4. LayoutTypeOK'
    BY <2>1, <2>3 DEF TypeOK, LayoutTypeOK, registry
  <2>5. ProgressTypeOK'
    BY <2>1 DEF TypeOK, ProgressTypeOK, locals
  <2> QED BY <2>1, <2>4, <2>5, RegistryFrame DEF TypeOK
<1> QED BY <1>1, <1>2

LEMMA CarveTypeOK ==
  ASSUME TypeOK, Finalized, Carve
  PROVE  TypeOK'
<1>1. CASE Fatal("arena exhausted")
  BY <1>1, FatalTypeOK DEF Messages
<1>2. CASE ~Fatal("arena exhausted")
  <2>1. /\ base' = [base EXCEPT ![kind] = Aligned(mem.used)]
        /\ mem' = [capacity |-> mem.capacity, used |-> End(mem.used, spanBytes[kind])]
        /\ IF kind < 3 THEN kind' = kind + 1 /\ UNCHANGED pc
                       ELSE kind' = 0 /\ pc' = "fill"
        /\ UNCHANGED <<dtypes, registry, data, spanBytes, offsets, off, total, fatal>>
    BY <1>2 DEF Carve
  <2>2. mem.capacity \in Size /\ mem.used \in Size /\ mem.used \in Nat
    BY LayoutAssumption DEF TypeOK, LayoutTypeOK, Finalized, Size
  <2>3. Aligned(mem.used) \in Nat /\ spanBytes[kind] \in Nat
    BY <2>2, AlignUpType DEF Aligned, TypeOK, LayoutTypeOK, ProgressTypeOK
  <2>4. End(mem.used, spanBytes[kind]) \in Size
    BY <2>3, LayoutAssumption DEF End, Size
  <2>5. mem' \in [capacity : Size, used : Size]
    BY <2>1, <2>2, <2>4
  <2>6. base' \in [Kind -> Nat \cup {Null}]
    BY <2>1, <2>3 DEF TypeOK, LayoutTypeOK
  <2>7. LayoutTypeOK'
    BY <2>1, <2>5, <2>6 DEF TypeOK, LayoutTypeOK, registry
  <2>8. kind' \in Kind
    BY <2>1 DEF TypeOK, ProgressTypeOK, Kind
  <2>9. ProgressTypeOK'
    BY <2>1, <2>8 DEF TypeOK, ProgressTypeOK
  <2> QED BY <2>1, <2>7, <2>9, RegistryFrame DEF TypeOK
<1> QED BY <1>1, <1>2

-----------------------------------------------------------------------------
(* The inductive invariant.  While finalize() packs, the offsets computed  *)
(* so far form a chain of disjoint aligned intervals below the running     *)
(* offset; once a span is closed, below its size; and the bases carved so  *)
(* far are the partial sums of the spans.                                  *)
Chain(k, n, end) ==
  \A i \in 1 .. n :
    /\ offsets[k][i] % Align = 0
    /\ offsets[k][i] + ParamBytes(i, k) <= end
    /\ \A j \in 1 .. i - 1 : offsets[k][j] + ParamBytes(j, k) <= offsets[k][i]

Closed(k, W) ==
  /\ Len(offsets[k]) = Len(params)
  /\ spanBytes[k] % Align = 0
  /\ spanBytes[k] <= W
  /\ Chain(k, Len(params), spanBytes[k])

SpansBelow(n) ==
    (IF n > 0 THEN spanBytes[0] ELSE 0) + (IF n > 1 THEN spanBytes[1] ELSE 0)
  + (IF n > 2 THEN spanBytes[2] ELSE 0) + (IF n > 3 THEN spanBytes[3] ELSE 0)

NotPacked ==
  /\ kind = 0 /\ off = 0 /\ total = 0
  /\ \A k \in Kind : offsets[k] = <<>>

Packing(slot) ==
  /\ params # <<>>
  /\ \A k \in Kind : k < kind => Closed(k, MaxParams * slot)
  /\ \A k \in Kind : k > kind => offsets[k] = <<>>
  /\ Packed <= Len(params)
  /\ off % Align = 0
  /\ off <= Packed * slot
  /\ Chain(kind, Packed, off)
  /\ total = SpansBelow(kind)

AllClosed(slot) ==
  /\ \A k \in Kind : Closed(k, MaxParams * slot)
  /\ total = SpansBelow(4)

Carved(n) ==
  /\ mem.capacity = total
  /\ mem.used = SpansBelow(n)
  /\ \A k \in Kind : k < n => base[k] = SpansBelow(k)

PhaseInv(slot) ==
  /\ pc \in {"ctor", "pack", "malloc"} => ~Finalized
  /\ pc \in {"carve", "fill"} => Finalized
  /\ ~Finalized /\ pc \in {"ctor", "idle"} => NotPacked
  /\ pc = "pack" => Packing(slot)
  /\ pc = "malloc" => AllClosed(slot) /\ kind = 0
  /\ pc = "carve" => AllClosed(slot) /\ Carved(kind)
  /\ pc = "fill" => AllClosed(slot) /\ Carved(4)
  /\ Ready =>
       /\ AllClosed(slot) /\ Carved(4)
       /\ \A i \in 1 .. Len(params) : \A k \in Kind :
            data[i][k] = base[k] + offsets[k][i]
  /\ fatal # "arena exhausted"

-----------------------------------------------------------------------------
Slot(slot) ==
  /\ slot \in Nat
  /\ HoldsAnyParam(slot)
  /\ 4 * (MaxParams * slot) + Align <= Word

(* In a slot, the code's size of a parameter is its mathematical one.      *)
LEMMA ParamBytesFit ==
  ASSUME TypeOK, NEW slot, Slot(slot), NEW i \in 1 .. Len(params), NEW k \in Kind
  PROVE  ParamBytes(i, k) \in Nat /\ ParamBytes(i, k) + Align <= slot
<1> DEFINE size == params[i].numel * DtypeSize(dtypes[k])
<1>1. Align \in Nat \ {0} /\ Word \in Nat \ {0} /\ MaxParams \in Nat \ {0}
  BY LayoutAssumption, ParamStoreAssumption DEF TypeOK, RegistryTypeOK
<1>2. slot <= MaxParams * slot /\ MaxParams * slot \in Nat
  BY <1>1, SMT DEF Slot
<1>3. params[i].numel \in Numels /\ params[i].numel > 0 /\ params[i].numel \in Int
      /\ dtypes[k] \in DType
  BY ParamType
<1>4. size \in Nat
  BY <1>3, SMT DEF DtypeSize
<1>5. size + Align <= slot
  BY <1>3 DEF Slot, HoldsAnyParam
<1> HIDE DEF size
<1>6. size < Word
  BY <1>1, <1>2, <1>4, <1>5 DEF Slot
<1>7. ParamBytes(i, k) = size
  BY <1>1, <1>4, <1>6, SmallModulo DEF ParamBytes, Bytes, size
<1> QED BY <1>4, <1>5, <1>7

LEMMA PhaseFrame ==
  ASSUME NEW slot, PhaseInv(slot), fatal' # "arena exhausted",
         UNCHANGED <<dtypes, params, layout, pc, locals>>
  PROVE  PhaseInv(slot)'
<1>1. \A k : \A W : Closed(k, W) => Closed(k, W)'
  BY DEF Closed, Chain, ParamBytes, layout, locals
<1>2. NotPacked => NotPacked'
  BY DEF NotPacked, locals
<1>3. Packing(slot) => Packing(slot)'
  BY <1>1 DEF Packing, Chain, ParamBytes, SpansBelow, Packed, layout, locals
<1>4. AllClosed(slot) => AllClosed(slot)'
  BY <1>1 DEF AllClosed, SpansBelow, layout, locals
<1>5. \A n : Carved(n) => Carved(n)'
  BY DEF Carved, SpansBelow, layout, locals
<1>6. Carved(kind) => Carved(kind)'
  BY <1>5 DEF locals
<1> QED BY <1>2, <1>3, <1>4, <1>5, <1>6
        DEF PhaseInv, Finalized, Ready, layout, locals, NoMem

LEMMA PackParamPhase ==
  ASSUME TypeOK, NEW slot, Slot(slot), PhaseInv(slot), PackParam
  PROVE  PhaseInv(slot)'
<1> DEFINE n == Packed + 1
           bytes == ParamBytes(n, kind)
<1>1. /\ pc = "pack" /\ Packed < Len(params)
      /\ offsets' = [offsets EXCEPT ![kind] = Append(@, off)]
      /\ off' = AlignUp(off + bytes)
      /\ UNCHANGED <<dtypes, params, layout, pc, kind, total, fatal>>
  BY DEF PackParam, registry
<1>2. Packing(slot) /\ ~Finalized
  BY <1>1 DEF PhaseInv
<1>3. /\ Align \in Nat \ {0} /\ Word \in Nat \ {0} /\ MaxParams \in Nat
      /\ slot \in Nat /\ off \in Nat /\ Packed \in Nat /\ kind \in Kind
      /\ n \in 1 .. Len(params) /\ Len(params) <= MaxParams /\ Len(params) \in Nat
  BY <1>1, LayoutAssumption, ParamStoreAssumption
     DEF TypeOK, RegistryTypeOK, ProgressTypeOK, Packed, Slot
<1>4. bytes \in Nat /\ bytes + Align <= slot
  BY <1>3, ParamBytesFit
<1> HIDE DEF bytes
<1>5. off + bytes + Align <= n * slot /\ n * slot <= MaxParams * slot
      /\ n * slot \in Nat /\ MaxParams * slot \in Nat
  <2>1. off <= Packed * slot
    BY <1>2 DEF Packing
  <2>2. n * slot = Packed * slot + slot /\ Packed * slot \in Nat
    BY <1>3, SMT
  <2>3. n * slot <= MaxParams * slot /\ MaxParams * slot \in Nat /\ n * slot \in Nat
    BY <1>3, SMT
  <2> QED BY <1>3, <1>4, <2>1, <2>2, <2>3
<1>6. /\ off' \in Nat
      /\ off + bytes <= off'
      /\ off' <= n * slot
      /\ off' % Align = 0
  <2>1. off + bytes \in Nat /\ off + bytes + Align <= Word
    BY <1>3, <1>4, <1>5 DEF Slot
  <2>2. /\ off' \in Nat /\ off + bytes <= off'
        /\ off' < off + bytes + Align /\ off' % Align = 0
    BY <1>1, <2>1, LayoutAssumption, RoundUp DEF AlignUp
  <2> DEFINE top == n * slot
  <2>3. top \in Nat /\ off + bytes + Align <= top
    BY <1>5
  <2> HIDE DEF top
  <2>4. off' <= top
    BY <1>3, <2>1, <2>2, <2>3
  <2> QED BY <2>2, <2>4 DEF top
<1>7. /\ Len(offsets'[kind]) = n
      /\ offsets'[kind][n] = off
      /\ \A i \in 1 .. Packed : offsets'[kind][i] = offsets[kind][i]
      /\ \A i \in 1 .. Packed : offsets[kind][i] \in Nat
      /\ \A k \in Kind \ {kind} : offsets'[k] = offsets[k]
  <2>1. offsets \in [Kind -> Seq(Nat)] /\ kind \in Kind
    BY DEF TypeOK, ProgressTypeOK
  <2>2. offsets'[kind] = Append(offsets[kind], off) /\ offsets[kind] \in Seq(Nat)
    BY <1>1, <2>1
  <2>3. \A k \in Kind \ {kind} : offsets'[k] = offsets[k]
    BY <1>1, <2>1
  <2>4. \A i \in 1 .. Packed : offsets[kind][i] \in Nat
    BY <2>2, ElementInSet DEF Packed
  <2> QED BY <1>3, <2>2, <2>3, <2>4, AppendFacts DEF Packed
<1>8. \A i \in 1 .. Len(params) : \A k \in Kind : ParamBytes(i, k)' = ParamBytes(i, k)
  BY <1>1 DEF ParamBytes
<1>9. \A i \in 1 .. Len(params) : ParamBytes(i, kind) \in Nat
  BY <1>3, ParamType
<1>0. Packed' = n
  BY <1>1, <1>7 DEF Packed
<1>10. Chain(kind, Packed, off)'
  <2> SUFFICES ASSUME NEW i \in 1 .. n
               PROVE  /\ offsets'[kind][i] % Align = 0
                      /\ offsets'[kind][i] + ParamBytes(i, kind) <= off'
                      /\ \A j \in 1 .. i - 1 :
                           offsets'[kind][j] + ParamBytes(j, kind) <= offsets'[kind][i]
    BY <1>1, <1>3, <1>0 DEF Chain, ParamBytes
  <2>1. ASSUME NEW j \in 1 .. Packed
        PROVE  /\ offsets[kind][j] % Align = 0
               /\ offsets[kind][j] + ParamBytes(j, kind) <= off
               /\ \A h \in 1 .. j - 1 :
                    offsets[kind][h] + ParamBytes(h, kind) <= offsets[kind][j]
    BY <1>2 DEF Packing, Chain
  <2>2. CASE i \in 1 .. Packed
    <3>1. \A j \in 1 .. i - 1 : j \in 1 .. Packed
      BY <1>3, <2>2
    <3>2. offsets[kind][i] + ParamBytes(i, kind) <= off'
      <4>1. ParamBytes(i, kind) \in Nat /\ offsets[kind][i] \in Nat
        BY <1>3, <1>7, <1>9, <2>2
      <4>2. offsets[kind][i] + ParamBytes(i, kind) <= off
        BY <2>1, <2>2
      <4>3. off <= off' /\ off \in Nat /\ off' \in Nat
        BY <1>3, <1>4, <1>6, <1>9
      <4> DEFINE end == offsets[kind][i] + ParamBytes(i, kind)
      <4>4. end \in Nat
        BY <4>1
      <4>5. end <= off
        BY <4>2
      <4> HIDE DEF end
      <4>6. end <= off'
        BY <4>3, <4>4, <4>5
      <4> QED BY <4>6 DEF end
    <3> QED BY <1>7, <2>1, <2>2, <3>1, <3>2
  <2>3. CASE i = n
    <3>1. \A j \in 1 .. i - 1 : j \in 1 .. Packed
      BY <1>3, <2>3
    <3>2. off % Align = 0
      BY <1>2 DEF Packing
    <3> QED BY <1>6, <1>7, <2>1, <2>3, <3>1, <3>2 DEF bytes
  <2> QED BY <1>3, <2>2, <2>3
<1>11. Packing(slot)'
  <2>1. \A k \in Kind : k < kind => Closed(k, MaxParams * slot)'
    <3> SUFFICES ASSUME NEW k \in Kind, k < kind
                 PROVE  Closed(k, MaxParams * slot)'
      OBVIOUS
    <3>1. offsets'[k] = offsets[k]
      BY <1>3, <1>7 DEF Kind
    <3>2. Closed(k, MaxParams * slot)
      BY <1>2 DEF Packing
    <3> QED BY <1>1, <3>1, <3>2 DEF Closed, Chain, ParamBytes, layout
  <2>2. \A k \in Kind : k > kind => offsets'[k] = <<>>
    BY <1>2, <1>3, <1>7 DEF Packing, Kind
  <2>4. total' = SpansBelow(kind)'
    BY <1>1, <1>2 DEF Packing, SpansBelow, layout
  <2>5. Packed' <= Len(params')
    BY <1>1, <1>3, <1>0
  <2> QED BY <1>1, <1>2, <1>6, <1>10, <1>0, <2>1, <2>2, <2>4, <2>5 DEF Packing
<1> QED BY <1>1, <1>2, <1>11 DEF PhaseInv, Finalized, Ready, layout, NoMem

LEMMA CloseSpanPhase ==
  ASSUME TypeOK, NEW slot, Slot(slot), PhaseInv(slot), CloseSpan
  PROVE  PhaseInv(slot)'
<1> DEFINE W == MaxParams * slot
<1>1. /\ pc = "pack" /\ Packed = Len(params)
      /\ spanBytes' = [spanBytes EXCEPT ![kind] = off]
      /\ total' = (total + off) % Word
      /\ off' = 0
      /\ IF kind < 3 THEN kind' = kind + 1 /\ UNCHANGED pc
                     ELSE kind' = 0 /\ pc' = "malloc"
      /\ UNCHANGED <<dtypes, params, data, base, mem, offsets, fatal>>
  BY DEF CloseSpan, registry
<1>2. Packing(slot) /\ ~Finalized
  BY <1>1 DEF PhaseInv
<1>3. /\ Align \in Nat \ {0} /\ Word \in Nat \ {0} /\ MaxParams \in Nat
      /\ slot \in Nat /\ off \in Nat /\ kind \in Kind
      /\ Len(params) <= MaxParams /\ Len(params) \in Nat
      /\ spanBytes \in [Kind -> Nat]
  BY LayoutAssumption, ParamStoreAssumption
     DEF TypeOK, RegistryTypeOK, LayoutTypeOK, ProgressTypeOK, Slot
<1>4. off <= W /\ W \in Nat /\ 4 * W + Align <= Word
  <2>1. off <= Len(params) * slot
    BY <1>1, <1>2 DEF Packing
  <2>2. Len(params) * slot <= W /\ W \in Nat /\ Len(params) * slot \in Nat
    BY <1>3, SMT
  <2> QED BY <1>3, <2>1, <2>2 DEF Slot
<1> HIDE DEF W
<1> PICK h \in Kind : h = kind
  BY <1>3
<1>5. Closed(h, W)'
  <2>1. Len(offsets[h]) = Len(params) /\ offsets' = offsets
    BY <1>1 DEF Packed
  <2>2. spanBytes'[h] = off
    BY <1>1, <1>3
  <2>3. Chain(h, Len(params), off) /\ off % Align = 0
    BY <1>1, <1>2 DEF Packing
  <2> QED BY <1>1, <1>4, <2>1, <2>2, <2>3 DEF Closed, Chain, ParamBytes
<1>6. \A k \in Kind : k < h => Closed(k, W)'
  <2> SUFFICES ASSUME NEW k \in Kind, k < h
               PROVE  Closed(k, W)'
    OBVIOUS
  <2>1. spanBytes'[k] = spanBytes[k]
    BY <1>1, <1>3 DEF Kind
  <2>2. Closed(k, W)
    BY <1>2 DEF Packing, W
  <2> HIDE DEF W
  <2>3. \A j : ParamBytes(j, k)' = ParamBytes(j, k)
    BY <1>1 DEF ParamBytes
  <2> QED BY <1>1, <2>1, <2>2, <2>3 DEF Closed, Chain
<1>7. \A k \in Kind : k < h => spanBytes[k] \in Nat /\ spanBytes[k] <= W
  BY <1>2, <1>3 DEF Packing, Closed, W
<1>8. total = SpansBelow(h)
  BY <1>2 DEF Packing
<1>9. total + off = SpansBelow(h + 1)'
  <2>1. spanBytes'[h] = off /\ \A k \in Kind \ {h} : spanBytes'[k] = spanBytes[k]
    BY <1>1, <1>3
  <2>2. CASE h = 0
    BY <1>3, <1>8, <2>1, <2>2 DEF SpansBelow, Kind
  <2>3. CASE h = 1
    BY <1>3, <1>8, <2>1, <2>3 DEF SpansBelow, Kind
  <2>4. CASE h = 2
    BY <1>3, <1>8, <2>1, <2>4 DEF SpansBelow, Kind
  <2>5. CASE h = 3
    BY <1>3, <1>8, <2>1, <2>5 DEF SpansBelow, Kind
  <2> QED BY <1>3, <2>2, <2>3, <2>4, <2>5 DEF Kind
<1>10. total + off \in Nat /\ total + off < Word
  <2>1. /\ 0 < h => spanBytes[0] \in Nat /\ spanBytes[0] <= W
        /\ 1 < h => spanBytes[1] \in Nat /\ spanBytes[1] <= W
        /\ 2 < h => spanBytes[2] \in Nat /\ spanBytes[2] <= W
        /\ ~(3 < h)
    BY <1>7 DEF Kind
  <2>2. total \in Nat /\ total <= 3 * W
    <3>1. CASE h = 0
      BY <1>4, <1>8, <3>1 DEF SpansBelow
    <3>2. CASE h = 1
      BY <1>4, <1>8, <2>1, <3>2 DEF SpansBelow
    <3>3. CASE h = 2
      BY <1>4, <1>8, <2>1, <3>3 DEF SpansBelow
    <3>4. CASE h = 3
      BY <1>4, <1>8, <2>1, <3>4 DEF SpansBelow
    <3> QED BY <3>1, <3>2, <3>3, <3>4 DEF Kind
  <2> QED BY <1>3, <1>4, <2>2
<1>11. total' = SpansBelow(h + 1)'
  BY <1>1, <1>3, <1>9, <1>10, SmallModulo
<1>12. CASE h < 3
  <2>1. kind' = h + 1 /\ pc' = "pack"
    BY <1>1, <1>12
  <2>2. Packed' = 0 /\ offsets'[kind'] = <<>>
    <3>1. kind' \in Kind /\ kind' > h /\ offsets' = offsets
      BY <1>1, <1>3, <1>12, <2>1 DEF Kind
    <3>2. offsets[kind'] = <<>>
      BY <1>2, <3>1 DEF Packing
    <3> QED BY <3>1, <3>2 DEF Packed
  <2>3. \A k \in Kind : k < h + 1 => Closed(k, W)'
    BY <1>3, <1>5, <1>6 DEF Kind
  <2>4. \A k \in Kind : k > h + 1 => offsets'[k] = <<>>
    <3>1. \A k \in Kind : k > h + 1 => k > h
      BY DEF Kind
    <3> QED BY <1>1, <1>2, <3>1 DEF Packing
  <2>5. Chain(kind, Packed, off)'
    BY <2>2 DEF Chain
  <2>6. 0 % Align = 0 /\ 0 <= 0 * slot
    BY <1>3, SMT
  <2>7. total' = SpansBelow(kind)'
    BY <1>11, <2>1 DEF SpansBelow
  <2>8. Packing(slot)'
    BY <1>1, <1>2, <1>3, <2>1, <2>2, <2>3, <2>4, <2>5, <2>6, <2>7 DEF Packing, W
  <2> QED BY <1>1, <1>2, <2>1, <2>8 DEF PhaseInv, Finalized, Ready, NoMem
<1>13. CASE ~(h < 3)
  <2>1. h = 3 /\ kind' = 0 /\ pc' = "malloc"
    BY <1>1, <1>3, <1>13 DEF Kind
  <2>2. \A k \in Kind : Closed(k, W)'
    BY <1>3, <1>5, <1>6, <2>1 DEF Kind
  <2>3. total' = SpansBelow(4)'
    BY <1>11, <2>1 DEF SpansBelow
  <2>4. AllClosed(slot)'
    BY <2>2, <2>3 DEF AllClosed, W
  <2> QED BY <1>1, <1>2, <2>1, <2>4 DEF PhaseInv, Finalized, Ready, NoMem
<1> QED BY <1>12, <1>13

LEMMA MallocPhase ==
  ASSUME TypeOK, NEW slot, PhaseInv(slot), ConstructArena
  PROVE  PhaseInv(slot)'
<1>1. CASE Fatal("cudaMalloc failed")
  BY <1>1, PhaseFrame DEF Fatal, registry
<1>2. CASE ~Fatal("cudaMalloc failed")
  <2>1. /\ pc = "malloc" /\ pc' = "carve"
        /\ mem' = [capacity |-> total, used |-> 0]
        /\ UNCHANGED <<dtypes, params, data, spanBytes, base, kind, offsets, off, total, fatal>>
    BY <1>2 DEF ConstructArena, registry, locals
  <2>2. AllClosed(slot) /\ kind = 0
    BY <2>1 DEF PhaseInv
  <2>3. AllClosed(slot)'
    BY <2>1, <2>2 DEF AllClosed, Closed, Chain, ParamBytes, SpansBelow
  <2>4. Carved(kind)'
    BY <2>1, <2>2 DEF Carved, SpansBelow, Kind
  <2>5. Finalized'
    BY <2>1, LayoutAssumption DEF Finalized, NoMem, Null, TypeOK, ProgressTypeOK, Size
  <2> QED BY <2>1, <2>3, <2>4, <2>5 DEF PhaseInv, Ready
<1> QED BY <1>1, <1>2

(* The sizes of the spans below one another, and their alignment.          *)
LEMMA SpansFit ==
  ASSUME TypeOK, NEW slot, Slot(slot), AllClosed(slot), NEW n \in 0 .. 4
  PROVE  /\ SpansBelow(n) \in Nat
         /\ SpansBelow(n) % Align = 0
         /\ SpansBelow(n) + Align <= Word
         /\ n < 4 => spanBytes[n] \in Nat /\ SpansBelow(n + 1) = SpansBelow(n) + spanBytes[n]
         /\ SpansBelow(n) <= SpansBelow(4)
         /\ total = SpansBelow(4)
<1> DEFINE W == MaxParams * slot
<1>1. Align \in Nat \ {0} /\ Word \in Nat \ {0} /\ W \in Nat /\ 4 * W + Align <= Word
  <2>1. MaxParams \in Nat /\ slot \in Nat
    BY ParamStoreAssumption DEF Slot
  <2>2. W \in Nat
    BY <2>1, SMT
  <2> QED BY <2>2, LayoutAssumption DEF Slot
<1> HIDE DEF W
<1>2. \A k \in Kind : spanBytes[k] \in Nat /\ spanBytes[k] <= W /\ spanBytes[k] % Align = 0
  BY DEF TypeOK, LayoutTypeOK, AllClosed, Closed, W
<1> DEFINE a == spanBytes[0]
           b == spanBytes[1]
           c == spanBytes[2]
           d == spanBytes[3]
<1>3. /\ a \in Nat /\ a <= W /\ a % Align = 0
      /\ b \in Nat /\ b <= W /\ b % Align = 0
      /\ c \in Nat /\ c <= W /\ c % Align = 0
      /\ d \in Nat /\ d <= W /\ d % Align = 0
  BY <1>2 DEF Kind
<1>4. /\ SpansBelow(0) = 0 /\ SpansBelow(1) = a /\ SpansBelow(2) = a + b
      /\ SpansBelow(3) = a + b + c /\ SpansBelow(4) = a + b + c + d
  BY <1>3 DEF SpansBelow
<1> HIDE DEF a, b, c, d
<1>5. /\ (a + b) % Align = 0
      /\ (a + b + c) % Align = 0
      /\ (a + b + c + d) % Align = 0
      /\ 0 % Align = 0
  <2>1. a + b \in Nat /\ a + b + c \in Nat
    BY <1>3
  <2>2. (a + b) % Align = 0
    BY <1>1, <1>3, SumOfMultiples, Zenon
  <2>3. (a + b + c) % Align = 0
    BY <1>1, <1>3, <2>1, <2>2, SumOfMultiples, Zenon
  <2>5. (a + b + c + d) % Align = 0
    BY <1>1, <1>3, <2>1, <2>3, SumOfMultiples, Zenon
  <2>4. 0 % Align = 0
    BY <1>1, SMT
  <2> QED BY <2>2, <2>3, <2>4, <2>5
<1>6. n = 0 \/ n = 1 \/ n = 2 \/ n = 3 \/ n = 4
  OBVIOUS
<1>7. total = SpansBelow(4)
  BY DEF AllClosed
<1>8. n < 4 => spanBytes[n] \in Nat /\ SpansBelow(n + 1) = SpansBelow(n) + spanBytes[n]
  BY <1>3, <1>4, <1>6 DEF a, b, c, d
<1>9. SpansBelow(n) \in Nat /\ SpansBelow(n) <= SpansBelow(4) /\ SpansBelow(4) <= 4 * W
  BY <1>1, <1>3, <1>4, <1>6
<1>10. SpansBelow(n) + Align <= Word
  <2>1. SpansBelow(4) \in Nat
    BY <1>3, <1>4
  <2> QED BY <1>1, <1>9, <2>1
<1>11. SpansBelow(n) % Align = 0
  BY <1>3, <1>4, <1>5, <1>6
<1> QED BY <1>7, <1>8, <1>9, <1>10, <1>11

(* Each span is carved exactly at the end of the one before it, and the    *)
(* arena's exhaustion check never trips.                                   *)
LEMMA CarvePhase ==
  ASSUME TypeOK, NEW slot, Slot(slot), PhaseInv(slot), Carve
  PROVE  PhaseInv(slot)'
<1>1. pc = "carve" /\ fatal = "none"
  BY DEF Carve
<1>2. AllClosed(slot) /\ Carved(kind) /\ kind \in Kind /\ Finalized
  BY <1>1 DEF PhaseInv, TypeOK, ProgressTypeOK
<1> PICK h \in Kind : h = kind
  BY <1>2
<1>3. h \in 0 .. 4 /\ h + 1 \in 0 .. 4 /\ h < 4 /\ h \in Int
  BY DEF Kind
<1>4. mem.capacity = total /\ mem.used = SpansBelow(h)
  BY <1>2 DEF Carved
<1>5. /\ SpansBelow(h) \in Nat
      /\ SpansBelow(h) % Align = 0
      /\ SpansBelow(h) + Align <= Word
      /\ spanBytes[h] \in Nat
      /\ SpansBelow(h + 1) = SpansBelow(h) + spanBytes[h]
      /\ SpansBelow(h + 1) + Align <= Word
      /\ SpansBelow(h + 1) <= total
      /\ SpansBelow(h + 1) \in Nat
      /\ total \in Nat
  <2>1. /\ SpansBelow(h) \in Nat /\ SpansBelow(h) % Align = 0 /\ SpansBelow(h) + Align <= Word
        /\ spanBytes[h] \in Nat /\ SpansBelow(h + 1) = SpansBelow(h) + spanBytes[h]
    BY <1>2, <1>3, SpansFit
  <2>2. /\ SpansBelow(h + 1) \in Nat /\ SpansBelow(h + 1) + Align <= Word
        /\ SpansBelow(h + 1) <= SpansBelow(4) /\ total = SpansBelow(4)
    BY <1>2, <1>3, SpansFit
  <2>3. SpansBelow(4) \in Nat
    BY <1>2, SpansFit, 4 \in 0 .. 4
  <2> QED BY <2>1, <2>2, <2>3
<1>6. Aligned(mem.used) = SpansBelow(h)
  BY <1>4, <1>5, AlignUpOfMultiple DEF Aligned
<1>7. End(mem.used, spanBytes[h]) = SpansBelow(h + 1)
  <2>1. SpansBelow(h + 1) < Word
    BY <1>5, LayoutAssumption
  <2> QED BY <1>5, <1>6, <2>1, LayoutAssumption, SmallModulo DEF End
<1>8. ~Exhausted(mem.used, spanBytes[h], mem.capacity)
  BY <1>4, <1>5, <1>7 DEF Exhausted
<1>9. /\ base' = [base EXCEPT ![h] = SpansBelow(h)]
      /\ mem' = [capacity |-> total, used |-> SpansBelow(h + 1)]
      /\ IF h < 3 THEN kind' = h + 1 /\ UNCHANGED pc
                  ELSE kind' = 0 /\ pc' = "fill"
      /\ UNCHANGED <<dtypes, params, data, spanBytes, offsets, off, total, fatal>>
  BY <1>4, <1>6, <1>7, <1>8 DEF Carve, registry
<1>10. AllClosed(slot)'
  BY <1>2, <1>9 DEF AllClosed, Closed, Chain, ParamBytes, SpansBelow
<1>11. \A n : SpansBelow(n)' = SpansBelow(n)
  BY <1>9 DEF SpansBelow
<1>12. Carved(h + 1)'
  <2>1. mem'.capacity = total' /\ mem'.used = SpansBelow(h + 1)'
    BY <1>9, <1>11
  <2>2. ASSUME NEW k \in Kind, k < h + 1  PROVE base'[k] = SpansBelow(k)'
    <3>1. base \in [Kind -> Nat \cup {Null}]
      BY DEF TypeOK, LayoutTypeOK
    <3>2. CASE k = h
      BY <1>9, <1>11, <3>1, <3>2
    <3>3. CASE k # h
      <4>1. k < h
        BY <1>3, <2>2, <3>3 DEF Kind
      <4>2. base[k] = SpansBelow(k)
        BY <1>2, <4>1 DEF Carved
      <4> QED BY <1>9, <1>11, <3>1, <3>3, <4>2
    <3> QED BY <3>2, <3>3
  <2> QED BY <2>1, <2>2 DEF Carved
<1>13. Finalized'
  <2>1. mem'.used # Null
    BY <1>5, <1>9 DEF Null
  <2> QED BY <2>1 DEF Finalized, NoMem
<1>14. CASE h < 3
  <2>1. kind' = h + 1 /\ pc' = "carve"
    BY <1>1, <1>9, <1>14
  <2>2. Carved(kind)'
    BY <1>12, <2>1 DEF Carved, SpansBelow
  <2> QED BY <1>1, <1>9, <1>10, <1>13, <2>1, <2>2 DEF PhaseInv, Ready
<1>15. CASE ~(h < 3)
  <2>1. h = 3 /\ pc' = "fill"
    BY <1>9, <1>15 DEF Kind
  <2>2. Carved(4)'
    BY <1>12, <2>1
  <2> QED BY <1>1, <1>9, <1>10, <1>13, <2>1, <2>2 DEF PhaseInv, Ready
<1> QED BY <1>14, <1>15

LEMMA FillViewsPhase ==
  ASSUME TypeOK, NEW slot, Slot(slot), PhaseInv(slot), FillViews
  PROVE  PhaseInv(slot)' /\ TypeOK'
<1>1. /\ pc = "fill" /\ pc' = "idle" /\ fatal = "none"
      /\ data' = [i \in 1 .. Len(params) |-> [k \in Kind |-> base[k] + offsets[k][i]]]
      /\ UNCHANGED <<dtypes, registry, params, spanBytes, base, mem, locals, fatal>>
  BY DEF FillViews, registry
<1>2. AllClosed(slot) /\ Carved(4) /\ Finalized
  BY <1>1 DEF PhaseInv
<1>3. ASSUME NEW i \in 1 .. Len(params), NEW k \in Kind
      PROVE  base[k] + offsets[k][i] \in Nat
  <2>1. offsets[k] \in Seq(Nat) /\ Len(offsets[k]) = Len(params)
    BY <1>2 DEF AllClosed, Closed, TypeOK, ProgressTypeOK
  <2>2. offsets[k][i] \in Nat
    BY <2>1, ElementInSet
  <2>3. base[k] = SpansBelow(k) /\ k \in 0 .. 4
    BY <1>2 DEF Carved, Kind
  <2>4. base[k] \in Nat
    BY <1>2, <2>3, SpansFit
  <2> QED BY <2>2, <2>4
<1>4. Len(params) \in Nat
  BY DEF TypeOK, RegistryTypeOK
<1>5. data' \in Seq([Kind -> Nat \cup {Null}]) /\ Len(data') = Len(params')
  BY <1>1, <1>3, <1>4
<1>6. LayoutTypeOK'
  BY <1>1, <1>5 DEF TypeOK, LayoutTypeOK, NoMem
<1>7. ProgressTypeOK'
  BY <1>1 DEF TypeOK, ProgressTypeOK, locals
<1>8. TypeOK'
  BY <1>1, <1>6, <1>7, RegistryFrame DEF TypeOK
<1>9. AllClosed(slot)' /\ Carved(4)'
  BY <1>1, <1>2 DEF AllClosed, Closed, Chain, ParamBytes, Carved, SpansBelow, locals
<1>10. \A i \in 1 .. Len(params') : \A k \in Kind : data'[i][k] = base'[k] + offsets'[k][i]
  BY <1>1 DEF locals
<1>11. Finalized'
  BY <1>1, <1>2 DEF Finalized, NoMem
<1>12. PhaseInv(slot)'
  BY <1>1, <1>9, <1>10, <1>11 DEF PhaseInv, Ready
<1> QED BY <1>8, <1>12

-----------------------------------------------------------------------------
IInv(slot) == TypeOK /\ PhaseInv(slot)

LEMMA InitIInv == \A slot : Init => IInv(slot)
<1> SUFFICES ASSUME NEW slot, Init PROVE IInv(slot)
  OBVIOUS
<1>1. NotPacked /\ ~Finalized
  BY DEF Init, NotPacked, Finalized
<1>2. PhaseInv(slot)
  BY <1>1 DEF Init, PhaseInv, Ready
<1> QED BY <1>2, InitTypeOK DEF IInv

LEMMA FatalIInv ==
  ASSUME NEW slot, IInv(slot), NEW msg \in Messages, msg # "arena exhausted", Fatal(msg)
  PROVE  IInv(slot)'
  BY FatalTypeOK, PhaseFrame DEF IInv, Fatal, registry

LEMMA ConstructIInv ==
  ASSUME NEW slot, IInv(slot), Construct
  PROVE  IInv(slot)'
<1>1. CASE Fatal("storage dtype not supported")
  BY <1>1, FatalIInv DEF Messages
<1>2. CASE ~Fatal("storage dtype not supported")
  <2>1. /\ fatal = "none" /\ pc = "ctor" /\ pc' = "idle"
        /\ UNCHANGED <<dtypes, registry, params, layout, locals, fatal>>
    BY <1>2 DEF Construct, registry
  <2>2. ProgressTypeOK'
    BY <2>1 DEF IInv, TypeOK, ProgressTypeOK, locals
  <2>3. TypeOK'
    BY <2>1, <2>2, RegistryFrame, LayoutFrame DEF IInv, TypeOK
  <2>4. ~Finalized /\ NotPacked
    BY <2>1 DEF IInv, PhaseInv
  <2>5. ~Finalized' /\ NotPacked'
    BY <2>1, <2>4 DEF Finalized, NotPacked, layout, locals, NoMem
  <2>6. PhaseInv(slot)'
    BY <2>1, <2>5 DEF PhaseInv, Ready
  <2> QED BY <2>3, <2>6 DEF IInv
<1> QED BY <1>1, <1>2

LEMMA AddIInv ==
  ASSUME NEW slot, IInv(slot), NEW name \in Names, NEW numel \in Numels, Add(name, numel)
  PROVE  IInv(slot)'
<1>1. CASE Fatal("add refused")
  BY <1>1, FatalIInv DEF Messages
<1>2. CASE ~Fatal("add refused")
  <2>1. /\ fatal = "none" /\ pc = "idle" /\ ~Finalized
        /\ UNCHANGED <<mem, pc, locals, fatal>>
    BY <1>2 DEF Add, AddRefused, Idle
  <2>2. NotPacked
    BY <2>1 DEF IInv, PhaseInv
  <2>3. ~Finalized' /\ NotPacked'
    BY <2>1, <2>2 DEF Finalized, NotPacked, locals, NoMem
  <2>4. PhaseInv(slot)'
    BY <2>1, <2>3 DEF PhaseInv, Ready
  <2> QED BY <2>4, AddTypeOK DEF IInv
<1> QED BY <1>1, <1>2

LEMMA AliasIInv ==
  ASSUME NEW slot, IInv(slot), NEW alias \in Names, NEW target \in Names,
         Alias(alias, target)
  PROVE  IInv(slot)'
<1>1. CASE Fatal("alias refused")
  BY <1>1, FatalIInv DEF Messages
<1>2. CASE ~Fatal("alias refused")
  <2>1. fatal = "none" /\ UNCHANGED <<dtypes, params, layout, pc, locals, fatal>>
    BY <1>2 DEF Alias, Idle
  <2> QED BY <2>1, AliasTypeOK, PhaseFrame DEF IInv
<1> QED BY <1>1, <1>2

LEMMA FinalizeIInv ==
  ASSUME NEW slot, Slot(slot), IInv(slot), Finalize
  PROVE  IInv(slot)'
<1>1. CASE Fatal("finalize refused")
  BY <1>1, FatalIInv DEF Messages
<1>2. CASE ~Fatal("finalize refused")
  <2>1. /\ fatal = "none" /\ pc = "idle" /\ pc' = "pack" /\ ~Finalized /\ params # <<>>
        /\ UNCHANGED <<dtypes, registry, params, layout, locals, fatal>>
    BY <1>2 DEF Finalize, Idle, registry
  <2>2. ProgressTypeOK'
    BY <2>1 DEF IInv, TypeOK, ProgressTypeOK, locals
  <2>3. TypeOK'
    BY <2>1, <2>2, RegistryFrame, LayoutFrame DEF IInv, TypeOK
  <2>4. NotPacked
    BY <2>1 DEF IInv, PhaseInv
  <2>5. ~Finalized'
    BY <2>1 DEF Finalized, layout, NoMem
  <2>6. NotPacked' /\ Packed' = 0
    BY <2>1, <2>4 DEF NotPacked, Packed, locals, Kind
  <2>7. 0 % Align = 0 /\ 0 <= 0 * slot
    BY LayoutAssumption, SMT DEF Slot
  <2>8. Chain(kind, Packed, off)' /\ Packed' <= Len(params')
    BY <2>1, <2>3, <2>6 DEF Chain, TypeOK, RegistryTypeOK
  <2>9. Packing(slot)'
    BY <2>1, <2>6, <2>7, <2>8 DEF Packing, NotPacked, SpansBelow, Kind
  <2>10. PhaseInv(slot)'
    BY <2>1, <2>5, <2>9 DEF PhaseInv, Ready
  <2> QED BY <2>3, <2>10 DEF IInv
<1> QED BY <1>1, <1>2

LEMMA NextIInv ==
  ASSUME NEW slot, Slot(slot)
  PROVE  IInv(slot) /\ [Next]_vars => IInv(slot)'
<1> SUFFICES ASSUME IInv(slot), [Next]_vars PROVE IInv(slot)'
  OBVIOUS
<1>1. CASE Construct
  BY <1>1, ConstructIInv
<1>2. CASE \E name \in Names, numel \in Numels : Add(name, numel)
  BY <1>2, AddIInv
<1>3. CASE \E alias \in Names, target \in Names : Alias(alias, target)
  BY <1>3, AliasIInv
<1>4. CASE Finalize
  BY <1>4, FinalizeIInv
<1>5. CASE PackParam
  BY <1>5, PackParamTypeOK, PackParamPhase DEF IInv
<1>6. CASE CloseSpan
  BY <1>6, CloseSpanTypeOK, CloseSpanPhase DEF IInv
<1>7. CASE ConstructArena
  BY <1>7, ConstructArenaTypeOK, MallocPhase DEF IInv
<1>8. CASE Carve
  <2>1. Finalized
    BY <1>8 DEF Carve, IInv, PhaseInv
  <2> QED BY <1>8, <2>1, CarveTypeOK, CarvePhase DEF IInv
<1>9. CASE FillViews
  BY <1>9, FillViewsPhase DEF IInv
<1>10. CASE \E name \in Names : AtUnknown(name)
  BY <1>10, FatalIInv DEF AtUnknown, Messages
<1>11. CASE FlatEarly
  BY <1>11, FatalIInv DEF FlatEarly, Messages
<1>12. CASE UNCHANGED vars
  <2>1. UNCHANGED <<dtypes, registry, params, layout, pc, locals, fatal>>
    BY <1>12 DEF vars, registry
  <2>2. ProgressTypeOK'
    BY <2>1 DEF IInv, TypeOK, ProgressTypeOK, locals
  <2>3. fatal' # "arena exhausted"
    BY <2>1 DEF IInv, PhaseInv
  <2> QED BY <2>1, <2>2, <2>3, RegistryFrame, LayoutFrame, PhaseFrame DEF IInv, TypeOK
<1> QED BY <1>1, <1>2, <1>3, <1>4, <1>5, <1>6, <1>7, <1>8, <1>9, <1>10, <1>11, <1>12 DEF Next

LEMMA Invariance ==
  ASSUME NEW slot, Slot(slot)
  PROVE  Spec => []IInv(slot)
<1>1. Init => IInv(slot)
  BY InitIInv
<1>2. IInv(slot) /\ [Next]_vars => IInv(slot)'
  BY NextIInv
<1> QED BY <1>1, <1>2, PTL DEF Spec

LEMMA SlotExists ==
  ASSUME NoWrap
  PROVE  \E slot : Slot(slot)
  BY DEF NoWrap, Slot

-----------------------------------------------------------------------------
(* The registry, the layout and the locals of finalize() stay well typed:  *)
(* every index entry names a registered parameter, every computed offset   *)
(* and size is a size_t.                                                   *)
THEOREM ParamStoreTypeOK ==
  ASSUME NoWrap
  PROVE  Spec => []TypeOK
<1> PICK slot : Slot(slot)
  BY SlotExists
<1>1. IInv(slot) => TypeOK
  BY DEF IInv
<1> QED BY <1>1, Invariance, PTL

(* finalize() never runs into the arena's exhaustion abort.                *)
THEOREM FinalizeNeverExhausts ==
  ASSUME NoWrap
  PROVE  Spec => []NeverExhausted
<1> PICK slot : Slot(slot)
  BY SlotExists
<1>1. IInv(slot) => NeverExhausted
  BY DEF IInv, PhaseInv, NeverExhausted
<1> QED BY <1>1, Invariance, PTL

(* The four spans tile the one allocation exactly.                         *)
THEOREM FinalizeTilesSpans ==
  ASSUME NoWrap
  PROVE  Spec => []SpansTile
<1> PICK slot : Slot(slot)
  BY SlotExists
<1>1. ASSUME IInv(slot), Ready  PROVE SpansTile
  <2>1. TypeOK /\ AllClosed(slot) /\ Carved(4)
    BY <1>1 DEF IInv, PhaseInv
  <2>2. \A k \in Kind : base[k] = SpansBelow(k)
    BY <2>1 DEF Carved, Kind
  <2>3. \A n \in 0 .. 3 : SpansBelow(n + 1) = SpansBelow(n) + spanBytes[n]
    BY <2>1, SpansFit
  <2>4. base[0] = 0
    BY <2>2 DEF SpansBelow, Kind
  <2>5. \A k \in 1 .. 3 : base[k] = base[k - 1] + spanBytes[k - 1]
    <3> SUFFICES ASSUME NEW k \in 1 .. 3
                 PROVE  base[k] = base[k - 1] + spanBytes[k - 1]
      OBVIOUS
    <3>1. k - 1 \in 0 .. 3 /\ (k - 1) + 1 = k /\ k \in Kind /\ k - 1 \in Kind
      BY DEF Kind
    <3> QED BY <2>2, <2>3, <3>1
  <2>6. base[3] + spanBytes[3] = total
    <3>1. 3 \in 0 .. 3 /\ 3 + 1 = 4 /\ 3 \in Kind
      BY DEF Kind
    <3> QED BY <2>1, <2>2, <2>3, <3>1 DEF AllClosed
  <2> QED BY <2>1, <2>4, <2>5, <2>6 DEF SpansTile, Carved, AllClosed
<1>2. IInv(slot) => SpansTile
  BY <1>1 DEF SpansTile
<1> QED BY <1>2, Invariance, PTL

-----------------------------------------------------------------------------
LEMMA SpansOrdered ==
  ASSUME TypeOK, NEW slot, Slot(slot), AllClosed(slot), NEW k \in Kind, NEW l \in Kind, k < l
  PROVE  SpansBelow(k) + spanBytes[k] <= SpansBelow(l)
<1>1. \A h \in Kind : spanBytes[h] \in Nat
  BY DEF TypeOK, LayoutTypeOK
<1>2. /\ spanBytes[0] \in Nat /\ spanBytes[1] \in Nat
      /\ spanBytes[2] \in Nat /\ spanBytes[3] \in Nat
  BY <1>1 DEF Kind
<1>3. /\ SpansBelow(0) = 0
      /\ SpansBelow(1) = spanBytes[0]
      /\ SpansBelow(2) = spanBytes[0] + spanBytes[1]
      /\ SpansBelow(3) = spanBytes[0] + spanBytes[1] + spanBytes[2]
  BY <1>2 DEF SpansBelow
<1>4. \/ k = 0 /\ (l = 1 \/ l = 2 \/ l = 3)
      \/ k = 1 /\ (l = 2 \/ l = 3)
      \/ k = 2 /\ l = 3
  BY DEF Kind
<1> QED BY <1>2, <1>3, <1>4

(* What lies in one span ends before anything in a later one begins.       *)
LEMMA OrderedSpans ==
  ASSUME NEW below \in Nat, NEW start \in Nat, NEW bytes \in Nat, NEW span \in Nat,
         NEW above \in Nat, NEW other \in Nat,
         start + bytes <= span, below + span <= above
  PROVE  below + start + bytes <= above + other
  OBVIOUS

(* A slice as finalize() leaves it: at its offset in the span of its kind. *)
LEMMA SliceFacts ==
  ASSUME NEW slot, Slot(slot), IInv(slot), Ready,
         NEW i \in 1 .. Len(params), NEW k \in Kind
  PROVE  /\ offsets[k][i] \in Nat /\ ParamBytes(i, k) \in Nat /\ spanBytes[k] \in Nat
         /\ base[k] \in Nat /\ base[k] % Align = 0
         /\ offsets[k][i] % Align = 0
         /\ Slice(i, k).off = base[k] + offsets[k][i]
         /\ Slice(i, k).bytes = ParamBytes(i, k)
         /\ offsets[k][i] + ParamBytes(i, k) <= spanBytes[k]
         /\ \A j \in 1 .. i - 1 :
              offsets[k][j] + ParamBytes(j, k) <= offsets[k][i]
<1>1. TypeOK /\ AllClosed(slot) /\ Carved(4)
  BY DEF IInv, PhaseInv
<1>2. offsets[k] \in Seq(Nat) /\ Len(offsets[k]) = Len(params)
  BY <1>1 DEF AllClosed, Closed, TypeOK, ProgressTypeOK
<1>3. offsets[k][i] \in Nat
  BY <1>2, ElementInSet
<1>4. ParamBytes(i, k) \in Nat /\ spanBytes[k] \in Nat
  BY <1>1, ParamType DEF TypeOK, LayoutTypeOK
<1>5. base[k] = SpansBelow(k) /\ k \in 0 .. 4
  BY <1>1 DEF Carved, Kind
<1>6. base[k] \in Nat /\ base[k] % Align = 0
  BY <1>1, <1>5, SpansFit
<1>7. data[i][k] = base[k] + offsets[k][i]
  BY DEF IInv, PhaseInv
<1>8. Chain(k, Len(params), spanBytes[k])
  BY <1>1 DEF AllClosed, Closed
<1> QED BY <1>3, <1>4, <1>6, <1>7, <1>8 DEF Slice, Chain

(* No parameter's weights, gradients or moments share a byte with another  *)
(* parameter's or with another kind's, and each lies in the span flat()    *)
(* returns for its kind.                                                   *)
THEOREM ParamStoreSlicesSound ==
  ASSUME NoWrap
  PROVE  Spec => []SlicesSound
<1> PICK slot : Slot(slot)
  BY SlotExists
<1>1. ASSUME IInv(slot), Ready,
             NEW i \in 1 .. Len(params), NEW k \in Kind,
             NEW j \in 1 .. Len(params), NEW l \in Kind, <<i, k>> # <<j, l>>
      PROVE  RegionsDisjoint(Slice(i, k), Slice(j, l))
  <2>1. TypeOK /\ AllClosed(slot) /\ Carved(4)
    BY <1>1 DEF IInv, PhaseInv
  <2>2. \A h \in Kind : base[h] = SpansBelow(h)
    BY <2>1 DEF Carved, Kind
  <2>3. /\ offsets[k][i] \in Nat /\ ParamBytes(i, k) \in Nat /\ spanBytes[k] \in Nat
        /\ base[k] \in Nat
        /\ Slice(i, k).off = base[k] + offsets[k][i]
        /\ Slice(i, k).bytes = ParamBytes(i, k)
        /\ offsets[k][i] + ParamBytes(i, k) <= spanBytes[k]
        /\ \A h \in 1 .. i - 1 : offsets[k][h] + ParamBytes(h, k) <= offsets[k][i]
    BY <1>1, SliceFacts
  <2>4. /\ offsets[l][j] \in Nat /\ ParamBytes(j, l) \in Nat /\ spanBytes[l] \in Nat
        /\ base[l] \in Nat
        /\ Slice(j, l).off = base[l] + offsets[l][j]
        /\ Slice(j, l).bytes = ParamBytes(j, l)
        /\ offsets[l][j] + ParamBytes(j, l) <= spanBytes[l]
        /\ \A h \in 1 .. j - 1 : offsets[l][h] + ParamBytes(h, l) <= offsets[l][j]
    BY <1>1, SliceFacts
  <2>5. CASE k = l
    <3>1. i # j /\ Len(params) \in Nat
      BY <1>1, <2>1, <2>5 DEF TypeOK, RegistryTypeOK
    <3>2. CASE i < j
      <4>1. offsets[k][i] + ParamBytes(i, k) <= offsets[k][j]
        BY <2>4, <2>5, <3>1, <3>2
      <4>2. base[k] = base[l] /\ offsets[k][j] = offsets[l][j]
        BY <2>5
      <4>3. offsets[k][i] + ParamBytes(i, k) <= offsets[l][j]
        BY <4>1, <4>2
      <4>4. Slice(i, k).off + Slice(i, k).bytes <= Slice(j, l).off
        <5>1. /\ offsets[k][i] \in Nat /\ ParamBytes(i, k) \in Nat /\ base[k] \in Nat
              /\ Slice(i, k).off = base[k] + offsets[k][i]
              /\ Slice(i, k).bytes = ParamBytes(i, k)
          BY <2>3
        <5>2. offsets[l][j] \in Nat /\ Slice(j, l).off = base[k] + offsets[l][j]
          BY <2>4, <4>2
        <5> QED BY ONLY <4>3, <5>1, <5>2
      <4> QED BY <4>4 DEF RegionsDisjoint
    <3>3. CASE j < i
      <4>1. offsets[k][j] + ParamBytes(j, k) <= offsets[k][i]
        BY <2>3, <2>5, <3>1, <3>3
      <4>2. base[k] = base[l]
        BY <2>5
      <4>3. offsets[l][j] + ParamBytes(j, l) <= offsets[k][i]
        BY <2>5, <4>1
      <4>4. Slice(j, l).off + Slice(j, l).bytes <= Slice(i, k).off
        <5>1. /\ offsets[l][j] \in Nat /\ ParamBytes(j, l) \in Nat /\ base[l] \in Nat
              /\ Slice(j, l).off = base[l] + offsets[l][j]
              /\ Slice(j, l).bytes = ParamBytes(j, l)
          BY <2>4
        <5>2. offsets[k][i] \in Nat /\ Slice(i, k).off = base[l] + offsets[k][i]
          BY <2>3, <4>2
        <5> QED BY ONLY <4>3, <5>1, <5>2
      <4> QED BY <4>4 DEF RegionsDisjoint
    <3> QED BY <3>1, <3>2, <3>3
  <2>6. CASE k < l
    <3>1. base[k] + spanBytes[k] <= base[l]
      BY <2>1, <2>2, <2>6, SpansOrdered
    <3>2. base[k] + offsets[k][i] + ParamBytes(i, k) <= base[l] + offsets[l][j]
      BY <2>3, <2>4, <3>1, OrderedSpans
    <3> QED BY <2>3, <2>4, <3>2 DEF RegionsDisjoint
  <2>7. CASE l < k
    <3>1. base[l] + spanBytes[l] <= base[k]
      BY <2>1, <2>2, <2>7, SpansOrdered
    <3>2. base[l] + offsets[l][j] + ParamBytes(j, l) <= base[k] + offsets[k][i]
      BY <2>3, <2>4, <3>1, OrderedSpans
    <3> QED BY <2>3, <2>4, <3>2 DEF RegionsDisjoint
  <2> QED BY <2>5, <2>6, <2>7 DEF Kind
<1>2. ASSUME IInv(slot), Ready, NEW i \in 1 .. Len(params), NEW k \in Kind
      PROVE  /\ Slice(i, k).off % Align = 0
             /\ base[k] <= Slice(i, k).off
             /\ Slice(i, k).off + Slice(i, k).bytes <= base[k] + spanBytes[k]
  <2>1. /\ offsets[k][i] \in Nat /\ ParamBytes(i, k) \in Nat /\ spanBytes[k] \in Nat
        /\ base[k] \in Nat /\ base[k] % Align = 0 /\ offsets[k][i] % Align = 0
        /\ Slice(i, k).off = base[k] + offsets[k][i]
        /\ Slice(i, k).bytes = ParamBytes(i, k)
        /\ offsets[k][i] + ParamBytes(i, k) <= spanBytes[k]
    BY <1>2, SliceFacts
  <2>2. (base[k] + offsets[k][i]) % Align = 0
    BY <2>1, LayoutAssumption, SumOfMultiples
  <2> QED BY <2>1, <2>2
<1>3. IInv(slot) => SlicesSound
  BY <1>1, <1>2 DEF SlicesSound
<1> QED BY <1>3, Invariance, PTL

-----------------------------------------------------------------------------
(* The registry.  Its guarantees need no premise on sizes.                 *)
LEMMA RegistrySteps ==
  ASSUME [Next]_vars
  PROVE  \/ \E name \in Names, numel \in Numels :
              /\ ~Registered(name)
              /\ params' = Append(params, [name |-> name, numel |-> numel])
              /\ index' = [n \in DOMAIN index \cup {name} |->
                             IF Registered(n) THEN index[n] ELSE Len(params) + 1]
         \/ \E alias \in Names, target \in Names :
              /\ Registered(target) /\ ~Registered(alias)
              /\ params' = params
              /\ index' = [n \in DOMAIN index \cup {alias} |->
                             IF n = alias THEN index[target] ELSE index[n]]
         \/ UNCHANGED <<params, index>>
<1> USE DEF registry, Fatal
<1>1. CASE Construct
  BY <1>1 DEF Construct
<1>2. CASE \E name \in Names, numel \in Numels : Add(name, numel)
  BY <1>2 DEF Add, AddRefused
<1>3. CASE \E alias \in Names, target \in Names : Alias(alias, target)
  BY <1>3 DEF Alias
<1>4. CASE Finalize
  BY <1>4 DEF Finalize
<1>5. CASE PackParam \/ CloseSpan
  BY <1>5 DEF PackParam, CloseSpan
<1>6. CASE ConstructArena
  BY <1>6 DEF ConstructArena
<1>7. CASE Carve
  BY <1>7 DEF Carve
<1>8. CASE FillViews
  BY <1>8 DEF FillViews
<1>9. CASE (\E name \in Names : AtUnknown(name)) \/ FlatEarly
  BY <1>9 DEF AtUnknown, FlatEarly
<1>10. CASE UNCHANGED vars
  BY <1>10 DEF vars
<1> QED BY <1>1, <1>2, <1>3, <1>4, <1>5, <1>6, <1>7, <1>8, <1>9, <1>10 DEF Next

RegistryInv ==
  /\ params \in Seq([name : Names, numel : Numels])
  /\ \A name \in DOMAIN index : index[name] \in 1 .. Len(params)
  /\ OwnNameResolves

LEMMA RegistryInvariance == Spec => []RegistryInv
<1>1. Init => RegistryInv
  BY DEF Init, RegistryInv, OwnNameResolves
<1>2. ASSUME RegistryInv, [Next]_vars  PROVE RegistryInv'
  <2> DEFINE P == [name : Names, numel : Numels]
  <2>1. params \in Seq(P) /\ Len(params) \in Nat
    BY <1>2 DEF RegistryInv
  <2>2. ASSUME NEW name \in Names, NEW numel \in Numels,
               ~Registered(name),
               params' = Append(params, [name |-> name, numel |-> numel]),
               index' = [n \in DOMAIN index \cup {name} |->
                           IF Registered(n) THEN index[n] ELSE Len(params) + 1]
        PROVE  RegistryInv'
    <3> DEFINE p == [name |-> name, numel |-> numel]
    <3>1. p \in P
      OBVIOUS
    <3>2. /\ params' \in Seq(P)
          /\ Len(params') = Len(params) + 1
          /\ params'[Len(params) + 1] = p
          /\ \A i \in 1 .. Len(params) : params'[i] = params[i]
      BY <2>1, <2>2, <3>1, AppendFacts
    <3>3. \A n \in DOMAIN index' : index'[n] \in 1 .. Len(params')
      BY <1>2, <2>1, <2>2, <3>2 DEF RegistryInv, Registered
    <3>4. ASSUME NEW i \in 1 .. Len(params')
          PROVE  params'[i].name \in DOMAIN index' /\ index'[params'[i].name] = i
      <4>1. CASE i \in 1 .. Len(params)
        <5>1. params'[i] = params[i]
          BY <3>2, <4>1
        <5>2. Registered(params[i].name) /\ index[params[i].name] = i
          BY <1>2, <4>1 DEF RegistryInv, OwnNameResolves, At
        <5> QED BY <2>2, <5>1, <5>2 DEF Registered
      <4>2. CASE i = Len(params) + 1
        BY <2>2, <3>2, <4>2 DEF Registered
      <4> QED BY <2>1, <3>2, <4>1, <4>2
    <3> QED BY <3>2, <3>3, <3>4 DEF RegistryInv, OwnNameResolves, Registered, At
  <2>3. ASSUME NEW alias \in Names, NEW target \in Names,
               Registered(target), ~Registered(alias),
               params' = params,
               index' = [n \in DOMAIN index \cup {alias} |->
                           IF n = alias THEN index[target] ELSE index[n]]
        PROVE  RegistryInv'
    <3>1. \A n \in DOMAIN index' : index'[n] \in 1 .. Len(params')
      BY <1>2, <2>3 DEF RegistryInv, Registered
    <3>2. OwnNameResolves'
      BY <1>2, <2>3 DEF RegistryInv, OwnNameResolves, Registered, At
    <3> QED BY <1>2, <2>3, <3>1, <3>2 DEF RegistryInv
  <2>4. ASSUME UNCHANGED <<params, index>>  PROVE RegistryInv'
    BY <1>2, <2>4 DEF RegistryInv, OwnNameResolves, Registered, At
  <2> QED BY <1>2, <2>2, <2>3, <2>4, RegistrySteps
<1>3. RegistryInv /\ [Next]_vars => RegistryInv'
  BY <1>2
<1> QED BY <1>1, <1>3, PTL DEF Spec

(* Every parameter is found under its own name: no alias, and no second    *)
(* add(), takes a name away from the parameter registered with it.         *)
THEOREM ParamStoreOwnNames == Spec => []OwnNameResolves
<1>1. RegistryInv => OwnNameResolves
  BY DEF RegistryInv
<1> QED BY <1>1, RegistryInvariance, PTL

-----------------------------------------------------------------------------
(* The views.  Until finalize() fills them in they are null, and nothing   *)
(* but finalize() and add() touches them.                                  *)
ViewsNull ==
  ~Finalized \/ pc \in {"carve", "fill"} =>
    \A i \in 1 .. Len(params) : \A k \in Kind : data[i][k] = Null

ViewInv(slot) == IInv(slot) /\ ViewsNull

LEMMA ViewSteps ==
  ASSUME [Next]_vars
  PROVE  \/ /\ ~Finalized /\ ~Finalized' /\ pc = "idle" /\ pc' = "idle"
            /\ data' = Append(data, [k \in Kind |-> Null])
            /\ \E p : params' = Append(params, p)
         \/ pc = "fill" /\ pc' = "idle" /\ UNCHANGED mem
         \/ /\ UNCHANGED <<data, params>>
            /\ ~Finalized' => ~Finalized \/ pc \in {"malloc", "carve"}
            /\ pc' \in {"carve", "fill"} => pc \in {"malloc", "carve", "fill"}
<1> USE DEF registry, layout, Fatal
<1>1. CASE Construct
  BY <1>1 DEF Construct, Finalized, NoMem
<1>2. CASE \E name \in Names, numel \in Numels : Add(name, numel)
  BY <1>2 DEF Add, AddRefused, Idle, Finalized, NoMem
<1>3. CASE \E alias \in Names, target \in Names : Alias(alias, target)
  BY <1>3 DEF Alias, Finalized, NoMem
<1>4. CASE Finalize
  BY <1>4 DEF Finalize, Finalized, NoMem
<1>5. CASE PackParam \/ CloseSpan
  BY <1>5 DEF PackParam, CloseSpan, Finalized, NoMem
<1>6. CASE ConstructArena
  BY <1>6 DEF ConstructArena, Finalized, NoMem
<1>7. CASE Carve
  BY <1>7 DEF Carve, Finalized, NoMem
<1>8. CASE FillViews
  BY <1>8 DEF FillViews, Finalized, NoMem
<1>9. CASE (\E name \in Names : AtUnknown(name)) \/ FlatEarly
  BY <1>9 DEF AtUnknown, FlatEarly, Finalized, NoMem
<1>10. CASE UNCHANGED vars
  BY <1>10 DEF vars, Finalized, NoMem
<1> QED BY <1>1, <1>2, <1>3, <1>4, <1>5, <1>6, <1>7, <1>8, <1>9, <1>10 DEF Next

LEMMA ViewInvariance ==
  ASSUME NEW slot, Slot(slot)
  PROVE  Spec => []ViewInv(slot)
<1>1. Init => ViewInv(slot)
  BY InitIInv DEF Init, ViewInv, ViewsNull
<1>2. ASSUME ViewInv(slot), [Next]_vars  PROVE ViewInv(slot)'
  <2>1. IInv(slot) /\ IInv(slot)' /\ ViewsNull
    BY <1>2, NextIInv DEF ViewInv
  <2>2. /\ Len(params) \in Nat /\ Len(data) = Len(params)
        /\ Len(data') = Len(params')
        /\ data \in Seq([Kind -> Nat \cup {Null}]) /\ params \in Seq(Param)
    BY <2>1 DEF IInv, TypeOK, RegistryTypeOK, LayoutTypeOK
  <2>3. CASE /\ ~Finalized
             /\ data' = Append(data, [k \in Kind |-> Null])
    <3>1. [k \in Kind |-> Null] \in [Kind -> Nat \cup {Null}]
      OBVIOUS
    <3>2. /\ Len(params') = Len(params) + 1
          /\ data'[Len(params) + 1] = [k \in Kind |-> Null]
          /\ \A i \in 1 .. Len(params) : data'[i] = data[i]
      BY <2>2, <2>3, <3>1, AppendFacts
    <3> QED BY <2>1, <2>2, <2>3, <3>2 DEF ViewInv, ViewsNull
  <2>4. CASE pc = "fill" /\ pc' = "idle" /\ UNCHANGED mem
    BY <2>1, <2>4 DEF ViewInv, ViewsNull, IInv, PhaseInv, Finalized, NoMem
  <2>5. CASE /\ UNCHANGED <<data, params>>
             /\ ~Finalized' => ~Finalized \/ pc \in {"malloc", "carve"}
             /\ pc' \in {"carve", "fill"} => pc \in {"malloc", "carve", "fill"}
    BY <2>1, <2>5 DEF ViewInv, ViewsNull, IInv, PhaseInv
  <2> QED BY <1>2, <2>3, <2>4, <2>5, ViewSteps
<1>3. ViewInv(slot) /\ [Next]_vars => ViewInv(slot)'
  BY <1>2
<1> QED BY <1>1, <1>3, PTL DEF Spec

(* What at() answers for a name it keeps answering, and a view, once       *)
(* filled in, never moves: a reference or a pointer taken from the store   *)
(* stays good for as long as the store lives.                              *)
THEOREM ParamStoreNamesStable ==
  ASSUME NoWrap
  PROVE  Spec => NamesStable
<1> PICK slot : Slot(slot)
  BY SlotExists
<1> DEFINE Names1 == \A name \in DOMAIN index :
                       /\ name \in DOMAIN index'
                       /\ index'[name] = index[name]
                       /\ params'[index[name]] = params[index[name]]
           Views1 == \A i \in 1 .. Len(data) : \A k \in Kind :
                       data[i][k] # Null => data'[i][k] = data[i][k]
<1>1. ASSUME ViewInv(slot), [Next]_vars  PROVE Names1
  <2>1. /\ params \in Seq(Param)
        /\ \A name \in DOMAIN index : index[name] \in 1 .. Len(params)
    BY <1>1 DEF ViewInv, IInv, TypeOK, RegistryTypeOK
  <2>2. ASSUME NEW name \in Names, NEW numel \in Numels, ~Registered(name),
               params' = Append(params, [name |-> name, numel |-> numel]),
               index' = [n \in DOMAIN index \cup {name} |->
                           IF Registered(n) THEN index[n] ELSE Len(params) + 1]
        PROVE  Names1
    BY <2>1, <2>2 DEF Registered
  <2>3. ASSUME NEW alias \in Names, NEW target \in Names, ~Registered(alias),
               params' = params,
               index' = [n \in DOMAIN index \cup {alias} |->
                           IF n = alias THEN index[target] ELSE index[n]]
        PROVE  Names1
    BY <2>3 DEF Registered
  <2>4. CASE UNCHANGED <<params, index>>
    BY <2>4
  <2> HIDE DEF Names1
  <2> QED BY <1>1, <2>2, <2>3, <2>4, RegistrySteps
<1>2. ASSUME ViewInv(slot), [Next]_vars  PROVE Views1
  <2>1. /\ data \in Seq([Kind -> Nat \cup {Null}]) /\ Len(data) = Len(params)
        /\ ViewsNull
    BY <1>2 DEF ViewInv, IInv, TypeOK, LayoutTypeOK
  <2>2. CASE ~Finalized \/ pc = "fill"
    BY <2>1, <2>2 DEF ViewsNull
  <2>3. CASE UNCHANGED data
    BY <2>3
  <2> QED BY <1>2, <2>2, <2>3, ViewSteps
<1>3. ViewInv(slot) /\ [Next]_vars => [Names1 /\ Views1]_vars
  BY <1>1, <1>2
<1> QED BY <1>3, ViewInvariance, PTL DEF Spec, NamesStable

-----------------------------------------------------------------------------
(* Layout twins.  The loop over a kind repeats, offset for offset, what it *)
(* did for an earlier kind of the same dtype: it starts from the same      *)
(* offset, and each next one is a function of the one before.              *)
Onward(k, j, end) == IF j < Len(offsets[k]) THEN offsets[k][j + 1] ELSE end

Exact(k, end) ==
  /\ Onward(k, 0, end) = 0
  /\ \A j \in 1 .. Len(offsets[k]) :
       Onward(k, j, end) = AlignUp(offsets[k][j] + ParamBytes(j, k))

Twins(k, l) ==
  /\ spanBytes[k] = spanBytes[l]
  /\ \A j \in 1 .. Len(params) : offsets[k][j] = offsets[l][j]

TwinsBelow(n) ==
  /\ \A k \in Kind : k < n => Exact(k, spanBytes[k])
  /\ \A k, l \in Kind : k < n /\ l < n /\ dtypes[k] = dtypes[l] => Twins(k, l)

Follows(l) ==
  /\ off = Onward(l, Packed, spanBytes[l])
  /\ \A j \in 1 .. Packed : offsets[kind][j] = offsets[l][j]

TwinPhase ==
  /\ pc = "pack" =>
       /\ TwinsBelow(kind)
       /\ Exact(kind, off)
       /\ \A l \in Kind : l < kind /\ dtypes[l] = dtypes[kind] => Follows(l)
  /\ pc \in {"malloc", "carve", "fill"} \/ Ready => TwinsBelow(4)

TwinInv(slot) == IInv(slot) /\ TwinPhase

LEMMA TwinsFrame ==
  ASSUME UNCHANGED <<dtypes, params, offsets, spanBytes>>
  PROVE  \A n : TwinsBelow(n) => TwinsBelow(n)'
  BY DEF TwinsBelow, Twins, Exact, Onward, ParamBytes

LEMMA TwinPhaseFrame ==
  ASSUME TwinPhase, UNCHANGED <<dtypes, params, layout, pc, locals>>
  PROVE  TwinPhase'
<1>1. UNCHANGED <<dtypes, params, offsets, spanBytes, kind, off, pc, mem>>
  BY DEF layout, locals
<1>2. TwinsBelow(kind) => TwinsBelow(kind)'
  BY <1>1, TwinsFrame DEF TwinsBelow
<1>3. TwinsBelow(4) => TwinsBelow(4)'
  BY <1>1, TwinsFrame
<1>4. Exact(kind, off) => Exact(kind, off)'
  BY <1>1 DEF Exact, Onward, ParamBytes
<1>5. \A l : Follows(l) => Follows(l)'
  BY <1>1 DEF Follows, Onward, Packed
<1> QED BY <1>1, <1>2, <1>3, <1>4, <1>5 DEF TwinPhase, Ready, Finalized, NoMem

LEMMA FinalizeTwins ==
  ASSUME NEW slot, TwinInv(slot), Finalize
  PROVE  TwinPhase'
<1>1. CASE Fatal("finalize refused")
  BY <1>1, TwinPhaseFrame DEF TwinInv, Fatal, registry
<1>2. CASE ~Fatal("finalize refused")
  <2>1. /\ pc = "idle" /\ pc' = "pack" /\ ~Finalized
        /\ UNCHANGED <<dtypes, registry, layout, locals, fatal>>
    BY <1>2 DEF Finalize, Idle
  <2>2. kind' = 0 /\ off' = 0 /\ \A k \in Kind : offsets'[k] = <<>>
    BY <2>1 DEF TwinInv, IInv, PhaseInv, NotPacked, locals
  <2>3. TwinsBelow(kind)' /\ \A l \in Kind : ~(l < kind')
    BY <2>2 DEF TwinsBelow, Kind
  <2>4. Exact(kind, off)'
    BY <2>2 DEF Exact, Onward, Kind
  <2> QED BY <2>1, <2>3, <2>4 DEF TwinPhase, Ready
<1> QED BY <1>1, <1>2

LEMMA PackParamTwins ==
  ASSUME NEW slot, Slot(slot), TwinInv(slot), PackParam
  PROVE  TwinPhase'
<1> DEFINE n == Packed
<1>1. /\ pc = "pack" /\ pc' = "pack" /\ n < Len(params)
      /\ offsets' = [offsets EXCEPT ![kind] = Append(@, off)]
      /\ off' = AlignUp(off + ParamBytes(n + 1, kind))
      /\ UNCHANGED <<dtypes, params, spanBytes, kind>>
  BY DEF PackParam, registry, layout
<1>2. /\ TwinsBelow(kind) /\ Exact(kind, off)
      /\ \A l \in Kind : l < kind /\ dtypes[l] = dtypes[kind] => Follows(l)
      /\ \A l \in Kind : l < kind => Len(offsets[l]) = Len(params)
  BY <1>1 DEF TwinInv, TwinPhase, IInv, PhaseInv, Packing, Closed
<1>3. /\ offsets \in [Kind -> Seq(Nat)] /\ off \in Nat /\ kind \in Kind /\ n \in Nat
      /\ Len(params) \in Nat
  BY DEF TwinInv, IInv, TypeOK, ProgressTypeOK, RegistryTypeOK, Packed
<1>4. /\ offsets'[kind] = Append(offsets[kind], off)
      /\ Len(offsets'[kind]) = n + 1 /\ offsets'[kind][n + 1] = off
      /\ \A j \in 1 .. n : offsets'[kind][j] = offsets[kind][j]
      /\ \A k \in Kind : k # kind => offsets'[k] = offsets[k]
  <2>1. offsets[kind] \in Seq(Nat) /\ Len(offsets[kind]) = n
    BY <1>3 DEF Packed
  <2>2. offsets'[kind] = Append(offsets[kind], off)
        /\ \A k \in Kind : k # kind => offsets'[k] = offsets[k]
    BY <1>1, <1>3
  <2> QED BY <1>3, <2>1, <2>2, AppendFacts
<1>5. \A j : \A k : ParamBytes(j, k)' = ParamBytes(j, k)
  BY <1>1 DEF ParamBytes
<1>6. TwinsBelow(kind)'
  <2>1. ASSUME NEW k \in Kind, k < kind
        PROVE  Exact(k, spanBytes[k])' /\ \A j \in 1 .. Len(params) : offsets'[k][j] = offsets[k][j]
    <3>1. offsets'[k] = offsets[k] /\ Exact(k, spanBytes[k])
      BY <1>2, <1>3, <1>4, <2>1 DEF TwinsBelow, Kind
    <3> QED BY <1>1, <1>5, <3>1 DEF Exact, Onward
  <2> QED BY <1>1, <1>2, <2>1 DEF TwinsBelow, Twins
<1>7. Exact(kind, off)'
  <2>1. Onward(kind, 0, off)' = 0
    BY <1>2, <1>3, <1>4, <1>1 DEF Exact, Onward, Packed
  <2>2. ASSUME NEW j \in 1 .. n + 1
        PROVE  Onward(kind, j, off)' = AlignUp(offsets'[kind][j] + ParamBytes(j, kind))
    <3>1. CASE j = n + 1
      BY <1>1, <1>3, <1>4, <3>1 DEF Onward
    <3>2. CASE j \in 1 .. n
      <4>1. Onward(kind, j, off) = AlignUp(offsets[kind][j] + ParamBytes(j, kind))
        BY <1>2, <3>2 DEF Exact, Packed
      <4>2. Onward(kind, j, off)' = Onward(kind, j, off)
        <5>1. CASE j = n
          BY <1>1, <1>3, <1>4, <5>1 DEF Onward, Packed
        <5>2. CASE j < n
          BY <1>1, <1>3, <1>4, <3>2, <5>2 DEF Onward, Packed
        <5> QED BY <1>3, <3>2, <5>1, <5>2
      <4> QED BY <1>4, <3>2, <4>1, <4>2
    <3> QED BY <1>3, <2>2, <3>1, <3>2
  <2> QED BY <1>1, <1>4, <1>5, <2>1, <2>2 DEF Exact
<1>8. ASSUME NEW l \in Kind, l < kind, dtypes[l] = dtypes[kind]
      PROVE  Follows(l)'
  <2>1. Follows(l) /\ Len(offsets[l]) = Len(params) /\ Exact(l, spanBytes[l])
    BY <1>2, <1>8 DEF TwinsBelow
  <2>2. off = offsets[l][n + 1] /\ offsets'[l] = offsets[l]
    BY <1>1, <1>3, <1>4, <1>8, <2>1 DEF Follows, Onward, Packed, Kind
  <2>3. Onward(l, n + 1, spanBytes[l]) = AlignUp(off + ParamBytes(n + 1, l))
    <3>1. n + 1 \in 1 .. Len(offsets[l])
      BY <1>1, <1>3, <2>1
    <3> QED BY <2>1, <2>2, <3>1 DEF Exact
  <2>4. ParamBytes(n + 1, l) = ParamBytes(n + 1, kind)
    BY <1>8 DEF ParamBytes
  <2>5. Packed' = n + 1
    BY <1>1, <1>4 DEF Packed
  <2>6. off' = Onward(l, Packed, spanBytes[l])'
    BY <1>1, <2>2, <2>3, <2>4, <2>5 DEF Onward
  <2>7. \A j \in 1 .. n + 1 : offsets'[kind][j] = offsets'[l][j]
    BY <1>3, <1>4, <2>1, <2>2 DEF Follows, Packed
  <2> QED BY <1>1, <2>5, <2>6, <2>7 DEF Follows
<1> QED BY <1>1, <1>6, <1>7, <1>8 DEF TwinPhase, Ready

LEMMA CloseSpanTwins ==
  ASSUME NEW slot, Slot(slot), TwinInv(slot), CloseSpan
  PROVE  TwinPhase'
<1>1. /\ pc = "pack" /\ Packed = Len(params)
      /\ spanBytes' = [spanBytes EXCEPT ![kind] = off]
      /\ off' = 0
      /\ IF kind < 3 THEN kind' = kind + 1 /\ pc' = pc
                     ELSE kind' = 0 /\ pc' = "malloc"
      /\ UNCHANGED <<dtypes, params, offsets>>
  BY DEF CloseSpan, registry
<1>2. /\ TwinsBelow(kind) /\ Exact(kind, off)
      /\ \A l \in Kind : l < kind /\ dtypes[l] = dtypes[kind] => Follows(l)
      /\ \A l \in Kind : l < kind => Len(offsets[l]) = Len(params)
      /\ \A l \in Kind : l > kind => offsets[l] = <<>>
  BY <1>1 DEF TwinInv, TwinPhase, IInv, PhaseInv, Packing, Closed
<1>3. /\ spanBytes \in [Kind -> Nat] /\ kind \in Kind /\ Len(params) \in Nat
  BY DEF TwinInv, IInv, TypeOK, ProgressTypeOK, LayoutTypeOK, RegistryTypeOK
<1>4. spanBytes'[kind] = off /\ \A k \in Kind : k # kind => spanBytes'[k] = spanBytes[k]
  BY <1>1, <1>3
<1>5. \A k \in Kind : k < kind + 1 => Exact(k, spanBytes[k])'
  <2>1. ASSUME NEW k \in Kind, k < kind + 1  PROVE Exact(k, spanBytes'[k])
    <3>1. CASE k = kind
      BY <1>2, <1>4, <3>1
    <3>2. CASE k < kind
      BY <1>2, <1>3, <1>4, <3>2 DEF TwinsBelow, Kind
    <3> QED BY <1>3, <2>1, <3>1, <3>2 DEF Kind
  <2> QED BY <1>1, <2>1 DEF Exact, Onward, ParamBytes
<1>6. ASSUME NEW l \in Kind, l < kind, dtypes[l] = dtypes[kind]
      PROVE  off = spanBytes[l] /\ \A j \in 1 .. Len(params) : offsets[kind][j] = offsets[l][j]
  BY <1>1, <1>2, <1>3, <1>6 DEF Follows, Onward
<1>7. \A k, l \in Kind : k < kind + 1 /\ l < kind + 1 /\ dtypes'[k] = dtypes'[l] => Twins(k, l)'
  <2>1. ASSUME NEW k \in Kind, NEW l \in Kind, k < kind + 1, l < kind + 1,
               dtypes[k] = dtypes[l]
        PROVE  Twins(k, l)'
    <3>1. CASE k = kind /\ l = kind
      BY <3>1 DEF Twins
    <3>2. CASE k = kind /\ l < kind
      BY <1>1, <1>3, <1>4, <1>6, <2>1, <3>2 DEF Twins, Kind
    <3>3. CASE k < kind /\ l = kind
      BY <1>1, <1>3, <1>4, <1>6, <2>1, <3>3 DEF Twins, Kind
    <3>4. CASE k < kind /\ l < kind
      <4>1. Twins(k, l)
        BY <1>2, <2>1, <3>4 DEF TwinsBelow
      <4>2. k # kind /\ l # kind
        BY <1>3, <3>4 DEF Kind
      <4>3. spanBytes'[k] = spanBytes[k] /\ spanBytes'[l] = spanBytes[l]
        BY <1>4, <4>2
      <4> QED BY <1>1, <4>1, <4>2, <4>3 DEF Twins
    <3> QED BY <1>3, <2>1, <3>1, <3>2, <3>3, <3>4 DEF Kind
  <2>2. UNCHANGED dtypes
    BY <1>1
  <2> QED BY <2>1, <2>2
<1>8. CASE kind < 3
  <2>1. kind' = kind + 1 /\ pc' = "pack" /\ kind' \in Kind /\ kind' > kind
    BY <1>1, <1>3, <1>8 DEF Kind
  <2>2. offsets'[kind'] = <<>> /\ Packed' = 0
    BY <1>1, <1>2, <2>1 DEF Packed
  <2>3. Exact(kind, off)'
    BY <1>1, <2>2 DEF Exact, Onward
  <2>4. ASSUME NEW l \in Kind, l < kind'  PROVE Follows(l)'
    <3>1. Exact(l, spanBytes[l])'
      BY <1>5, <2>1, <2>4
    <3>2. Onward(l, 0, spanBytes[l])' = 0
      BY <3>1 DEF Exact
    <3> QED BY <1>1, <2>2, <3>2 DEF Follows, Onward
  <2>5. TwinsBelow(kind)'
    BY <1>5, <1>7, <2>1 DEF TwinsBelow
  <2> QED BY <2>1, <2>3, <2>4, <2>5 DEF TwinPhase, Ready
<1>9. CASE ~(kind < 3)
  <2>1. kind = 3 /\ pc' = "malloc"
    BY <1>1, <1>3, <1>9 DEF Kind
  <2>2. TwinsBelow(4)'
    BY <1>5, <1>7, <2>1 DEF TwinsBelow
  <2> QED BY <2>1, <2>2 DEF TwinPhase
<1> QED BY <1>8, <1>9

LEMMA TwinInvariance ==
  ASSUME NEW slot, Slot(slot)
  PROVE  Spec => []TwinInv(slot)
<1>1. Init => TwinInv(slot)
  BY InitIInv DEF Init, TwinInv, TwinPhase, Ready
<1>2. ASSUME TwinInv(slot), [Next]_vars  PROVE TwinPhase'
  <2> USE DEF registry
  <2>1. CASE Construct
    <3>1. CASE Fatal("storage dtype not supported")
      BY <1>2, <3>1, TwinPhaseFrame DEF TwinInv, Fatal
    <3>2. CASE ~Fatal("storage dtype not supported")
      BY <1>2, <2>1, <3>2
         DEF Construct, TwinInv, IInv, PhaseInv, TwinPhase, Ready, Finalized, layout, NoMem
    <3> QED BY <3>1, <3>2
  <2>2. CASE \E name \in Names, numel \in Numels : Add(name, numel)
    <3>1. CASE Fatal("add refused")
      BY <1>2, <3>1, TwinPhaseFrame DEF TwinInv, Fatal
    <3>2. CASE ~Fatal("add refused")
      BY <2>2, <3>2 DEF Add, AddRefused, Idle, TwinPhase, Ready, Finalized, NoMem
    <3> QED BY <3>1, <3>2
  <2>3. CASE \E alias \in Names, target \in Names : Alias(alias, target)
    BY <1>2, <2>3, TwinPhaseFrame DEF TwinInv, Alias, Fatal
  <2>4. CASE Finalize
    BY <1>2, <2>4, FinalizeTwins
  <2>5. CASE PackParam
    BY <1>2, <2>5, PackParamTwins
  <2>6. CASE CloseSpan
    BY <1>2, <2>6, CloseSpanTwins
  <2>7. CASE ConstructArena \/ Carve \/ FillViews
    <3>1. CASE \E msg \in Messages : Fatal(msg)
      BY <1>2, <3>1, TwinPhaseFrame DEF TwinInv, Fatal
    <3>2. CASE ~\E msg \in Messages : Fatal(msg)
      <4>1. /\ pc \in {"malloc", "carve", "fill"} /\ pc' # "pack"
            /\ UNCHANGED <<dtypes, params, offsets, spanBytes>>
        BY <2>7, <3>2 DEF ConstructArena, Carve, FillViews, Messages, locals
      <4>2. TwinsBelow(4)'
        BY <1>2, <4>1, TwinsFrame DEF TwinInv, TwinPhase
      <4> QED BY <4>1, <4>2 DEF TwinPhase
    <3> QED BY <3>1, <3>2
  <2>8. CASE (\E name \in Names : AtUnknown(name)) \/ FlatEarly
    BY <1>2, <2>8, TwinPhaseFrame DEF TwinInv, AtUnknown, FlatEarly, Fatal
  <2>9. CASE UNCHANGED vars
    BY <1>2, <2>9, TwinPhaseFrame DEF TwinInv, vars
  <2> QED BY <1>2, <2>1, <2>2, <2>3, <2>4, <2>5, <2>6, <2>7, <2>8, <2>9 DEF Next
<1>3. TwinInv(slot) /\ [Next]_vars => TwinInv(slot)'
  BY <1>2, NextIInv DEF TwinInv
<1> QED BY <1>1, <1>3, PTL DEF Spec

(* Kinds of one dtype are layout twins, as the comment on the spans says:  *)
(* their spans have one size, and a parameter's slice is at one byte       *)
(* offset in each, although every kind is laid out by a loop of its own.   *)
THEOREM ParamStoreLayoutTwins ==
  ASSUME NoWrap
  PROVE  Spec => []LayoutTwins
<1> PICK slot : Slot(slot)
  BY SlotExists
<1>1. ASSUME TwinInv(slot), Ready, NEW k \in Kind, NEW l \in Kind, dtypes[k] = dtypes[l]
      PROVE  /\ spanBytes[k] = spanBytes[l]
             /\ \A i \in 1 .. Len(params) : data[i][k] - base[k] = data[i][l] - base[l]
  <2>1. Twins(k, l)
    BY <1>1 DEF TwinInv, TwinPhase, TwinsBelow, Kind
  <2>2. ASSUME NEW i \in 1 .. Len(params)
        PROVE  data[i][k] - base[k] = data[i][l] - base[l]
    <3>1. /\ offsets[k][i] \in Nat /\ base[k] \in Nat
          /\ offsets[l][i] \in Nat /\ base[l] \in Nat
      BY <1>1, SliceFacts DEF TwinInv
    <3>2. data[i][k] = base[k] + offsets[k][i] /\ data[i][l] = base[l] + offsets[l][i]
      BY <1>1 DEF TwinInv, IInv, PhaseInv
    <3> QED BY <2>1, <3>1, <3>2 DEF Twins
  <2> QED BY <2>1, <2>2 DEF Twins
<1>2. TwinInv(slot) => LayoutTwins
  BY <1>1 DEF LayoutTwins
<1> QED BY <1>2, TwinInvariance, PTL
=============================================================================
