------------------------------- MODULE Arena -------------------------------
(***************************************************************************)
(* llmt::Arena (include/llmt/core/arena.h, src/core/arena.cu): a bump      *)
(* allocator over one cudaMalloc.  There are no individual frees: reset()  *)
(* gives everything back, and exhaustion aborts the program.               *)
(***************************************************************************)
EXTENDS ArenaLayout, Sequences

CONSTANTS
  Capacity,  \* bytes of the one device allocation
  Requests,  \* sizes passed to alloc_bytes
  Numels,    \* element counts of the shapes passed to alloc
  MaxLive    \* bound: allocations between two resets

ASSUME ArenaAssumption ==
  /\ Capacity \in Size
  /\ Requests \subseteq Size
  /\ Numels \subseteq Int
  /\ MaxLive \in Nat

VARIABLES
  used,       \* m_used
  highWater,  \* m_high_water
  refused,    \* size of the request that aborted the program, or NoRequest
  live        \* ghost: the regions handed out since the last reset

vars == <<used, highWater, refused, live>>

NoRequest == -1
Running == refused = NoRequest

Init ==
  /\ used = 0
  /\ highWater = 0
  /\ refused = NoRequest
  /\ live = <<>>

(* Mutation: the capacity check forgets the alignment padding.             *)
UncheckedPadding(bytes) ==
  /\ used + bytes <= Capacity
  /\ Len(live) < MaxLive
  /\ used' = End(used, bytes)
  /\ highWater' = IF used' > highWater THEN used' ELSE highWater
  /\ live' = Append(live, [off |-> Aligned(used), bytes |-> bytes])
  /\ UNCHANGED refused

Grant(bytes) ==
  /\ ~Exhausted(used, bytes, Capacity)
  /\ Len(live) < MaxLive
  /\ used' = End(used, bytes)
  /\ highWater' = IF used' > highWater THEN used' ELSE highWater
  /\ live' = Append(live, [off |-> Aligned(used), bytes |-> bytes])
  /\ UNCHANGED refused

(* Mutation: a request that exactly fills the arena is refused.            *)
RefuseExactFit(bytes) ==
  /\ End(used, bytes) >= Capacity
  /\ refused' = bytes
  /\ UNCHANGED <<used, highWater, live>>

Refuse(bytes) ==
  /\ Exhausted(used, bytes, Capacity)
  /\ refused' = bytes
  /\ UNCHANGED <<used, highWater, live>>

AllocBytes(bytes) ==
  /\ Running
  /\ Grant(bytes) \/ Refuse(bytes)

Alloc(numel, d) == AllocBytes(Bytes(numel, d))

(* Mutation: reset forgets the peak along with the cursor.                 *)
ResetPeakToo ==
  /\ Running
  /\ used' = 0
  /\ highWater' = 0
  /\ live' = <<>>
  /\ UNCHANGED refused

Reset ==
  /\ Running
  /\ used' = 0
  /\ live' = <<>>
  /\ UNCHANGED <<highWater, refused>>

Next ==
  \/ \E bytes \in Requests : AllocBytes(bytes)
  \/ \E numel \in Numels, d \in DType : Alloc(numel, d)
  \/ Reset

Spec == Init /\ [][Next]_vars

-----------------------------------------------------------------------------
(* Every size a client can ask for, and the premise under which none of    *)
(* the size_t sums wraps.  It is a fact about the callers: the code checks *)
(* no sum for overflow.                                                    *)
RequestBytes == Requests \cup {Bytes(numel, d) : numel \in Numels, d \in DType}

NoWrap ==
  /\ Capacity + Align <= Word
  /\ \A bytes \in RequestBytes : Capacity + Align + bytes <= Word

(* The cursor and the peak stay inside the allocation; a refused request   *)
(* is a size_t.                                                            *)
TypeOK ==
  /\ used \in 0 .. Capacity
  /\ highWater \in used .. Capacity
  /\ refused \in Size \cup {NoRequest}
  /\ live \in Seq([off : Nat, bytes : Size])

(* The regions handed out since the last reset are aligned, lie inside the *)
(* allocation and do not overlap: alloc_bytes gives no byte to two tensors.*)
LiveSound ==
  \A i \in 1 .. Len(live) :
    /\ live[i].off % Align = 0
    /\ live[i].off + live[i].bytes <= Capacity
    /\ \A j \in 1 .. i - 1 : RegionsDisjoint(live[j], live[i])

(* Requests are packed: each region starts at the first aligned offset at  *)
(* or after the end of the one before it, the first at 0.  So the offsets  *)
(* depend on the requests since the last reset only (the arena test        *)
(* replays a sequence after reset() and expects the same pointers), and a  *)
(* capacity computed ahead as the sum of the aligned sizes suffices.  The  *)
(* cursor is the end of the last region.                                   *)
Packed ==
  /\ used = IF live = <<>> THEN 0
            ELSE live[Len(live)].off + live[Len(live)].bytes
  /\ live # <<>> => live[1].off = 0
  /\ \A i \in 1 .. Len(live) : live[i].off + live[i].bytes <= used
  /\ \A i \in 1 .. Len(live) - 1 :
       LET end == live[i].off + live[i].bytes IN
         /\ live[i + 1].off % Align = 0
         /\ end <= live[i + 1].off
         /\ live[i + 1].off < end + Align

(* alloc_bytes aborts only on a request that really does not fit: some     *)
(* aligned offset at or above the cursor with room for it does not exist.  *)
RefusedMeansFull ==
  refused # NoRequest =>
    \A off \in used .. Capacity :
      off % Align = 0 => off + refused > Capacity

(* high_water() never falls, not even across reset(), bounds every region  *)
(* handed out, and rises only to the end of the region just granted: it is *)
(* the smallest capacity that would have served the whole history.         *)
HighWaterExact ==
  [][/\ highWater' >= highWater
     /\ \A i \in 1 .. Len(live') : live'[i].off + live'[i].bytes <= highWater'
     /\ highWater' # highWater =>
          highWater' = live'[Len(live')].off + live'[Len(live')].bytes]_vars

(* The comment on alloc_bytes: it "aborts with a clear message on          *)
(* exhaustion".  So no request is granted bytes beyond the capacity.       *)
AbortsOnExhaustion ==
  \A i \in 1 .. Len(live) : live[i].off + live[i].bytes <= Capacity

-----------------------------------------------------------------------------
(* The arena implements the abstract allocator: its grants, refusals and   *)
(* resets are steps of RegionAllocator.                                    *)
Regions == INSTANCE RegionAllocator
             WITH Requests <- RequestBytes, stopped <- ~Running

ImplementsRegions == Regions!Spec
=============================================================================
