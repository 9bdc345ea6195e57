-------------------------- MODULE RegionAllocator --------------------------
(***************************************************************************)
(* What an arena promises its clients, with no word on how: every grant is *)
(* an aligned region inside the capacity that overlaps no region still in  *)
(* use; regions are given back all at once; a request is refused only when *)
(* it fits nowhere above the regions in use, and a refusal is final.       *)
(***************************************************************************)
EXTENDS Integers, Sequences

CONSTANTS Align, Capacity, Requests

VARIABLES
  live,    \* sequence of granted regions still in use
  stopped  \* TRUE once a request was refused

vars == <<live, stopped>>

Overlap(r, s) == r.off < s.off + s.bytes /\ s.off < r.off + r.bytes

Free(r) == \A i \in 1 .. Len(live) : ~Overlap(r, live[i])

Above(off) == \A i \in 1 .. Len(live) : live[i].off + live[i].bytes <= off

Init ==
  /\ live = <<>>
  /\ stopped = FALSE

Grant(bytes) ==
  /\ ~stopped
  /\ \E off \in 0 .. Capacity :
       LET r == [off |-> off, bytes |-> bytes] IN
         /\ off % Align = 0
         /\ off + bytes <= Capacity
         /\ Free(r)
         /\ live' = Append(live, r)
  /\ UNCHANGED stopped

Refuse(bytes) ==
  /\ ~stopped
  /\ \A off \in 0 .. Capacity :
       off % Align = 0 /\ Above(off) => off + bytes > Capacity
  /\ stopped' = TRUE
  /\ UNCHANGED live

ReleaseAll ==
  /\ ~stopped
  /\ live' = <<>>
  /\ UNCHANGED stopped

Next ==
  \/ \E bytes \in Requests : Grant(bytes) \/ Refuse(bytes)
  \/ ReleaseAll

Spec == Init /\ [][Next]_vars
=============================================================================
