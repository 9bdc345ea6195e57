------------------------------ MODULE MCArena ------------------------------
(***************************************************************************)
(* Instances of Arena and ArenaStream for TLC: an alignment of 4 bytes     *)
(* stands for 256, a word of 64 values for size_t.                         *)
(***************************************************************************)
EXTENDS ArenaStream

(* Shapes a caller can build; -1 elements is what an unset or mis-computed *)
(* dimension yields (Shape checks no sign).                                *)
ValidNumels == {0, 1, 2}
WildNumels == {-1, 1, 2}

(* All requests without device work; device work on few tensors.           *)
NoDeviceWork ==
  {[requests |-> Requests, numels |-> Numels, live |-> MaxLive, calls |-> 0]}
SomePrograms ==
  NoDeviceWork \cup
  {[requests |-> {3, 5}, numels |-> {}, live |-> 2, calls |-> 3],
   [requests |-> {5}, numels |-> {}, live |-> 3, calls |-> 3],
   [requests |-> {11}, numels |-> {}, live |-> 2, calls |-> 3]}
=============================================================================
