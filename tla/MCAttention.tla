---------------------------- MODULE MCAttention ----------------------------
(***************************************************************************)
(* Instance of Attention: head tensors whose extents differ in each axis,  *)
(* one of them none included, operand sets in which one shape is wrong or  *)
(* one argument has no data or another type, contexts that the callees     *)
(* refuse, and the places that arguments can share.                        *)
(***************************************************************************)
EXTENDS Attention

HeadShapes == {<<2, 1, 2, 2>>, <<1, 2, 2, 2>>, <<1, 2, 3, 2>>, <<2, 2, 2, 1>>}
Matching(s) ==
  [a \in Argument |-> IF a = "scores" THEN <<s[1], s[2], s[3], s[3]>>
                      ELSE IF a = "y" THEN <<s[1], s[3], s[2] * s[4]>> ELSE s]
OtherShapes ==
  HeadShapes \cup {<<1, 2, 3, 3>>, <<1, 2, 2, 3>>, <<2, 2, 2>>, <<1, 2, 4>>, <<2, 2, 2, 2>>}

Apart == [a \in Argument |-> a]
Places ==
  {Apart,
   [Apart EXCEPT !["y_heads"] = "q"],
   [Apart EXCEPT !["y"] = "q"],
   [Apart EXCEPT !["k"] = "q", !["v"] = "q"],
   [Apart EXCEPT !["y_heads"] = "k", !["y"] = "v"]}

EmptyShapes == {<<0, 2, 2, 2>>, <<1, 0, 2, 3>>, <<1, 2, 0, 2>>, <<2, 1, 3, 0>>}
AllFP32 == [a \in Argument |-> "FP32"]

Call(shape, place, causal, backend) ==
  [shape |-> shape, dtype |-> AllFP32, place |-> place, valid |-> Argument,
   causal |-> causal, backend |-> backend, supported |-> TRUE]
Plain(s) == Call(Matching(s), Apart, TRUE, "Naive")

SomeCalls ==
  {Call(Matching(s), place, causal, backend) :
     s \in HeadShapes, place \in Places, causal \in BOOLEAN, backend \in {"Naive", "Fused"}}
  \cup {Call([Matching(s) EXCEPT ![a] = other], Apart, causal, "Naive") :
     s \in HeadShapes, a \in Argument, other \in OtherShapes \cup EmptyShapes, causal \in BOOLEAN}
  \cup {Call(Matching(s), Apart, causal, "Naive") : s \in EmptyShapes, causal \in BOOLEAN}
  \cup {[Plain(s) EXCEPT !.dtype = [a \in Argument |-> IF a \in others THEN "BF16" ELSE "FP32"],
                         !.supported = supported] :
     s \in HeadShapes, others \in SUBSET Argument, supported \in BOOLEAN}
  \cup {[Plain(s) EXCEPT !.valid = valid] : s \in HeadShapes, valid \in SUBSET Argument}
=============================================================================
