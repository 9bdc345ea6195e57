------------------------------- MODULE MCGemm -------------------------------
(***************************************************************************)
(* Instances of Gemm.  Products: every product with extents 1 to 3 and no, *)
(* one, two or more batch items than the narrow int of the instance holds, *)
(* with the operand sets around them that check() must tell apart.         *)
(* Transposed and Stacked: a few products that differ in one respect each, *)
(* called again and again from contexts that share a cache.                *)
(***************************************************************************)
EXTENDS Gemm

Matrix(d1, d2) == [shape |-> <<d1, d2>>, dtype |-> "FP32", data |-> TRUE]
Stack(n, d1, d2) == [shape |-> <<n, d1, d2>>, dtype |-> "FP32", data |-> TRUE]
Product(c, a, b, trans_a, trans_b) ==
  [c |-> c, a |-> a, b |-> b, trans_a |-> trans_a, trans_b |-> trans_b]

Extent == 1 .. 3

(* Square operands can be exchanged and transposed unnoticed, so the inner *)
(* extents of the rejected sets range over all the extents too.            *)
MatrixProducts ==
  {Product(Matrix(m, n), Matrix(d1, d2), Matrix(d3, d4), ta, tb) :
     m \in Extent, n \in {1, 3}, d1 \in Extent, d2 \in {1, 2}, d3 \in {1, 2}, d4 \in {1, 3},
     ta \in BOOLEAN, tb \in BOOLEAN}
StackProducts ==
  {Product(Stack(i, m, n), Stack(h, IF ta THEN k ELSE m, IF ta THEN m ELSE k),
           Stack(j, IF tb THEN n ELSE k, IF tb THEN k ELSE n), ta, tb) :
     i \in {1, 2}, h \in {0, 1, 2}, j \in {1, 2},
     m \in {1, 3}, n \in {1, 2}, k \in {2, 3}, ta \in BOOLEAN, tb \in BOOLEAN}
(* The batches at and beyond the ends of what the layouts can describe,    *)
(* among them one whose conversion to int32_t is small and positive.       *)
EvenStacks(n) ==
  {Product(Stack(n, 2, 3), Stack(n, 2, 2), Stack(n, IF tb THEN 3 ELSE 2, IF tb THEN 2 ELSE 3), FALSE, tb) :
     tb \in BOOLEAN}
EdgeProducts == UNION {EvenStacks(n) : n \in {0, IntLimit - 1, IntLimit, 2 * IntLimit + 1}}
Products == MatrixProducts \cup StackProducts \cup EdgeProducts

Wide == Matrix(2, 3)
Tall == Matrix(3, 2)
Square == Matrix(2, 2)
Transposed ==
  {Product(Square, Square, Square, FALSE, FALSE),
   Product(Square, Square, Square, TRUE, FALSE),
   Product(Square, Square, Square, FALSE, TRUE),
   Product(Square, Wide, Tall, FALSE, FALSE),
   Product(Square, Tall, Wide, TRUE, TRUE)}
Stacked ==
  {Product(Square, Square, Square, FALSE, FALSE),
   Product(Square, Wide, Tall, FALSE, FALSE)}
  \cup {Product(Stack(n, 2, 2), Stack(n, 2, 2), Stack(n, 2, 2), FALSE, FALSE) : n \in 0 .. 2}
Rejected ==
  {Product(Square, [Square EXCEPT !.data = FALSE], Square, FALSE, FALSE),
   Product(Square, [Square EXCEPT !.dtype = "BF16"], Square, FALSE, FALSE),
   Product(Matrix(2, 3), Stack(1, 2, 2), Stack(1, 2, 3), FALSE, FALSE),
   Product([Square EXCEPT !.shape = <<4>>], Square, Square, FALSE, FALSE)}

Context(h, compute) == [cache |-> h, gemm_compute |-> compute, reduce |-> "FP32"]
Contexts ==
  {Context(h, compute) : h \in Caches, compute \in {"FP32", "BF16"}}
  \cup {Context(NoCache, "FP32")}

(* Each product once on one device, and the calls in every order.          *)
OnePerProduct ==
  {[ctxs |-> {Context(CHOOSE h \in Caches : TRUE, "FP32")}, operands |-> {o}] : o \in Products}
AllPrograms ==
  OnePerProduct \cup {[ctxs |-> Contexts, operands |-> calls \cup Rejected] :
                       calls \in {Transposed, Stacked}}

(* Products of the kinds a caller may make, with empty batches among them. *)
EmptyBatchPrograms ==
  {[ctxs |-> Contexts,
    operands |-> UNION {EvenStacks(n) : n \in 0 .. IntLimit - 1} \cup Stacked]}
=============================================================================
