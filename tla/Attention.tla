----------------------------- MODULE Attention -----------------------------
(***************************************************************************)
(* llmt::kernels::attention_fwd (src/kernels/attention.cpp): the naive     *)
(* attention as a composition of two batched products, an in-place softmax *)
(* and the merge of the heads, on tensors that a caller may have put into  *)
(* one memory.  The kernels run one after another on one stream, so each is*)
(* a step; WarpRow, Gemm and CellKernels look inside them.                 *)
(*                                                                         *)
(* A value is the expression that computes it from the cells as they were  *)
(* at the call.                                                            *)
(***************************************************************************)
EXTENDS Integers, Sequences

CONSTANTS
  Calls,  \* the calls: shape, dtype and place of each argument and which of
          \* them have data, mask, backend, and whether the RunCtx has an
          \* algorithm cache and computes and reduces in FP32
  Cells   \* bound: cells of one memory

Argument == {"q", "k", "v", "scores", "y_heads", "y"}
Memory == Argument  \* a memory is named after a tensor that lies in it
Storage == {"FP32", "BF16", "I32"}

ShapeNumel(s) ==
  LET product[n \in 0 .. Len(s)] == IF n = 0 THEN 1 ELSE s[n] * product[n - 1]
  IN IF Len(s) = 0 THEN 0 ELSE product[Len(s)]

ASSUME AttentionAssumption ==
  /\ Cells \in Nat
  /\ Calls \subseteq [shape : [Argument -> Seq(Nat)], dtype : [Argument -> Storage],
                      place : [Argument -> Memory], valid : SUBSET Argument,
                      causal : BOOLEAN, backend : {"Naive", "Fused"}, supported : BOOLEAN]
  /\ \A c \in Calls, a \in Argument : ShapeNumel(c.shape[a]) <= Cells

VARIABLES
  call,
  step,  \* the next one, "done", "refused" by attention_fwd, "aborted" by the
         \* checks of a callee, or "failed" in the library or at a launch
  mem    \* the cells of each memory

attentionVars == <<call, step, mem>>

Term(op, cell, args) == [op |-> op, cell |-> cell, args |-> args]
NoCell == <<"none", 0>>
Original(m, j) == Term("cell", <<m, j>>, {})
Zero == Term("0", NoCell, {})

(* A dot product is the set of its numbered pairs; a probability has, with *)
(* each visible element of the row, the element it is the probability of.  *)
Dot(scale, pairs) == Term(scale, NoCell, pairs)
Prob(row, c) == Term("prob", NoCell, {<<j, row[j], row[c]>> : j \in DOMAIN row})

InitAttention ==
  /\ call \in Calls
  /\ step = "check"
  /\ mem = [m \in Memory |-> [j \in 0 .. Cells - 1 |-> Original(m, j)]]

Shape(a) == call.shape[a]
At(a, j) == mem[call.place[a]][j]

(* fold_heads: the same cells as [B H, T, x].                              *)
Fold(s) == <<s[1] * s[2], s[3], s[4]>>

(* Mutation: the shapes of k and v are left to the products.               *)
AdmittedButForKV ==
  /\ call.backend = "Naive"
  /\ call.valid = Argument
  /\ \A a \in Argument \ {"y"} : Len(Shape(a)) = 4
  /\ Shape("y_heads") = Shape("q")
  /\ LET s == Shape("q") IN
       /\ Shape("scores") = <<s[1], s[2], s[3], s[3]>>
       /\ Shape("y") = <<s[1], s[3], s[2] * s[4]>>

Admitted ==
  /\ call.backend = "Naive"
  /\ call.valid = Argument
  /\ \A a \in Argument \ {"y"} : Len(Shape(a)) = 4
  /\ \A a \in {"k", "v", "y_heads"} : Shape(a) = Shape("q")
  /\ LET s == Shape("q") IN
       /\ Shape("scores") = <<s[1], s[2], s[3], s[3]>>
       /\ Shape("y") = <<s[1], s[3], s[2] * s[4]>>

Check ==
  /\ step = "check"
  /\ step' = IF Admitted THEN "scale" ELSE "refused"
  /\ UNCHANGED <<call, mem>>

(* A kernel aborts on its own checks, fails in cuBLASLt or at the launch,  *)
(* or overwrites a tensor.                                                 *)
Kernel(from, to, checks, launchable, a, numel, value(_)) ==
  /\ step = from
  /\ \/ ~checks /\ step' = "aborted" /\ UNCHANGED mem
     \/ checks /\ step' = "failed" /\ UNCHANGED mem
     \/ /\ checks /\ launchable
        /\ step' = to
        /\ mem' = [mem EXCEPT ![call.place[a]] =
                     [j \in DOMAIN @ |-> IF j < numel THEN value(j) ELSE @[j]]]
  /\ UNCHANGED call

(* matmul on folded tensors: one dtype, which is FP32, data, and extents   *)
(* that conform.                                                           *)
ProductChecks(c, a, b, trans_b) ==
  LET sc == Fold(Shape(c))
      sa == Fold(Shape(a))
      sb == Fold(Shape(b))
  IN /\ \A t \in {c, a, b} : call.dtype[t] = "FP32" /\ t \in call.valid
     /\ sa[1] = sc[1] /\ sb[1] = sc[1] /\ sa[2] = sc[2]
     /\ (IF trans_b THEN sb[2] ELSE sb[3]) = sc[3]
     /\ (IF trans_b THEN sb[3] ELSE sb[2]) = sa[3]
     /\ call.supported

(* C = A B or A B^T.  An empty batch is run as one of one item (Gemm), on  *)
(* the memory behind the empty tensors; that no batch is too large for an  *)
(* int32_t is taken for granted here.                                      *)
Product(from, to, c, a, b, trans_b, scale) ==
  LET sc == Fold(Shape(c))
      sa == Fold(Shape(a))
      sb == Fold(Shape(b))
      batch == IF sc[1] > 1 THEN sc[1] ELSE 1
      value(j) ==
        LET i == j \div (sc[2] * sc[3])
            r == (j \div sc[3]) % sc[2]
            n == j % sc[3]
        IN Dot(scale,
             {<<z, At(a, (i * sa[2] + r) * sa[3] + z),
                   At(b, i * sb[2] * sb[3] +
                           (IF trans_b THEN n * sb[3] + z ELSE z * sb[3] + n))>> :
              z \in 0 .. sa[3] - 1})
  IN Kernel(from, to, ProductChecks(c, a, b, trans_b), TRUE, c, batch * sc[2] * sc[3], value)

(* scores = q k^T / sqrt(hd).                                              *)
Scores == Product("scale", "softmax", "scores", "q", "k", TRUE, "scaled_dot")

(* Mutation: a query does not see its own position.                        *)
LimitExclusive(j, tq, tk) ==
  IF call.causal THEN (j \div tk) % tq ELSE tk

Limit(j, tq, tk) ==
  IF call.causal THEN ((j \div tk) % tq) + 1 ELSE tk

(* softmax_fwd in place: the probabilities overwrite the scores.  Without  *)
(* rows the grid is empty and the launch fails.                            *)
SoftmaxChecks ==
  LET s == Fold(Shape("scores")) IN
  /\ call.causal => s[2] = s[3]
  /\ "scores" \in call.valid
  /\ call.supported /\ call.dtype["scores"] = "FP32"

Softmax ==
  LET s == Fold(Shape("scores"))
      value(j) ==
        LET c == j % s[3]
            first == j - c
            row == [n \in 0 .. Limit(j, s[2], s[3]) - 1 |-> At("scores", first + n)]
        IN IF c \in DOMAIN row THEN Prob(row, c) ELSE Zero
  IN Kernel("softmax", "values", SoftmaxChecks, s[1] * s[2] > 0,
            "scores", s[1] * s[2] * s[3], value)

(* y_heads = probs v.                                                      *)
Values == Product("values", "merge", "y_heads", "scores", "v", FALSE, "dot")

(* permute_merge; its grid too is empty when there is nothing to move.     *)
MergeChecks ==
  LET s == Shape("y_heads") IN
  /\ Len(s) = 4
  /\ Shape("y") = <<s[1], s[3], s[2] * s[4]>>
  /\ call.dtype["y"] = call.dtype["y_heads"]
  /\ {"y", "y_heads"} \subseteq call.valid
  /\ call.dtype["y_heads"] = "FP32"

(* Mutation: the folded tensor is copied as it lies.                       *)
MergeCopies ==
  LET s == Shape("y_heads")
      numel == s[1] * s[2] * s[3] * s[4]
      value(j) == At("y_heads", j)
  IN Kernel("merge", "done", MergeChecks, numel > 0, "y", numel, value)

Merge ==
  LET s == Shape("y_heads")
      numel == s[1] * s[2] * s[3] * s[4]
      value(j) ==
        LET d == j % s[4]
            h == (j \div s[4]) % s[2]
            t == (j \div (s[2] * s[4])) % s[3]
            b == j \div (s[2] * s[4] * s[3])
        IN At("y_heads", ((b * s[2] + h) * s[3] + t) * s[4] + d)
  IN Kernel("merge", "done", MergeChecks, numel > 0, "y", numel, value)

NextAttention == Check \/ Scores \/ Softmax \/ Values \/ Merge

AttentionSpec == InitAttention /\ [][NextAttention]_attentionVars

-----------------------------------------------------------------------------
(* The definition of the header comment, by coordinates, from the inputs   *)
(* as they were at the call.                                               *)
Below(n) == 0 .. n - 1
Input(a, b, h, t, d) ==
  LET s == Shape("q") IN
  Original(call.place[a], ((b * s[2] + h) * s[3] + t) * s[4] + d)

Score(b, h, t, u) ==
  Dot("scaled_dot",
      {<<d, Input("q", b, h, t, d), Input("k", b, h, u, d)>> : d \in Below(Shape("q")[4])})

Attended(t) == IF call.causal THEN Below(t + 1) ELSE Below(Shape("q")[3])

Probability(b, h, t, u) ==
  IF u \in Attended(t) THEN Prob([w \in Attended(t) |-> Score(b, h, t, w)], u) ELSE Zero

Output(b, h, t, d) ==
  Dot("dot", {<<u, Probability(b, h, t, u), Input("v", b, h, u, d)>> : u \in Below(Shape("q")[3])})

(* The arguments a kernel writes and reads at once, or whose contents are  *)
(* still needed, lie apart; y_heads and y may lie in inputs that the       *)
(* earlier kernels have used up.                                           *)
PlacesApart(place) ==
  /\ \A a \in Argument \ {"scores"} : place[a] # place["scores"]
  /\ place["y_heads"] \notin {place["v"], place["y"]}

(* After the call y is the attention of the original q, k and v, and the   *)
(* scratch tensors hold what the header promises the backward pass: the    *)
(* probabilities, and the heads before the merge, also when y_heads or y   *)
(* reuses the memory of an input.                                          *)
AttentionCorrect ==
  step = "done" /\ PlacesApart(call.place) =>
    LET s == Shape("q") IN
    \A b \in Below(s[1]), h \in Below(s[2]), t \in Below(s[3]) :
      /\ \A u \in Below(s[3]) :
           At("scores", ((b * s[2] + h) * s[3] + t) * s[3] + u) = Probability(b, h, t, u)
      /\ \A d \in Below(s[4]) :
           /\ At("y_heads", ((b * s[2] + h) * s[3] + t) * s[4] + d) = Output(b, h, t, d)
           /\ At("y", (b * s[3] + t) * s[2] * s[4] + h * s[4] + d) = Output(b, h, t, d)

(* What the checks at the entry leave to the callees: the context and the  *)
(* types of q, k and scores, which the first product checks before anything*)
(* is overwritten, and the types of v, y_heads and y, which are noticed    *)
(* only when the scratch tensors have been.  No mismatch of shapes, missing*)
(* data or unequal batch gets past the entry.                              *)
Typed(args) == \A a \in args : call.dtype[a] = "FP32"
ScratchWritten == \E m \in Memory, j \in 0 .. Cells - 1 : mem[m][j] # Original(m, j)
ScoresReady == call.supported /\ Typed({"q", "k", "scores"})

OnlyTypesAbort ==
  step = "aborted" =>
    IF ScoresReady THEN ~Typed({"v", "y_heads", "y"}) ELSE ~ScratchWritten

(* What a term reads: the terms in its pairs, without those that a factor  *)
(* of exactly zero hides; a cell reads nothing further.                    *)
Reads(term) ==
  IF term.op = "cell" THEN {term}
  ELSE UNION {IF Zero \in {p[2], p[3]} THEN {} ELSE {p[2], p[3]} : p \in term.args}
Unfold(terms) == UNION {Reads(term) : term \in terms}

(* An output reads probabilities, these read scores, and these read cells. *)
Sources(term) == {s.cell : s \in Unfold(Unfold(Reads(term)))}

InputRow(a, b, h, t) == {Input(a, b, h, t, d).cell : d \in Below(Shape("q")[4])}

(* The output at a position depends on exactly the query there, the keys   *)
(* it may attend to, and their values in its own channel: never on another *)
(* batch item or head and, under the causal mask, never on the future.     *)
SeesOnlyItsPast ==
  step = "done" /\ PlacesApart(call.place) =>
    LET s == Shape("q") IN
    \A b \in Below(s[1]), h \in Below(s[2]), t \in Below(s[3]), d \in Below(s[4]) :
      Sources(At("y", (b * s[3] + t) * s[2] * s[4] + h * s[4] + d)) =
        InputRow("q", b, h, t)
        \cup (UNION {InputRow("k", b, h, u) : u \in Attended(t)})
        \cup {Input("v", b, h, u, d).cell : u \in Attended(t)}
=============================================================================
