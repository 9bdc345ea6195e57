-------------------------------- MODULE Gemm --------------------------------
(***************************************************************************)
(* llmt::kernels::matmul (src/kernels/matmul.cpp) and the per-device cache *)
(* of resolved algorithms (include/llmt/kernels/algo_cache.h).  A call     *)
(* validates its operands, describes the row-major product to cuBLASLt as  *)
(* a column-major one, finds or resolves an algorithm for it, and launches.*)
(* cuBLASLt is external: its heuristic may answer with any algorithm or    *)
(* with none, and may answer differently when it is asked again.  Calls    *)
(* come one after another from one host thread, as the code requires.      *)
(***************************************************************************)
EXTENDS Integers, Sequences, FiniteSets

CONSTANTS
  Caches,     \* the AlgoCaches, one for each Device
  NoCache,    \* a RunCtx that no Device made
  Programs,   \* a program: the RunCtxs and the operands (c, a, b and the two
              \* flags) that it calls matmul with
  Algos,      \* what the heuristic can answer
  NoAlgo,     \* not one of them
  IntLimit,   \* int32_t holds -IntLimit .. IntLimit - 1: 2^31 in the code
  MaxEntries  \* bound: entries of one cache

Ctxs == UNION {p.ctxs : p \in Programs}
Operands == UNION {p.operands : p \in Programs}

DType == {"FP32", "BF16", "I32"}
Tensor == [shape : Seq(Nat), dtype : DType, data : BOOLEAN]

ASSUME GemmAssumption ==
  /\ NoCache \notin Caches
  /\ NoAlgo \notin Algos
  /\ \A p \in Programs :
       /\ p.ctxs \subseteq [cache : Caches \cup {NoCache},
                           gemm_compute : DType, reduce : DType]
       /\ p.operands \subseteq [c : Tensor, a : Tensor, b : Tensor,
                                trans_a : BOOLEAN, trans_b : BOOLEAN]
  /\ IntLimit \in Nat /\ IntLimit > 1
  /\ MaxEntries \in Nat

VARIABLES
  program,   \* the program that runs
  cache,     \* AlgoCache::map of each cache: keys to resolved algorithms
  pc,        \* "idle", or the phase of the call in progress; "aborted"
  ctx,       \* the call in progress: its context and operands
  operands,
  algo,      \* the algorithm it is about to launch with
  launches   \* what has been launched so far, for the properties

vars == <<program, cache, pc, ctx, operands, algo, launches>>

-----------------------------------------------------------------------------
(* check(): the operand sets that matmul does not abort on, and the problem*)
(* that it reads off them.                                                 *)
Rank(t) == Len(t.shape)
Valid(t) == t.data /\ Rank(t) > 0

(* The last two axes and the batch axis of a rank-2 or rank-3 tensor.      *)
Rows(t) == t.shape[Rank(t) - 1]
Cols(t) == t.shape[Rank(t)]
Batch(t) == IF Rank(t) = 3 THEN t.shape[1] ELSE 1
BatchStride(t) == IF Rank(t) = 3 THEN Rows(t) * Cols(t) ELSE 0

Problem(o) ==
  [m |-> IF o.trans_a THEN Cols(o.a) ELSE Rows(o.a),
   n |-> IF o.trans_b THEN Rows(o.b) ELSE Cols(o.b),
   k |-> IF o.trans_a THEN Rows(o.a) ELSE Cols(o.a),
   batch |-> Batch(o.a),
   stride_a |-> BatchStride(o.a),
   stride_b |-> BatchStride(o.b),
   stride_c |-> BatchStride(o.c),
   dtype |-> o.a.dtype,
   trans_a |-> o.trans_a,
   trans_b |-> o.trans_b]

(* Mutation: the batch size of B is not compared with A's.                 *)
SameBatchOfC(o) == Batch(o.c) = Batch(o.a)
SameBatches(o) == Batch(o.b) = Batch(o.a) /\ Batch(o.c) = Batch(o.a)

Accepted(o) ==
  /\ Rank(o.c) \in {2, 3}
  /\ \A t \in {o.c, o.a, o.b} :
       Rank(t) = Rank(o.c) /\ t.dtype = o.a.dtype /\ Valid(t)
  /\ o.a.dtype = "FP32"
  /\ Problem(o).k = IF o.trans_b THEN Cols(o.b) ELSE Rows(o.b)
  /\ Rows(o.c) = Problem(o).m /\ Cols(o.c) = Problem(o).n
  /\ SameBatches(o)

-----------------------------------------------------------------------------
(* run(): the descriptors of the column-major problem, and the cache key.  *)
PrecisionSupported(x) == x.gemm_compute = "FP32" /\ x.reduce = "FP32"
ComputeSpec == [compute |-> "COMPUTE_32F", scale |-> "R_32F"]

(* The conversion of an int64_t to int32_t.                                *)
AsInt32(n) == ((n + IntLimit) % (2 * IntLimit)) - IntLimit

(* Mutation: the leading dimension is the row count of the buffer.         *)
LayoutByRows(rows, cols, batch, stride) ==
  [rows |-> cols, cols |-> rows, ld |-> rows,
   batch |-> IF batch > 1 THEN AsInt32(batch) ELSE 1,
   stride |-> IF batch > 1 THEN stride ELSE 0]

(* make_layout: the column-major view of a row-major [rows, cols] buffer.  *)
(* Unless there is more than one item, none included, the batch attributes *)
(* keep cuBLASLt's defaults: one item and no stride.                       *)
Layout(rows, cols, batch, stride) ==
  [rows |-> cols, cols |-> rows, ld |-> cols,
   batch |-> IF batch > 1 THEN AsInt32(batch) ELSE 1,
   stride |-> IF batch > 1 THEN stride ELSE 0]

Op(trans) == IF trans THEN "T" ELSE "N"

(* B takes the A-slot and A the B-slot, each with its own flag.            *)
Descriptors(p) ==
  LET a_rows == IF p.trans_a THEN p.k ELSE p.m
      a_cols == IF p.trans_a THEN p.m ELSE p.k
      b_rows == IF p.trans_b THEN p.n ELSE p.k
      b_cols == IF p.trans_b THEN p.k ELSE p.n
  IN [op_a |-> Op(p.trans_b),
      op_b |-> Op(p.trans_a),
      a |-> Layout(b_rows, b_cols, p.batch, p.stride_b),
      b |-> Layout(a_rows, a_cols, p.batch, p.stride_a),
      c |-> Layout(p.m, p.n, p.batch, p.stride_c),
      dtype |-> p.dtype,
      spec |-> ComputeSpec]

(* Mutation: the transposes are left out of the key.                       *)
KeyWithoutFlags(p) ==
  [m |-> p.m, n |-> p.n, k |-> p.k, batch |-> p.batch,
   dtype |-> p.dtype, spec |-> ComputeSpec]

(* AlgoKey: no strides and no leading dimensions.                          *)
Key(p) ==
  [m |-> p.m, n |-> p.n, k |-> p.k, batch |-> p.batch,
   flags |-> (IF p.trans_a THEN 1 ELSE 0) + (IF p.trans_b THEN 2 ELSE 0),
   dtype |-> p.dtype, spec |-> ComputeSpec]

(* A resolved algorithm, with the descriptors the heuristic was asked for. *)
Resolved(id, p) == [id |-> id, for |-> Descriptors(p)]
NoResolved == [id |-> NoAlgo, for |-> NoAlgo]

-----------------------------------------------------------------------------
Init ==
  /\ program \in Programs
  /\ cache = [h \in Caches |-> <<>>]
  /\ pc = "idle"
  /\ ctx \in program.ctxs
  /\ operands \in program.operands
  /\ algo = NoResolved
  /\ launches = {}

Abort ==
  /\ pc' = "aborted"
  /\ UNCHANGED <<cache, ctx, operands, algo, launches>>

Call(x, o) ==
  /\ pc = "idle"
  /\ ctx' = x
  /\ operands' = o
  /\ pc' = IF Accepted(o) /\ PrecisionSupported(x) /\ x.cache # NoCache
             THEN "lookup" ELSE "aborted"
  /\ UNCHANGED <<cache, algo, launches>>

(* cuBLASLt may refuse to make the descriptors, which aborts the program;  *)
(* once they are made the cache is searched.                               *)
Lookup ==
  /\ pc = "lookup"
  /\ \/ Abort
     \/ /\ LET key == Key(Problem(operands)) IN
             IF key \in DOMAIN cache[ctx.cache]
               THEN /\ algo' = cache[ctx.cache][key]
                    /\ pc' = "launch"
               ELSE /\ pc' = "resolve"
                    /\ UNCHANGED algo
        /\ UNCHANGED <<cache, ctx, operands, launches>>

(* Mutation: the answer is used but not stored.                            *)
NotStored(map, key, answer) == map
Stored(map, key, answer) ==
  [x \in DOMAIN map \cup {key} |-> IF x = key THEN answer ELSE map[x]]

(* Mutation: an answer without an algorithm is used and stored like any.   *)
Unchecked == Algos \cup {NoAlgo}
(* What resolve_algo returns: the heuristic's first answer.                *)
Answers == Algos

(* The heuristic is asked on a miss; no answer aborts the program.         *)
Resolve ==
  /\ pc = "resolve"
  /\ \/ Abort
     \/ \E id \in Answers :
          /\ Cardinality(DOMAIN cache[ctx.cache]) < MaxEntries
          /\ algo' = Resolved(id, Problem(operands))
          /\ cache' = [cache EXCEPT ![ctx.cache] =
                         Stored(@, Key(Problem(operands)), algo')]
          /\ pc' = "launch"
          /\ UNCHANGED <<ctx, operands, launches>>

(* cublasLtMatmul may refuse the launch, which aborts the program too.     *)
Launch ==
  /\ pc = "launch"
  /\ \/ Abort
     \/ /\ launches' = launches \cup
             {[cache |-> ctx.cache, problem |-> Problem(operands), algo |-> algo]}
        /\ algo' = NoResolved
        /\ pc' = "idle"
        /\ UNCHANGED <<cache, ctx, operands>>

Next ==
  /\ \/ \E x \in program.ctxs, o \in program.operands : Call(x, o)
     \/ Lookup \/ Resolve \/ Launch
  /\ UNCHANGED program

Spec == Init /\ [][Next]_vars

-----------------------------------------------------------------------------
(* What cuBLASLt does with the descriptors: for every item of the batch the*)
(* column-major product of the operands.  An element of a layout is at     *)
(* row + column * ld, and op "T" reads it with the two exchanged.          *)
LtOffset(layout, i, r, c) == i * layout.stride + r + c * layout.ld
LtOperand(layout, op, i, r, c) ==
  IF op = "T" THEN LtOffset(layout, i, c, r) ELSE LtOffset(layout, i, r, c)

OpRows(layout, op) == IF op = "T" THEN layout.cols ELSE layout.rows
OpCols(layout, op) == IF op = "T" THEN layout.rows ELSE layout.cols

(* The dimensions it requires to agree.                                    *)
LtConforms(d) ==
  /\ OpRows(d.a, d.op_a) = d.c.rows
  /\ OpCols(d.b, d.op_b) = d.c.cols
  /\ OpCols(d.a, d.op_a) = OpRows(d.b, d.op_b)
  /\ d.a.batch = d.c.batch /\ d.b.batch = d.c.batch
  /\ \A layout \in {d.a, d.b, d.c} : layout.ld >= layout.rows

(* Which element of the A-slot is multiplied with which of the B-slot into *)
(* which element of C, as offsets into the three buffers.                  *)
LtProducts(d) ==
  {<<LtOffset(d.c, i, r, c),
     LtOperand(d.b, d.op_b, i, z, c),
     LtOperand(d.a, d.op_a, i, r, z)>> :
     i \in 0 .. d.c.batch - 1, r \in 0 .. d.c.rows - 1,
     c \in 0 .. d.c.cols - 1, z \in 0 .. OpCols(d.a, d.op_a) - 1}

(* The reference: C[i] = op(A[i]) op(B[i]) on row-major tensors.           *)
RowMajor(t, i, r, c) == (i * Rows(t) + r) * Cols(t) + c
Element(t, trans, i, r, c) ==
  IF trans THEN RowMajor(t, i, c, r) ELSE RowMajor(t, i, r, c)

RowMajorProducts(o) ==
  LET p == Problem(o) IN
  {<<RowMajor(o.c, i, r, c), Element(o.a, o.trans_a, i, r, z),
     Element(o.b, o.trans_b, i, z, c)>> :
     i \in 0 .. p.batch - 1, r \in 0 .. p.m - 1, c \in 0 .. p.n - 1, z \in 0 .. p.k - 1}

ProblemKey == {Key(Problem(o)) : o \in {x \in Operands : Accepted(x)}}
ResolvedAlgo == {Resolved(id, Problem(o)) : id \in Algos,
                                            o \in {x \in Operands : Accepted(x)}}

TypeOK ==
  /\ program \in Programs
  /\ DOMAIN cache = Caches
  /\ \A h \in Caches : /\ DOMAIN cache[h] \subseteq ProblemKey
                       /\ \A key \in DOMAIN cache[h] : cache[h][key] \in ResolvedAlgo
  /\ pc \in {"idle", "lookup", "resolve", "launch", "aborted"}
  /\ ctx \in Ctxs
  /\ operands \in Operands
  /\ algo \in ResolvedAlgo \cup {NoResolved}
  /\ pc = "launch" => algo # NoResolved

(* The batch sizes for which make_layout() describes the batch it was      *)
(* given: a batch of none keeps the default of one item, and one of 2^31   *)
(* items or more does not survive the conversion to int32_t.               *)
Counted(o) == Batch(o.c) \in 1 .. IntLimit - 1

(* The mapping of the file comment: the column-major problem handed to     *)
(* cuBLASLt is well formed and multiplies, for every batch item, exactly   *)
(* the elements that the row-major product asks for into exactly the places*)
(* it asks for, for every combination of ranks and transposes and every    *)
(* batch that make_layout() can describe.                                  *)
ComputesProduct ==
  pc = "launch" /\ Counted(operands) =>
    LET d == Descriptors(Problem(operands)) IN
      LtConforms(d) /\ LtProducts(d) = RowMajorProducts(operands)

(* No operand set that check() lets through makes cuBLASLt read or write   *)
(* an element outside the tensors the caller passed, unless its batch is   *)
(* one that make_layout() cannot describe: an empty batch is no exception  *)
(* for check(), and does reach outside (EveryBatchIndexOnce below).        *)
Numel(t) == Batch(t) * Rows(t) * Cols(t)

StaysInTensors ==
  pc = "launch" /\ Counted(operands) =>
    \A x \in LtProducts(Descriptors(Problem(operands))) :
      x[1] < Numel(operands.c) /\ x[2] < Numel(operands.a) /\ x[3] < Numel(operands.b)

(* "rank 3 ([batch, rows, cols], contiguous) runs one independent GEMM per *)
(* batch index" (include/llmt/kernels/matmul.h:15): whatever the batch, the*)
(* products computed are those of the row-major items and no others.       *)
EveryBatchIndexOnce ==
  pc = "launch" =>
    LtProducts(Descriptors(Problem(operands))) = RowMajorProducts(operands)

(* Only an algorithm the heuristic really answered with is launched, and   *)
(* only with the descriptors it was resolved for, although the key it was  *)
(* found under holds neither strides nor layouts.                          *)
AlgorithmFits ==
  \A l \in launches : l.algo.id \in Algos /\ l.algo.for = Descriptors(l.problem)

(* Invariant 5: on one device, equal problems replay the identical         *)
(* algorithm, whatever the heuristic would answer if it were asked again   *)
(* and whatever the cache was asked for in between.  Problems are equal    *)
(* when extents, batch, transposes and dtype are: the strides follow, and a*)
(* rank-3 problem of one item is the rank-2 problem.                       *)
Unstrided(p) == [p EXCEPT !.stride_a = 0, !.stride_b = 0, !.stride_c = 0]

ReplaysAlgorithm ==
  \A l, q \in launches :
    l.cache = q.cache /\ Unstrided(l.problem) = Unstrided(q.problem) => l.algo = q.algo
=============================================================================
