------------------------------ MODULE WarpRow ------------------------------
(***************************************************************************)
(* The kernels that give one row of a matrix to one warp: softmax_fwd_     *)
(* kernel, rmsnorm_fwd_kernel and ce_row_kernel, with the reductions of    *)
(* warp.cuh.  Lane l of the warp takes the columns l, l + Lanes, ...; every*)
(* pass over the row ends in an xor-shuffle butterfly, which waits for all *)
(* lanes and leaves the reduction in each of them.  Between two butterflies*)
(* the lanes run in any order, and softmax and rmsnorm may write the row   *)
(* they read.                                                              *)
(*                                                                         *)
(* A value is the expression that computes it.  Floating-point addition is *)
(* commutative but not associative, a maximum is both: a sum is the set of *)
(* its two operands, a maximum the set of the values it was taken over.    *)
(***************************************************************************)
EXTENDS Integers

CONSTANTS
  Lanes,   \* kWarpSize, 32 in the code
  Kernels, \* the kernels launched
  Widths   \* the numbers of columns of a row

(* A warp is a power of two: its only odd divisor is 1.                    *)
ASSUME WarpRowAssumption ==
  /\ Lanes \in Nat \ {0}
  /\ \A d \in 2 .. Lanes : Lanes % d = 0 => d % 2 = 0
  /\ Kernels \subseteq {"softmax", "rmsnorm", "ce_row"}
  /\ Widths \subseteq Nat \ {0}

Lane == 0 .. Lanes - 1

Term(op, col, args) == [op |-> op, col |-> col, args |-> args]
X(c) == Term("x", c, {})
Zero == Term("0", 0, {})
Plus(a, b) == Term("+", 0, {a, b})
MaxOf(S) == Term("max", 0, S)
Fmax(a, b) == MaxOf(a.args \cup b.args)
Square(x) == Term("square", 0, {x})
Exp(x, max) == Term("exp", 0, {x, max})
Uninit == Term("uninitialised", 0, {})

(* The stored results: a probability, a normalised element (the gain of its*)
(* column is named by the column), the reciprocal root, a row's loss.      *)
Prob(x, max, s) == Term("prob", 0, {<<x, max>>, <<Zero, s>>})
Scaled(c, x, s) == Term("scaled", c, {<<x, s>>})
Rstd(s) == Term("rstd", 0, {s})
Nll(max, s, x) == Term("nll", 0, {<<max, s>>, <<Zero, x>>})

VARIABLES
  row,  \* the launch: kernel, width, query position, mask, aliasing, target
  pc,   \* where each lane is
  i,    \* the lanes' loop variable over the columns
  m,    \* the lanes' registers m and sum
  sum,
  off,  \* the butterfly's offset
  x,    \* the row that is read
  y,    \* the row that is written; the same memory when row.inplace
  stat  \* rstd[row] or row_nll[row]

vars == <<row, pc, i, m, sum, off, x, y, stat>>

Column == 0 .. row.width - 1

(* Mutation: a query does not see its own position.                        *)
LimitExclusive == IF row.causal THEN row.q ELSE row.width

(* How many columns are valid; a causal query sees itself and what is      *)
(* before it.                                                              *)
Limit == IF row.causal THEN row.q + 1 ELSE row.width

(* The launches the host checks let through: only softmax has a mask, the  *)
(* cross entropy writes no row, and its target is one of the columns.      *)
Launches ==
  UNION {[kernel : Kernels, width : {w}, q : 0 .. w - 1, causal : BOOLEAN,
          inplace : BOOLEAN, target : 0 .. w - 1] : w \in Widths}

Launch(r) ==
  /\ r.kernel # "softmax" => ~r.causal
  /\ r.kernel = "ce_row" => ~r.inplace
  /\ ~r.causal => r.q = 0
  /\ r.kernel # "ce_row" => r.target = 0

FirstPass(kernel) == IF kernel = "rmsnorm" THEN "sum" ELSE "max"

Init ==
  /\ row \in Launches /\ Launch(row)
  /\ pc = [l \in Lane |-> FirstPass(row.kernel)]
  /\ i = [l \in Lane |-> l]
  /\ m = [l \in Lane |-> MaxOf({})]
  /\ sum = [l \in Lane |-> Zero]
  /\ off = Lanes \div 2
  /\ x = [c \in Column |-> X(c)]
  /\ y = [c \in Column |-> IF row.inplace THEN X(c) ELSE Uninit]
  /\ stat = Uninit

Goto(l, label) == pc' = [pc EXCEPT ![l] = label]
Advance(l) == i' = [i EXCEPT ![l] = @ + Lanes]

-----------------------------------------------------------------------------
(* The passes that reduce the row.                                         *)
MaxStep(l) ==
  /\ pc[l] = "max" /\ i[l] < Limit
  /\ m' = [m EXCEPT ![l] = MaxOf(@.args \cup {x[i[l]]})]
  /\ Advance(l)
  /\ UNCHANGED <<row, pc, sum, off, x, y, stat>>

MaxDone(l) ==
  /\ pc[l] = "max" /\ i[l] >= Limit
  /\ Goto(l, "maxed")
  /\ UNCHANGED <<row, i, m, sum, off, x, y, stat>>

Summand(l) ==
  IF row.kernel = "rmsnorm" THEN Square(x[i[l]]) ELSE Exp(x[i[l]], m[l])

SumStep(l) ==
  /\ pc[l] = "sum" /\ i[l] < Limit
  /\ sum' = [sum EXCEPT ![l] = Plus(@, Summand(l))]
  /\ Advance(l)
  /\ UNCHANGED <<row, pc, m, off, x, y, stat>>

(* Mutation: a lane that has no column leaves instead of shuffling.        *)
SumDoneOrLeave(l) ==
  /\ pc[l] = "sum" /\ i[l] >= Limit
  /\ Goto(l, IF i[l] = l THEN "done" ELSE "summed")
  /\ UNCHANGED <<row, i, m, sum, off, x, y, stat>>

SumDone(l) ==
  /\ pc[l] = "sum" /\ i[l] >= Limit
  /\ Goto(l, "summed")
  /\ UNCHANGED <<row, i, m, sum, off, x, y, stat>>

-----------------------------------------------------------------------------
(* Mutation: __shfl_down_sync, where the upper lanes get their own value.  *)
PartnerDown(l) == IF l + off < Lanes THEN l + off ELSE l

(* l xor off, off a power of two.                                          *)
Partner(l) == IF (l \div off) % 2 = 0 THEN l + off ELSE l - off

(* __shfl_xor_sync under the full mask: all lanes exchange at once.  When  *)
(* the offset has run out they go on to the next pass, from their first    *)
(* column.                                                                 *)
ShuffleMax ==
  /\ \A l \in Lane : pc[l] = "maxed"
  /\ off > 0
  /\ m' = [l \in Lane |-> Fmax(m[l], m[Partner(l)])]
  /\ off' = off \div 2
  /\ UNCHANGED <<row, pc, i, sum, x, y, stat>>

ShuffleSum ==
  /\ \A l \in Lane : pc[l] = "summed"
  /\ off > 0
  /\ sum' = [l \in Lane |-> Plus(sum[l], sum[Partner(l)])]
  /\ off' = off \div 2
  /\ UNCHANGED <<row, pc, i, m, x, y, stat>>

NextPass ==
  /\ off = 0
  /\ \/ /\ \A l \in Lane : pc[l] = "maxed"
        /\ pc' = [l \in Lane |-> "sum"]
     \/ /\ \A l \in Lane : pc[l] = "summed"
        /\ pc' = [l \in Lane |-> "stat"]
  /\ i' = [l \in Lane |-> l]
  /\ off' = Lanes \div 2
  /\ UNCHANGED <<row, m, sum, x, y, stat>>

(* Lane 0 stores the statistic of the row: rmsnorm's rstd, the cross       *)
(* entropy's loss, which ends the kernel.                                  *)
Publish(l) ==
  /\ pc[l] = "stat"
  /\ stat' = IF l # 0 \/ row.kernel = "softmax" THEN stat
             ELSE IF row.kernel = "rmsnorm" THEN Rstd(sum[l])
             ELSE Nll(m[l], sum[l], x[row.target])
  /\ Goto(l, IF row.kernel = "ce_row" THEN "done" ELSE "write")
  /\ UNCHANGED <<row, i, m, sum, off, x, y>>

Result(l, c) ==
  IF row.kernel = "rmsnorm" THEN Scaled(c, x[c], sum[l])
  ELSE IF c < Limit THEN Prob(x[c], m[l], sum[l]) ELSE Zero

(* Mutation: the write pass takes adjacent columns.                        *)
WriteAdjacent(l) ==
  /\ pc[l] = "write" /\ i[l] < row.width
  /\ y' = [y EXCEPT ![i[l]] = Result(l, i[l])]
  /\ x' = IF row.inplace THEN y' ELSE x
  /\ i' = [i EXCEPT ![l] = @ + 1]
  /\ UNCHANGED <<row, pc, m, sum, off, stat>>

WriteStep(l) ==
  /\ pc[l] = "write" /\ i[l] < row.width
  /\ y' = [y EXCEPT ![i[l]] = Result(l, i[l])]
  /\ x' = IF row.inplace THEN y' ELSE x
  /\ Advance(l)
  /\ UNCHANGED <<row, pc, m, sum, off, stat>>

WriteDone(l) ==
  /\ pc[l] = "write" /\ i[l] >= row.width
  /\ Goto(l, "done")
  /\ UNCHANGED <<row, i, m, sum, off, x, y, stat>>

Step(l) ==
  MaxStep(l) \/ MaxDone(l) \/ SumStep(l) \/ SumDone(l)
    \/ Publish(l) \/ WriteStep(l) \/ WriteDone(l)

Warp == ShuffleMax \/ ShuffleSum \/ NextPass

Next == Warp \/ \E l \in Lane : Step(l)

Spec == Init /\ [][Next]_vars

(* The hardware runs every lane of a resident warp that can run.           *)
Fairness == WF_vars(Warp) /\ \A l \in Lane : WF_vars(Step(l))
FairSpec == Spec /\ Fairness

-----------------------------------------------------------------------------
Labels == {"max", "maxed", "sum", "summed", "stat", "write", "done"}

(* Each lane's loop variable stays in its own share of the row.            *)
TypeOK ==
  /\ row \in Launches
  /\ pc \in [Lane -> Labels]
  /\ i \in [Lane -> Nat]
  /\ \A l \in Lane : \E k \in 0 .. i[l] : i[l] = l + k * Lanes
  /\ off \in 0 .. Lanes \div 2
  /\ DOMAIN x = Column /\ DOMAIN y = Column

(* Which column a lane's next step reads.                                  *)
Reads(l, c) ==
  \/ pc[l] \in {"max", "sum"} /\ c = i[l] /\ c < Limit
  \/ pc[l] = "write" /\ c = i[l]
  \/ pc[l] = "stat" /\ row.kernel = "ce_row" /\ l = 0 /\ c = row.target

(* "y may alias x": when the rows are the same memory, no lane ever reads  *)
(* a column that has already been overwritten with a result, although the  *)
(* lanes of the write pass run in any order.                               *)
ReadsOriginal ==
  \A l \in Lane, c \in Column : Reads(l, c) => x[c] = X(c)

(* The kernel's reference, one lane after the other: the maximum over the  *)
(* valid columns, the sum of a lane's terms from the first column of its   *)
(* share to the last, and the halving tree over the lanes' shares, down to *)
(* some width.                                                             *)
RowMax == MaxOf({X(c) : c \in 0 .. Limit - 1})

Terms(l) ==
  [k \in Nat |-> LET c == l + k * Lanes IN
     IF row.kernel = "rmsnorm" THEN Square(X(c)) ELSE Exp(X(c), RowMax)]

AddedUp(terms, k) ==
  LET added[j \in 0 .. k] ==
        IF j = 0 THEN Zero ELSE Plus(added[j - 1], terms[j - 1])
  IN added[k]

Shares ==
  [l \in Lane |->
     AddedUp(Terms(l), IF l >= Limit THEN 0 ELSE (Limit - 1 - l) \div Lanes + 1)]

Halving(shares, width) ==
  LET half[w \in 1 .. Lanes] ==
        IF 2 * w > Lanes THEN shares
        ELSE [l \in 0 .. w - 1 |-> Plus(half[2 * w][l], half[2 * w][l + w])]
  IN half[width]

RowSum == Halving(Shares, 1)[0]

Finished == \A l \in Lane : pc[l] = "done"

(* Bitwise reproducible and in place: whatever order the lanes run in,     *)
(* whichever lane writes a column from its own copy of the reductions, and *)
(* whether or not y is x, the results are those of the original row, and   *)
(* the columns a causal query must not see get exactly 0.                  *)
RowCorrect ==
  Finished =>
    /\ row.kernel = "softmax" =>
         \A c \in Column :
           y[c] = IF c < Limit THEN Prob(X(c), RowMax, RowSum) ELSE Zero
    /\ row.kernel = "rmsnorm" =>
         /\ stat = Rstd(RowSum)
         /\ \A c \in Column : y[c] = Scaled(c, X(c), RowSum)
    /\ row.kernel = "ce_row" => stat = Nll(RowMax, RowSum, X(row.target))

(* A query has the causal limit of its own position: what it may attend to *)
(* is itself and the past, stated without the kernel's limit.              *)
CausalExact ==
  Finished /\ row.causal =>
    \A c \in Column : y[c] = Zero <=> c > row.q

(* Every lane reaches every shuffle: a warp never waits for one that has   *)
(* no column of the row.                                                   *)
Terminates == <>Finished
=============================================================================
