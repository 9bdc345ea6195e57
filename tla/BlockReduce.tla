---------------------------- MODULE BlockReduce ----------------------------
(***************************************************************************)
(* ce_reduce_kernel (src/kernels/cross_entropy.cu): the one block whose    *)
(* threads turn the per-row losses and the mask into their quotient.  Every*)
(* thread adds up its share of the rows and stores the two sums in shared  *)
(* memory, then the sums are added pairwise, halving the number of active  *)
(* threads, with a barrier after each level.                               *)
(*                                                                         *)
(* Floating-point addition is not associative, so a sum is the expression  *)
(* that computes it: equal expressions are equal bits, different ones need *)
(* not be.  The threads of a block run in any order between barriers.      *)
(***************************************************************************)
EXTENDS Integers

CONSTANTS
  Threads,   \* kReduceBlock, 256 in the code
  RowCounts  \* the numbers of rows the kernel is launched with

(* The block is a power of two: its only odd divisor is 1.                 *)
ASSUME BlockReduceAssumption ==
  /\ Threads \in Nat \ {0}
  /\ \A d \in 2 .. Threads : Threads % d = 0 => d % 2 = 0
  /\ RowCounts \subseteq Nat

Thread == 0 .. Threads - 1

(* Expressions: TR(0), the value of a row, a sum; and uninitialised memory.*)
Zero == [row |-> -1]
Row(r) == [row |-> r]
Plus(x, y) == [left |-> x, right |-> y]
Garbage == [row |-> -2]

VARIABLES
  n,       \* the number of rows
  pc,      \* where each thread is
  i,       \* the threads' loop variable over the rows
  nll,     \* the registers nll and msum
  msum,
  s_nll,   \* shared memory
  s_mask,
  off,     \* the threads' loop variable over the levels
  loss     \* the numerator and the denominator of loss[0]

vars == <<n, pc, i, nll, msum, s_nll, s_mask, off, loss>>

Unpublished == [nll |-> Garbage, mask |-> Garbage]

Init ==
  /\ n \in RowCounts
  /\ pc = [t \in Thread |-> "gather"]
  /\ i = [t \in Thread |-> t]
  /\ nll = [t \in Thread |-> Zero]
  /\ msum = [t \in Thread |-> Zero]
  /\ s_nll = [t \in Thread |-> Garbage]
  /\ s_mask = [t \in Thread |-> Garbage]
  /\ off = [t \in Thread |-> Threads \div 2]
  /\ loss = Unpublished

Goto(t, label) == pc' = [pc EXCEPT ![t] = label]

(* One row of the thread's share; row r of row_nll and of mask is Row(r).  *)
Gather(t) ==
  /\ pc[t] = "gather" /\ i[t] < n
  /\ nll' = [nll EXCEPT ![t] = Plus(@, Row(i[t]))]
  /\ msum' = [msum EXCEPT ![t] = Plus(@, Row(i[t]))]
  /\ i' = [i EXCEPT ![t] = @ + Threads]
  /\ UNCHANGED <<n, pc, s_nll, s_mask, off, loss>>

(* The sums go to shared memory and the thread waits at the first barrier. *)
Store(t) ==
  /\ pc[t] = "gather" /\ i[t] >= n
  /\ s_nll' = [s_nll EXCEPT ![t] = nll[t]]
  /\ s_mask' = [s_mask EXCEPT ![t] = msum[t]]
  /\ Goto(t, "stored")
  /\ UNCHANGED <<n, i, nll, msum, off, loss>>

(* Mutation: the cell beside the one half a level away is added.           *)
AddNllNext(t) ==
  /\ pc[t] = "level" /\ t < off[t]
  /\ s_nll' = [s_nll EXCEPT ![t] = Plus(@, s_nll[t + off[t] - 1])]
  /\ Goto(t, "mask")
  /\ UNCHANGED <<n, i, nll, msum, s_mask, off, loss>>

(* The two halves of a level, one read-modify-write of shared memory each. *)
AddNll(t) ==
  /\ pc[t] = "level" /\ t < off[t]
  /\ s_nll' = [s_nll EXCEPT ![t] = Plus(@, s_nll[t + off[t]])]
  /\ Goto(t, "mask")
  /\ UNCHANGED <<n, i, nll, msum, s_mask, off, loss>>

AddMask(t) ==
  /\ pc[t] = "mask"
  /\ s_mask' = [s_mask EXCEPT ![t] = Plus(@, s_mask[t + off[t]])]
  /\ Goto(t, "levelled")
  /\ UNCHANGED <<n, i, nll, msum, s_nll, off, loss>>

(* Mutation: the barrier is inside the if: an idle thread does not wait.   *)
IdleLeaves(t) ==
  /\ pc[t] = "level" /\ off[t] > 0 /\ t >= off[t]
  /\ Goto(t, "done")
  /\ UNCHANGED <<n, i, nll, msum, s_nll, s_mask, off, loss>>

Idle(t) ==
  /\ pc[t] = "level" /\ off[t] > 0 /\ t >= off[t]
  /\ Goto(t, "levelled")
  /\ UNCHANGED <<n, i, nll, msum, s_nll, s_mask, off, loss>>

(* Thread 0 writes the result, of whatever the cells hold by then.         *)
Publish(t) ==
  /\ pc[t] = "level" /\ off[t] = 0
  /\ loss' = IF t = 0 THEN [nll |-> s_nll[0], mask |-> s_mask[0]] ELSE loss
  /\ Goto(t, "done")
  /\ UNCHANGED <<n, i, nll, msum, s_nll, s_mask, off>>

Waiting(t) == pc[t] \in {"stored", "levelled"}

(* Mutation: no barrier at the end of a level.                             *)
SyncFirstOnly ==
  \/ /\ \A t \in Thread : pc[t] = "stored"
     /\ pc' = [t \in Thread |-> "level"]
     /\ UNCHANGED <<n, i, nll, msum, s_nll, s_mask, off, loss>>
  \/ \E t \in Thread :
       /\ pc[t] = "levelled"
       /\ Goto(t, "level")
       /\ off' = [off EXCEPT ![t] = @ \div 2]
       /\ UNCHANGED <<n, i, nll, msum, s_nll, s_mask, loss>>

(* __syncthreads: nobody leaves the barrier before everybody has reached   *)
(* it.  After the barrier of a level the offset is halved.                 *)
Sync ==
  /\ \A t \in Thread : Waiting(t)
  /\ pc' = [t \in Thread |-> "level"]
  /\ off' = [t \in Thread |-> IF pc[t] = "levelled" THEN off[t] \div 2 ELSE off[t]]
  /\ UNCHANGED <<n, i, nll, msum, s_nll, s_mask, loss>>

Step(t) ==
  Gather(t) \/ Store(t) \/ AddNll(t) \/ AddMask(t) \/ Idle(t) \/ Publish(t)

Next == Sync \/ \E t \in Thread : Step(t)

Spec == Init /\ [][Next]_vars

(* The hardware runs every thread of a resident block that can run.        *)
Fairness == WF_vars(Sync) /\ \A t \in Thread : WF_vars(Step(t))
FairSpec == Spec /\ Fairness

-----------------------------------------------------------------------------
Labels == {"gather", "stored", "level", "mask", "levelled", "done"}

(* All threads are in one phase of the kernel: a level's offset is common  *)
(* to them, and none of them is a barrier ahead of another.                *)
TypeOK ==
  /\ n \in RowCounts
  /\ pc \in [Thread -> Labels]
  /\ i \in [Thread -> Nat]
  /\ off \in [Thread -> 0 .. Threads \div 2]
  /\ \A t, u \in Thread : off[t] = off[u]

(* Whether a thread's next step writes, or reads, cell c of an array.      *)
Writes(t, array, c) ==
  /\ c = t
  /\ \/ pc[t] = "gather" /\ i[t] >= n
     \/ array = "s_nll" /\ pc[t] = "level" /\ t < off[t]
     \/ array = "s_mask" /\ pc[t] = "mask"

Reads(t, array, c) ==
  \/ array = "s_nll" /\ pc[t] = "level" /\ t < off[t] /\ c \in {t, t + off[t]}
  \/ array = "s_mask" /\ pc[t] = "mask" /\ c \in {t, t + off[t]}
  \/ pc[t] = "level" /\ t = 0 /\ off[t] = 0 /\ c = 0

(* No thread writes a shared cell that another is about to read or write,  *)
(* and none reads past the arrays: between two barriers the threads touch  *)
(* disjoint cells, so the order they run in cannot show in the sums.       *)
RaceFree ==
  \A t, u \in Thread, array \in {"s_nll", "s_mask"}, c \in 0 .. 2 * Threads :
    /\ Reads(t, array, c) => c \in Thread
    /\ t # u /\ Writes(t, array, c) => ~Reads(u, array, c) /\ ~Writes(u, array, c)

(* What the kernel computes, one thread after the other: the sum of the    *)
(* first k rows of a thread's share, and the sums of the tree that are left*)
(* when its levels have come down to some width.                           *)
RowSum(t, k) ==
  LET sum[j \in 0 .. k] ==
        IF j = 0 THEN Zero ELSE Plus(sum[j - 1], Row(t + (j - 1) * Threads))
  IN sum[k]

Share(rows, t) ==
  RowSum(t, IF t >= rows THEN 0 ELSE (rows - 1 - t) \div Threads + 1)

Sums(rows, width) ==
  LET sum[w \in 1 .. Threads] ==
        IF 2 * w > Threads THEN [t \in 0 .. w - 1 |-> Share(rows, t)]
        ELSE [t \in 0 .. w - 1 |-> Plus(sum[2 * w][t], sum[2 * w][t + w])]
  IN sum[width]

Tree(rows) == Sums(rows, 1)[0]

(* Invariant 5, "same bits every run": whatever order the threads run in,  *)
(* the published loss is the quotient of one fixed pair of expressions.    *)
FixedOrder ==
  pc[0] = "done" => loss = [nll |-> Tree(n), mask |-> Tree(n)]

(* No thread waits for ever at a barrier that another does not reach.      *)
Terminates == <>(\A t \in Thread : pc[t] = "done")
=============================================================================
