------------------------- MODULE BlockReduceProofs -------------------------
(***************************************************************************)
(* Proofs about BlockReduce, for a block of any size: the barriers keep the*)
(* threads in one phase of the kernel, so no two of them race.             *)
(***************************************************************************)
EXTENDS BlockReduce, DataFacts, TLAPS

(* The inductive invariant: all threads are before the first barrier, or   *)
(* all are in one level of the tree, or all are past the last one; and the *)
(* ones that are adding are those below the offset of the level.           *)
Gathering == \A t \in Thread : pc[t] \in {"gather", "stored"}
Levelling == \A t \in Thread : /\ off[t] > 0
                               /\ pc[t] \in {"level", "mask", "levelled"}
                               /\ pc[t] = "mask" => t < off[t]
Finished == \A t \in Thread : off[t] = 0 /\ pc[t] \in {"level", "done"}

IInv == TypeOK /\ (Gathering \/ Levelling \/ Finished)

LEMMA Halves ==
  ASSUME NEW k \in Nat
  PROVE  k \div 2 \in Nat /\ 2 * (k \div 2) <= k
OBVIOUS

LEMMA InitIInv == Init => IInv
<1> SUFFICES ASSUME Init PROVE IInv
  OBVIOUS
<1>1. Threads \div 2 \in 0 .. Threads \div 2
  BY BlockReduceAssumption, Halves
<1>2. Thread \subseteq Nat
  BY BlockReduceAssumption DEF Thread
<1>3. TypeOK
  BY <1>1, <1>2 DEF Init, TypeOK, Labels
<1>4. Gathering
  BY DEF Init, Gathering
<1> QED BY <1>3, <1>4 DEF IInv

(* The steps of one thread.                                                *)
LEMMA StepKeepsIInv ==
  ASSUME IInv, NEW t \in Thread, Step(t)
  PROVE  IInv'
<1>1. CASE Gather(t)
  <2>1. UNCHANGED <<n, pc, off>> /\ i' = [i EXCEPT ![t] = @ + Threads]
    BY <1>1 DEF Gather
  <2>2. i' \in [Thread -> Nat]
    BY <2>1, BlockReduceAssumption DEF IInv, TypeOK
  <2>3. TypeOK'
    BY <2>1, <2>2 DEF IInv, TypeOK
  <2> QED BY <2>1, <2>3 DEF IInv, Gathering, Levelling, Finished
<1>2. CASE Store(t)
  <2>1. UNCHANGED <<n, i, off>> /\ pc' = [pc EXCEPT ![t] = "stored"] /\ pc[t] = "gather"
    BY <1>2 DEF Store, Goto
  <2>2. TypeOK'
    BY <2>1 DEF IInv, TypeOK, Labels
  <2>3. Gathering
    BY <2>1 DEF IInv, Levelling, Finished
  <2>4. Gathering'
    BY <2>1, <2>3 DEF IInv, TypeOK, Gathering
  <2> QED BY <2>2, <2>4 DEF IInv
<1>3. CASE AddNll(t)
  <2>1. /\ UNCHANGED <<n, i, off>> /\ pc' = [pc EXCEPT ![t] = "mask"]
        /\ pc[t] = "level" /\ t < off[t]
    BY <1>3 DEF AddNll, Goto
  <2>2. TypeOK'
    BY <2>1 DEF IInv, TypeOK, Labels
  <2>3. Levelling
    BY <2>1, BlockReduceAssumption DEF IInv, Gathering, Finished, Thread
  <2>4. Levelling'
    BY <2>1, <2>3 DEF IInv, TypeOK, Levelling
  <2> QED BY <2>2, <2>4 DEF IInv
<1>4. CASE AddMask(t)
  <2>1. UNCHANGED <<n, i, off>> /\ pc' = [pc EXCEPT ![t] = "levelled"] /\ pc[t] = "mask"
    BY <1>4 DEF AddMask, Goto
  <2>2. TypeOK'
    BY <2>1 DEF IInv, TypeOK, Labels
  <2>3. Levelling
    BY <2>1 DEF IInv, Gathering, Finished
  <2>4. Levelling'
    BY <2>1, <2>3 DEF IInv, TypeOK, Levelling
  <2> QED BY <2>2, <2>4 DEF IInv
<1>5. CASE Idle(t)
  <2>1. /\ UNCHANGED <<n, i, off>> /\ pc' = [pc EXCEPT ![t] = "levelled"]
        /\ pc[t] = "level" /\ off[t] > 0
    BY <1>5 DEF Idle, Goto
  <2>2. TypeOK'
    BY <2>1 DEF IInv, TypeOK, Labels
  <2>3. Levelling
    BY <2>1 DEF IInv, Gathering, Finished
  <2>4. Levelling'
    BY <2>1, <2>3 DEF IInv, TypeOK, Levelling
  <2> QED BY <2>2, <2>4 DEF IInv
<1>6. CASE Publish(t)
  <2>1. /\ UNCHANGED <<n, i, off>> /\ pc' = [pc EXCEPT ![t] = "done"]
        /\ pc[t] = "level" /\ off[t] = 0
    BY <1>6 DEF Publish, Goto
  <2>2. TypeOK'
    BY <2>1 DEF IInv, TypeOK, Labels
  <2>3. Finished
    BY <2>1 DEF IInv, Gathering, Levelling
  <2>4. Finished'
    BY <2>1, <2>3 DEF IInv, TypeOK, Finished
  <2> QED BY <2>2, <2>4 DEF IInv
<1> QED BY <1>1, <1>2, <1>3, <1>4, <1>5, <1>6 DEF Step

(* The barrier: all threads enter the next level together.                 *)
LEMMA SyncKeepsIInv ==
  ASSUME IInv, Sync
  PROVE  IInv'
<1>1. /\ \A t \in Thread : pc[t] \in {"stored", "levelled"}
      /\ pc' = [t \in Thread |-> "level"]
      /\ off' = [t \in Thread |-> IF pc[t] = "levelled" THEN off[t] \div 2 ELSE off[t]]
      /\ UNCHANGED <<n, i>>
  BY DEF Sync, Waiting
<1>2. \A t \in Thread : off[t] \in Nat /\ off[t] <= Threads \div 2
  BY BlockReduceAssumption, Halves DEF IInv, TypeOK
<1>3. \/ \A t \in Thread : pc[t] = "stored"
      \/ \A t \in Thread : pc[t] = "levelled"
  BY <1>1 DEF IInv, Gathering, Levelling, Finished
<1>4. \A t \in Thread : off'[t] \in Nat /\ off'[t] <= Threads \div 2
  BY <1>1, <1>2, BlockReduceAssumption, Halves
<1>5. \A t, u \in Thread : off'[t] = off'[u]
  BY <1>1, <1>3 DEF IInv, TypeOK
<1>6. TypeOK'
  <2>1. off' \in [Thread -> 0 .. Threads \div 2]
    BY <1>1, <1>4, BlockReduceAssumption, Halves
  <2> QED BY <1>1, <1>5, <2>1 DEF IInv, TypeOK, Labels
<1>7. Levelling' \/ Finished'
  <2>1. \A t \in Thread : pc'[t] = "level"
    BY <1>1
  <2>2. 0 \in Thread
    BY BlockReduceAssumption DEF Thread
  <2>3. CASE off'[0] = 0
    BY <1>5, <2>1, <2>2, <2>3 DEF Finished
  <2>4. CASE off'[0] # 0
    <3>1. \A t \in Thread : off'[t] > 0
      BY <1>4, <1>5, <2>2, <2>4
    <3> QED BY <2>1, <3>1 DEF Levelling
  <2> QED BY <2>3, <2>4
<1> QED BY <1>6, <1>7 DEF IInv

LEMMA SpecIInv == Spec => []IInv
<1>1. IInv /\ [Next]_vars => IInv'
  <2> SUFFICES ASSUME IInv, [Next]_vars PROVE IInv'
    OBVIOUS
  <2>1. CASE UNCHANGED vars
    BY <2>1 DEF vars, IInv, TypeOK, Gathering, Levelling, Finished
  <2> QED BY <2>1, SyncKeepsIInv, StepKeepsIInv DEF Next
<1> QED BY InitIInv, <1>1, PTL DEF Spec

(* The threads are in step: one level's offset is common to all of them.   *)
THEOREM BlockReduceTypeOK == Spec => []TypeOK
<1>1. IInv => TypeOK
  BY DEF IInv
<1> QED BY <1>1, SpecIInv, PTL

(* The reduction has no data race, whatever the size of the block.         *)
THEOREM BlockReduceRaceFree == Spec => []RaceFree
<1>1. ASSUME IInv, NEW t \in Thread, NEW array \in {"s_nll", "s_mask"},
             NEW c \in 0 .. 2 * Threads, Reads(t, array, c)
      PROVE  c \in Thread
  <2>1. t \in Nat /\ t < Threads /\ Threads \in Nat /\ 0 \in Thread
    BY BlockReduceAssumption DEF Thread
  <2>2. off[t] \in Nat /\ 2 * off[t] <= Threads
    <3>1. off[t] \in Nat /\ off[t] <= Threads \div 2
      BY <1>1, BlockReduceAssumption, Halves DEF IInv, TypeOK
    <3> QED BY <2>1, <3>1, Halves
  <2>3. pc[t] = "mask" => t < off[t]
    BY <1>1 DEF IInv, Gathering, Levelling, Finished
  <2>4. c = t \/ c = 0 \/ (t < off[t] /\ c = t + off[t])
    BY <1>1, <2>3 DEF Reads
  <2> QED BY <2>1, <2>2, <2>4 DEF Thread
<1>2. ASSUME IInv, NEW t \in Thread, NEW u \in Thread, t # u,
             NEW array \in {"s_nll", "s_mask"}, NEW c \in 0 .. 2 * Threads,
             Writes(t, array, c)
      PROVE  ~Reads(u, array, c) /\ ~Writes(u, array, c)
  <2>1. /\ t \in Nat /\ u \in Nat /\ off[t] = off[u] /\ off[u] \in Nat
    BY <1>2, BlockReduceAssumption, Halves DEF IInv, TypeOK, Thread
  <2>2. c = t
    BY <1>2 DEF Writes
  <2>3. ~Writes(u, array, c)
    BY <1>2, <2>2 DEF Writes
  <2>4. CASE Gathering
    <3>1. pc[u] \in {"gather", "stored"}
      BY <2>4 DEF Gathering
    <3> QED BY <2>3, <3>1 DEF Reads
  <2>5. CASE Levelling
    <3>1. t < off[t]
      BY <1>2, <2>5 DEF Writes, Levelling
    <3>2. c # u /\ c # u + off[u] /\ off[u] # 0
      BY <1>2, <2>1, <2>2, <3>1
    <3> QED BY <2>3, <3>2 DEF Reads
  <2>6. CASE Finished
    <3>1. off[t] = 0 /\ pc[t] \in {"level", "done"}
      BY <2>6 DEF Finished
    <3>2. ~(t < off[t])
      BY <2>1, <3>1
    <3> QED BY <1>2, <3>1, <3>2 DEF Writes
  <2> QED BY <1>2, <2>3, <2>4, <2>5, <2>6 DEF IInv
<1>3. IInv => RaceFree
  BY <1>1, <1>2 DEF RaceFree
<1> QED BY <1>3, SpecIInv, PTL
-----------------------------------------------------------------------------
(* The sums.  A sum over the first k rows of a share exists for every k, by*)
(* induction, and grows by one row at the right.                           *)
Adds(g, t, k) ==
  g = [j \in 0 .. k |->
         IF j = 0 THEN Zero ELSE Plus(g[j - 1], Row(t + (j - 1) * Threads))]

LEMMA SharesAdded ==
  ASSUME NEW t
  PROVE  \A k \in Nat : \E g : Adds(g, t, k)
<1> DEFINE S == {k \in Nat : \E g : Adds(g, t, k)}
<1>1. 0 \in S
  <2>1. Adds([j \in 0 .. 0 |-> Zero], t, 0)
    BY DEF Adds
  <2> QED BY <2>1
<1>2. ASSUME NEW k \in Nat, k \in S  PROVE k + 1 \in S
  <2>1. PICK g : Adds(g, t, k)
    BY <1>2
  <2> DEFINE h == [j \in 0 .. k + 1 |->
                     IF j = k + 1 THEN Plus(g[k], Row(t + k * Threads)) ELSE g[j]]
  <2>2. ASSUME NEW j \in 0 .. k + 1
        PROVE  h[j] = IF j = 0 THEN Zero
                      ELSE Plus(h[j - 1], Row(t + (j - 1) * Threads))
    <3>1. CASE j = k + 1
      <4>1. j # 0 /\ j - 1 = k /\ h[k] = g[k]
        BY <3>1
      <4>2. h[j] = Plus(g[k], Row(t + k * Threads))
        BY <3>1
      <4> HIDE DEF h
      <4> QED BY <4>1, <4>2
    <3>2. CASE j # k + 1
      <4>1. j \in 0 .. k /\ (j # 0 => j - 1 \in 0 .. k /\ j - 1 # k + 1)
        BY <3>2
      <4>2. g[j] = IF j = 0 THEN Zero
                   ELSE Plus(g[j - 1], Row(t + (j - 1) * Threads))
        BY <2>1, <4>1 DEF Adds
      <4>3. h[j] = g[j] /\ (j # 0 => h[j - 1] = g[j - 1])
        BY <3>2, <4>1
      <4> QED BY <4>2, <4>3
    <3> QED BY <3>1, <3>2
  <2>3. h = [j \in 0 .. k + 1 |-> h[j]]
    OBVIOUS
  <2> HIDE DEF h
  <2>4. Adds(h, t, k + 1)
    BY <2>2, <2>3 DEF Adds
  <2> QED BY <2>4
<1> HIDE DEF S
<1>3. Nat \subseteq S
  BY <1>1, <1>2, SetInduction
<1> QED BY <1>3 DEF S

LEMMA RowSumIs ==
  ASSUME NEW t, NEW k \in Nat
  PROVE  \E g : Adds(g, t, k) /\ RowSum(t, k) = g[k]
<1> DEFINE sum[j \in 0 .. k] ==
             IF j = 0 THEN Zero ELSE Plus(sum[j - 1], Row(t + (j - 1) * Threads))
<1>1. \E g : Adds(g, t, k)
  <2> HIDE DEF sum
  <2> QED BY SharesAdded
<1>2. Adds(sum, t, k)
  BY <1>1 DEF Adds
<1>3. RowSum(t, k) = sum[k]
  BY DEF RowSum
<1> HIDE DEF sum
<1> QED BY <1>2, <1>3

(* There is only one such function, so a longer one continues it.          *)
LEMMA AddsAgree ==
  ASSUME NEW t, NEW k \in Nat, NEW m \in Nat, k <= m, NEW g, NEW h,
         Adds(g, t, k), Adds(h, t, m)
  PROVE  h[k] = g[k]
<1> DEFINE S == {j \in Nat : j <= k => h[j] = g[j]}
<1>1. 0 \in S
  BY DEF Adds
<1>2. ASSUME NEW j \in Nat, j \in S  PROVE j + 1 \in S
  <2>1. CASE j + 1 <= k
    <3>1. j + 1 \in 0 .. k /\ j + 1 \in 0 .. m /\ j + 1 # 0 /\ j + 1 - 1 = j
      BY <2>1
    <3>2. g[j + 1] = Plus(g[j], Row(t + j * Threads))
      BY <3>1 DEF Adds
    <3>3. h[j + 1] = Plus(h[j], Row(t + j * Threads))
      BY <3>1 DEF Adds
    <3>4. h[j] = g[j]
      BY <1>2, <2>1
    <3>5. h[j + 1] = g[j + 1]
      BY <3>2, <3>3, <3>4
    <3> QED BY <3>5
  <2> QED BY <2>1
<1> HIDE DEF S
<1>3. Nat \subseteq S
  BY <1>1, <1>2, SetInduction
<1> QED BY <1>3 DEF S

LEMMA RowSumSteps ==
  ASSUME NEW t
  PROVE  /\ RowSum(t, 0) = Zero
         /\ \A k \in Nat : RowSum(t, k + 1) = Plus(RowSum(t, k), Row(t + k * Threads))
<1>1. RowSum(t, 0) = Zero
  <2>1. PICK g : Adds(g, t, 0) /\ RowSum(t, 0) = g[0]
    BY RowSumIs
  <2> QED BY <2>1 DEF Adds
<1>2. ASSUME NEW k \in Nat
      PROVE  RowSum(t, k + 1) = Plus(RowSum(t, k), Row(t + k * Threads))
  <2>1. PICK g : Adds(g, t, k) /\ RowSum(t, k) = g[k]
    BY RowSumIs
  <2>2. PICK h : Adds(h, t, k + 1) /\ RowSum(t, k + 1) = h[k + 1]
    BY RowSumIs
  <2>3. h[k] = g[k]
    BY <2>1, <2>2, AddsAgree
  <2>4. h[k + 1] = Plus(h[k], Row(t + k * Threads))
    <3>1. k + 1 \in 0 .. k + 1 /\ k + 1 # 0 /\ k + 1 - 1 = k
      OBVIOUS
    <3> QED BY <2>2, <3>1 DEF Adds
  <2> QED BY <2>1, <2>2, <2>3, <2>4
<1> QED BY <1>1, <1>2

(* The levels of the tree, from the widest down.                           *)
LevelOf(rows, g, w) ==
  IF 2 * w > Threads THEN [t \in 0 .. w - 1 |-> Share(rows, t)]
  ELSE [t \in 0 .. w - 1 |-> Plus(g[2 * w][t], g[2 * w][t + w])]

DownTo(rows, g, low) == \A w \in low .. Threads : g[w] = LevelOf(rows, g, w)

LEMMA LevelsDown ==
  ASSUME NEW rows
  PROVE  \A k \in Nat : k < Threads => \E g : DownTo(rows, g, Threads - k)
<1> DEFINE S == {k \in Nat : k < Threads => \E g : DownTo(rows, g, Threads - k)}
<1>0. Threads \in Nat \ {0}
  BY BlockReduceAssumption
<1>1. 0 \in S
  <2> DEFINE h == [w \in {Threads} |-> [t \in 0 .. w - 1 |-> Share(rows, t)]]
  <2>1. h[Threads] = [t \in 0 .. Threads - 1 |-> Share(rows, t)]
    OBVIOUS
  <2> HIDE DEF h
  <2>2. DownTo(rows, h, Threads)
    BY <1>0, <2>1 DEF DownTo, LevelOf
  <2>3. Threads - 0 = Threads
    BY <1>0
  <2> QED BY <2>2, <2>3
<1>2. ASSUME NEW k \in Nat, k \in S  PROVE k + 1 \in S
  <2> SUFFICES ASSUME k + 1 < Threads
               PROVE  \E h : DownTo(rows, h, Threads - (k + 1))
    OBVIOUS
  <2>1. PICK g : DownTo(rows, g, Threads - k)
    BY <1>0, <1>2
  <2> DEFINE low == Threads - (k + 1)
             wider == LevelOf(rows, g, low)
             h == [w \in low .. Threads |-> IF w = low THEN wider ELSE g[w]]
  <2>2. low \in Nat \ {0} /\ low < Threads /\ low + 1 = Threads - k
    BY <1>0
  <2>3. h[low] = wider /\ \A w \in low + 1 .. Threads : h[w] = g[w]
    <3> HIDE DEF wider, low
    <3>1. low \in low .. Threads
      BY <1>0, <2>2
    <3>2. \A w \in low + 1 .. Threads : w \in low .. Threads /\ w # low
      BY <1>0, <2>2
    <3>3. h[low] = wider
      BY <3>1
    <3>4. ASSUME NEW w \in low + 1 .. Threads  PROVE h[w] = g[w]
      BY <3>2
    <3> QED BY <3>3, <3>4
  <2> HIDE DEF h
  <2>4. ASSUME NEW w \in low .. Threads
        PROVE  h[w] = LevelOf(rows, h, w)
    <3> HIDE DEF low
    <3>1. w \in Nat \ {0} /\ (2 * w <= Threads => 2 * w \in low + 1 .. Threads)
      BY <1>0, <2>2
    <3>2. LevelOf(rows, h, w) = LevelOf(rows, g, w)
      <4>1. CASE 2 * w > Threads
        BY <4>1 DEF LevelOf
      <4>2. CASE ~(2 * w > Threads)
        <5>1. h[2 * w] = g[2 * w]
          BY <1>0, <2>3, <3>1, <4>2
        <5> QED BY <4>2, <5>1 DEF LevelOf
      <4> QED BY <4>1, <4>2
    <3>3. CASE w = low
      BY <2>3, <3>2, <3>3
    <3>4. CASE w # low
      <4>1. w \in low + 1 .. Threads
        BY <1>0, <2>2, <3>4
      <4>2. g[w] = LevelOf(rows, g, w)
        BY <2>1, <2>2, <4>1 DEF DownTo
      <4> QED BY <2>3, <3>2, <4>1, <4>2
    <3> QED BY <3>3, <3>4
  <2>5. DownTo(rows, h, low)
    BY <2>4 DEF DownTo
  <2> QED BY <2>5
<1> HIDE DEF S
<1>3. Nat \subseteq S
  BY <1>1, <1>2, SetInduction
<1> QED BY <1>3 DEF S

LEMMA SumsSteps ==
  ASSUME NEW rows, NEW w \in 1 .. Threads
  PROVE  Sums(rows, w) =
           IF 2 * w > Threads THEN [t \in 0 .. w - 1 |-> Share(rows, t)]
           ELSE [t \in 0 .. w - 1 |->
                   Plus(Sums(rows, 2 * w)[t], Sums(rows, 2 * w)[t + w])]
<1> DEFINE sum[v \in 1 .. Threads] ==
             IF 2 * v > Threads THEN [t \in 0 .. v - 1 |-> Share(rows, t)]
             ELSE [t \in 0 .. v - 1 |-> Plus(sum[2 * v][t], sum[2 * v][t + v])]
<1>0. Threads \in Nat \ {0}
  BY BlockReduceAssumption
<1>1. \E g : g = [v \in 1 .. Threads |-> LevelOf(rows, g, v)]
  <2> HIDE DEF sum
  <2>1. Threads - 1 \in Nat /\ Threads - (Threads - 1) = 1
    BY <1>0
  <2>2. PICK h : DownTo(rows, h, 1)
    <3> QED BY <1>0, <2>1, LevelsDown
  <2> DEFINE g == [v \in 1 .. Threads |-> h[v]]
  <2>3. \A v \in 1 .. Threads : g[v] = h[v]
    OBVIOUS
  <2>4. g = [v \in 1 .. Threads |-> g[v]]
    OBVIOUS
  <2> HIDE DEF g
  <2>5. ASSUME NEW v \in 1 .. Threads  PROVE g[v] = LevelOf(rows, g, v)
    <3>1. h[v] = LevelOf(rows, h, v)
      BY <2>2 DEF DownTo
    <3>2. LevelOf(rows, g, v) = LevelOf(rows, h, v)
      <4>1. CASE 2 * v > Threads
        BY <4>1 DEF LevelOf
      <4>2. CASE ~(2 * v > Threads)
        <5>1. 2 * v \in 1 .. Threads
          BY <1>0, <4>2
        <5>2. g[2 * v] = h[2 * v]
          BY <2>3, <5>1
        <5> QED BY <4>2, <5>2 DEF LevelOf
      <4> QED BY <4>1, <4>2
    <3> QED BY <2>3, <3>1, <3>2
  <2>6. g = [v \in 1 .. Threads |-> LevelOf(rows, g, v)]
    BY <2>4, <2>5
  <2> QED BY <2>6
<1>2. sum = [v \in 1 .. Threads |-> LevelOf(rows, sum, v)]
  BY <1>1 DEF LevelOf
<1>3. \A v : Sums(rows, v) = sum[v]
  BY DEF Sums
<1> HIDE DEF sum
<1>4. Sums(rows, w) = LevelOf(rows, sum, w)
  BY <1>2, <1>3
<1> QED BY <1>3, <1>4 DEF LevelOf

LEMMA ShareIs ==
  ASSUME NEW rows \in Nat, NEW t \in Thread, NEW k \in Nat,
         t + k * Threads >= rows, k > 0 => t + (k - 1) * Threads < rows
  PROVE  Share(rows, t) = RowSum(t, k)
<1>1. Threads \in Nat \ {0} /\ t \in Nat
  BY BlockReduceAssumption DEF Thread
<1>2. CASE k = 0
  BY <1>1, <1>2 DEF Share
<1>3. CASE k # 0
  <2> DEFINE last == rows - 1 - t
             low == (k - 1) * Threads
  <2>1. low \in Nat /\ k * Threads = low + Threads
    BY <1>1, <1>3
  <2>2. ~(t >= rows) /\ last \in Nat /\ low <= last /\ last < low + Threads
    <3> HIDE DEF low
    <3>1. t + low < rows /\ t + (low + Threads) >= rows
      BY <1>3, <2>1 DEF low
    <3> QED BY <1>1, <2>1, <3>1
  <2> HIDE DEF last
  <2>3. last \div Threads = k - 1
    <3>1. last - low \in 0 .. Threads - 1
      <4> HIDE DEF low
      <4> QED BY <1>1, <2>1, <2>2
    <3>2. last = (k - 1) * Threads + (last - low)
      BY <1>1, <2>1, <2>2
    <3> DEFINE q == k - 1
               r == last - low
    <3> HIDE DEF low, q, r
    <3>3. q \in Nat /\ r \in 0 .. Threads - 1 /\ last = q * Threads + r
      BY <1>3, <3>1, <3>2 DEF q, r
    <3>4. last \div Threads = q
      BY <1>1, <2>2, <3>3, SMT
    <3> QED BY <3>4 DEF q
  <2>4. (IF t >= rows THEN 0 ELSE (rows - 1 - t) \div Threads + 1) = k
    BY <2>2, <2>3, <1>3 DEF last
  <2> QED BY <2>4 DEF Share
<1> QED BY <1>2, <1>3

(* The level before the first has every share, the next ones add the halves*)
(* of the level before them.                                               *)
LEMMA SumsWidest ==
  ASSUME NEW rows, NEW t \in Thread
  PROVE  Sums(rows, Threads)[t] = Share(rows, t)
<1>1. Threads \in 1 .. Threads /\ 2 * Threads > Threads /\ Threads \in Nat
  BY BlockReduceAssumption
<1>2. Sums(rows, Threads) = [u \in 0 .. Threads - 1 |-> Share(rows, u)]
  BY ONLY <1>1, SumsSteps
<1> QED BY <1>2 DEF Thread

LEMMA SumsHalved ==
  ASSUME NEW rows, NEW w \in Nat \ {0}, 2 * w <= Threads, NEW t \in 0 .. w - 1
  PROVE  Sums(rows, w)[t] = Plus(Sums(rows, 2 * w)[t], Sums(rows, 2 * w)[t + w])
<1>1. w \in 1 .. Threads /\ ~(2 * w > Threads)
  BY BlockReduceAssumption
<1>2. Sums(rows, w) = [u \in 0 .. w - 1 |->
                         Plus(Sums(rows, 2 * w)[u], Sums(rows, 2 * w)[u + w])]
  <2>1. Sums(rows, w) =
           IF 2 * w > Threads THEN [u \in 0 .. w - 1 |-> Share(rows, u)]
           ELSE [u \in 0 .. w - 1 |->
                   Plus(Sums(rows, 2 * w)[u], Sums(rows, 2 * w)[u + w])]
    BY <1>1, SumsSteps
  <2> QED BY <1>1, <2>1
<1> QED BY <1>2

(* The offsets of the levels: they halve exactly, down to 1.               *)
IsLevel(o) == o \in Nat \ {0} /\ 2 * o <= Threads /\ Threads % (2 * o) = 0

LEMMA FirstLevel ==
  ASSUME Threads \div 2 > 0
  PROVE  IsLevel(Threads \div 2) /\ 2 * (Threads \div 2) = Threads
<1>1. Threads \in Nat \ {0} /\ Threads >= 2
  BY BlockReduceAssumption
<1>2. Threads % Threads = 0
  BY <1>1, SMT
<1>3. Threads % 2 = 0
  BY <1>1, <1>2, BlockReduceAssumption
<1>4. 2 * (Threads \div 2) = Threads
  BY <1>1, <1>3
<1> QED BY <1>1, <1>2, <1>4 DEF IsLevel

LEMMA NextLevel ==
  ASSUME NEW o, IsLevel(o), o \div 2 > 0
  PROVE  IsLevel(o \div 2) /\ 2 * (o \div 2) = o
<1>1. /\ o \in Nat \ {0} /\ Threads \in Nat \ {0} /\ 2 * o <= Threads
      /\ Threads % (2 * o) = 0 /\ o >= 2
  BY BlockReduceAssumption DEF IsLevel
<1>2. Threads % o = 0
  <2> DEFINE q == Threads \div (2 * o)
  <2>1. q \in Nat /\ Threads = (2 * o) * q
    BY <1>1, SMT
  <2> HIDE DEF q
  <2> DEFINE p == 2 * q
  <2>2. p \in Nat /\ Threads = o * p
    BY <1>1, <2>1, SMT
  <2> HIDE DEF p
  <2>3. (o * p) % o = 0
    <3>1. o \in Nat \ {0} /\ p \in Nat
      BY <1>1, <2>2
    <3> QED BY ONLY <3>1, SMT
  <2> QED BY <2>2, <2>3
<1>3. o % 2 = 0
  BY <1>1, <1>2, BlockReduceAssumption
<1>4. 2 * (o \div 2) = o
  BY <1>1, <1>3
<1> QED BY <1>1, <1>2, <1>4 DEF IsLevel

-----------------------------------------------------------------------------
(* What the registers and the cells hold in each phase.  A thread that     *)
(* gathers has added the first k rows of its share.  During a level the    *)
(* cells below 2 * off hold the sums of that level's halves, and the ones  *)
(* whose thread has added hold the sum of the two.                         *)
Gathered(t, k) ==
  /\ i[t] = t + k * Threads
  /\ k > 0 => t + (k - 1) * Threads < n
  /\ nll[t] = RowSum(t, k) /\ msum[t] = RowSum(t, k)

Stored(t) == s_nll[t] = Share(n, t) /\ s_mask[t] = Share(n, t)

Cell(added, o, t) == IF added THEN Sums(n, o)[t] ELSE Sums(n, 2 * o)[t]

Halved(t) ==
  t < 2 * off[t] =>
    /\ s_nll[t] = Cell(t < off[t] /\ pc[t] \in {"mask", "levelled"}, off[t], t)
    /\ s_mask[t] = Cell(t < off[t] /\ pc[t] = "levelled", off[t], t)

Arrays ==
  /\ nll = [t \in Thread |-> nll[t]]
  /\ msum = [t \in Thread |-> msum[t]]
  /\ s_nll = [t \in Thread |-> s_nll[t]]
  /\ s_mask = [t \in Thread |-> s_mask[t]]

GatherSums ==
  Gathering => \A t \in Thread :
    /\ off[t] = Threads \div 2
    /\ pc[t] = "gather" => \E k \in Nat : Gathered(t, k)
    /\ pc[t] = "stored" => Stored(t)

LevelSums == Levelling => \A t \in Thread : IsLevel(off[t]) /\ Halved(t)

FinalSums ==
  Finished => /\ s_nll[0] = Tree(n) /\ s_mask[0] = Tree(n)
              /\ FixedOrder

SumsInv == IInv /\ Arrays /\ GatherSums /\ LevelSums /\ FinalSums

(* The three phases exclude one another.                                   *)
LEMMA OnePhase ==
  /\ Gathering => ~Levelling /\ ~Finished
  /\ Levelling => ~Finished
<1>1. 0 \in Thread
  BY BlockReduceAssumption DEF Thread
<1> QED BY <1>1 DEF Gathering, Levelling, Finished

LEMMA InitSums == Init => SumsInv
<1> SUFFICES ASSUME Init PROVE SumsInv
  OBVIOUS
<1>1. IInv
  BY InitIInv
<1>2. Gathering
  BY DEF Init, Gathering
<1>3. Arrays
  BY DEF Init, Arrays
<1>4. ASSUME NEW t \in Thread
      PROVE  off[t] = Threads \div 2 /\ pc[t] = "gather" /\ Gathered(t, 0)
  <2>1. t \in Nat /\ Threads \in Nat
    BY BlockReduceAssumption DEF Thread
  <2>2. RowSum(t, 0) = Zero
    BY RowSumSteps
  <2>3. t + 0 * Threads = t
    BY <2>1
  <2> QED BY <2>2, <2>3 DEF Init, Gathered
<1>5. GatherSums
  BY <1>4 DEF GatherSums
<1> QED BY <1>1, <1>2, <1>3, <1>5, OnePhase DEF SumsInv, LevelSums, FinalSums

LEMMA GatherKeepsSums ==
  ASSUME SumsInv, NEW t \in Thread, Gather(t)
  PROVE  SumsInv'
<1>1. /\ UNCHANGED <<n, pc, s_nll, s_mask, off, loss>>
      /\ pc[t] = "gather" /\ i[t] < n
      /\ nll' = [nll EXCEPT ![t] = Plus(@, Row(i[t]))]
      /\ msum' = [msum EXCEPT ![t] = Plus(@, Row(i[t]))]
      /\ i' = [i EXCEPT ![t] = @ + Threads]
  BY DEF Gather
<1>2. IInv'
  BY StepKeepsIInv DEF SumsInv, Step
<1>3. Gathering /\ Gathering' /\ i \in [Thread -> Nat] /\ n \in Nat
  BY <1>1, BlockReduceAssumption
     DEF SumsInv, IInv, TypeOK, Gathering, Levelling, Finished
<1>4. Arrays'
  BY <1>1 DEF SumsInv, Arrays
<1>5. PICK k \in Nat : Gathered(t, k)
  BY <1>1, <1>3 DEF SumsInv, GatherSums
<1>6. Gathered(t, k + 1)'
  <2>1. Threads \in Nat /\ t \in Nat
    BY BlockReduceAssumption DEF Thread
  <2>2. (k + 1) * Threads = k * Threads + Threads /\ k + 1 - 1 = k
        /\ k * Threads \in Nat
    BY <2>1
  <2>3. i'[t] = t + (k + 1) * Threads
    BY <1>1, <1>3, <1>5, <2>1, <2>2 DEF Gathered
  <2>4. t + (k + 1 - 1) * Threads < n'
    BY <1>1, <1>5, <2>2 DEF Gathered
  <2>5. RowSum(t, k + 1) = Plus(RowSum(t, k), Row(t + k * Threads))
    BY RowSumSteps
  <2>6. nll'[t] = RowSum(t, k + 1) /\ msum'[t] = RowSum(t, k + 1)
    BY <1>1, <1>5, <2>5 DEF SumsInv, Arrays, Gathered
  <2> QED BY <2>3, <2>4, <2>6 DEF Gathered
<1>7. ASSUME NEW u \in Thread
      PROVE  /\ off'[u] = Threads \div 2
             /\ pc'[u] = "gather" => \E m \in Nat : Gathered(u, m)'
             /\ pc'[u] = "stored" => Stored(u)'
  <2>1. off'[u] = Threads \div 2 /\ (pc'[u] = "stored" => Stored(u)')
    BY <1>1, <1>3 DEF SumsInv, GatherSums, Stored
  <2>2. CASE u = t
    <3>1. k + 1 \in Nat
      OBVIOUS
    <3> QED BY <1>6, <2>1, <2>2, <3>1
  <2>3. CASE u # t
    <3>1. i'[u] = i[u] /\ nll'[u] = nll[u] /\ msum'[u] = msum[u]
      BY <1>1, <1>3, <2>3 DEF SumsInv, Arrays
    <3>2. \A m \in Nat : Gathered(u, m) => Gathered(u, m)'
      BY <1>1, <3>1 DEF Gathered
    <3>3. pc[u] = "gather" => \E m \in Nat : Gathered(u, m)
      BY <1>3 DEF SumsInv, GatherSums
    <3> QED BY <1>1, <2>1, <3>2, <3>3
  <2> QED BY <2>2, <2>3
<1>8. GatherSums'
  BY <1>7 DEF GatherSums
<1>9. ~Levelling' /\ ~Finished'
  <2>1. 0 \in Thread
    BY BlockReduceAssumption DEF Thread
  <2> QED BY <1>3, <2>1 DEF Gathering, Levelling, Finished
<1> QED BY <1>2, <1>4, <1>8, <1>9 DEF SumsInv, LevelSums, FinalSums

LEMMA StoreKeepsSums ==
  ASSUME SumsInv, NEW t \in Thread, Store(t)
  PROVE  SumsInv'
<1>1. /\ UNCHANGED <<n, i, nll, msum, off, loss>>
      /\ pc[t] = "gather" /\ i[t] >= n
      /\ s_nll' = [s_nll EXCEPT ![t] = nll[t]]
      /\ s_mask' = [s_mask EXCEPT ![t] = msum[t]]
      /\ pc' = [pc EXCEPT ![t] = "stored"]
  BY DEF Store, Goto
<1>2. IInv'
  BY StepKeepsIInv DEF SumsInv, Step
<1>3. Gathering /\ n \in Nat /\ pc \in [Thread -> Labels]
  BY <1>1, BlockReduceAssumption
     DEF SumsInv, IInv, TypeOK, Gathering, Levelling, Finished
<1>4. Gathering'
  BY <1>1, <1>3 DEF Gathering
<1>5. Arrays'
  BY <1>1 DEF SumsInv, Arrays
<1>6. PICK k \in Nat : Gathered(t, k)
  BY <1>1, <1>3 DEF SumsInv, GatherSums
<1>7. Stored(t)'
  <2>1. Share(n, t) = RowSum(t, k)
    BY <1>1, <1>3, <1>6, ShareIs DEF Gathered
  <2>2. s_nll'[t] = nll[t] /\ s_mask'[t] = msum[t]
    BY <1>1 DEF SumsInv, Arrays
  <2> QED BY <1>1, <1>6, <2>1, <2>2 DEF Gathered, Stored
<1>8. ASSUME NEW u \in Thread
      PROVE  /\ off'[u] = Threads \div 2
             /\ pc'[u] = "gather" => \E m \in Nat : Gathered(u, m)'
             /\ pc'[u] = "stored" => Stored(u)'
  <2>1. off'[u] = Threads \div 2
    BY <1>1, <1>3 DEF SumsInv, GatherSums
  <2>2. CASE u = t
    BY <1>1, <1>3, <1>7, <2>1, <2>2
  <2>3. CASE u # t
    <3>1. pc'[u] = pc[u] /\ s_nll'[u] = s_nll[u] /\ s_mask'[u] = s_mask[u]
      BY <1>1, <1>3, <2>3 DEF SumsInv, Arrays
    <3>2. \A m \in Nat : Gathered(u, m) => Gathered(u, m)'
      BY <1>1 DEF Gathered
    <3>3. Stored(u) => Stored(u)'
      BY <1>1, <3>1 DEF Stored
    <3>4. /\ pc[u] = "gather" => \E m \in Nat : Gathered(u, m)
          /\ pc[u] = "stored" => Stored(u)
      BY <1>3 DEF SumsInv, GatherSums
    <3> QED BY <2>1, <3>1, <3>2, <3>3, <3>4
  <2> QED BY <2>2, <2>3
<1>9. GatherSums'
  BY <1>8 DEF GatherSums
<1>10. ~Levelling' /\ ~Finished'
  <2>1. 0 \in Thread
    BY BlockReduceAssumption DEF Thread
  <2> QED BY <1>4, <2>1 DEF Gathering, Levelling, Finished
<1> QED BY <1>2, <1>5, <1>9, <1>10 DEF SumsInv, LevelSums, FinalSums

(* A thread of a level reads the cell half a level away before its owner,  *)
(* which is idle, could have changed it.                                   *)
LEMMA AddNllKeepsSums ==
  ASSUME SumsInv, NEW t \in Thread, AddNll(t)
  PROVE  SumsInv'
<1>1. /\ UNCHANGED <<n, i, nll, msum, s_mask, off, loss>>
      /\ pc[t] = "level" /\ t < off[t]
      /\ s_nll' = [s_nll EXCEPT ![t] = Plus(@, s_nll[t + off[t]])]
      /\ pc' = [pc EXCEPT ![t] = "mask"]
  BY DEF AddNll, Goto
<1>2. IInv'
  BY StepKeepsIInv DEF SumsInv, Step
<1>3. Levelling /\ pc \in [Thread -> Labels] /\ \A u \in Thread : off[u] = off[t]
  <2>1. ~Gathering
    BY <1>1 DEF Gathering
  <2>2. ~Finished
    BY <1>1, BlockReduceAssumption DEF Finished, Thread
  <2> QED BY <2>1, <2>2 DEF SumsInv, IInv, TypeOK
<1>4. Levelling'
  BY <1>1, <1>3 DEF Levelling
<1>5. Arrays'
  BY <1>1 DEF SumsInv, Arrays
<1>6. IsLevel(off[t]) /\ \A u \in Thread : Halved(u)
  BY <1>3 DEF SumsInv, LevelSums
<1> DEFINE o == off[t]
<1>7. /\ t \in Nat /\ o \in Nat \ {0} /\ 2 * o <= Threads /\ Threads \in Nat
      /\ t + o \in Thread /\ t < 2 * o /\ ~(t + o < o) /\ t + o < 2 * o
      /\ t \in 0 .. o - 1
  BY <1>1, <1>6, BlockReduceAssumption DEF IsLevel, Thread
<1>8. s_nll[t] = Sums(n, 2 * o)[t]
  BY <1>1, <1>6, <1>7 DEF Halved, Cell
<1>9. s_nll[t + o] = Sums(n, 2 * o)[t + o]
  <2>1. off[t + o] = o
    BY <1>3, <1>7
  <2> QED BY <1>6, <1>7, <2>1 DEF Halved, Cell
<1>10. s_nll'[t] = Sums(n, o)[t]
  <2>1. s_nll'[t] = Plus(s_nll[t], s_nll[t + o])
    BY <1>1 DEF SumsInv, Arrays
  <2>2. Sums(n, o)[t] = Plus(Sums(n, 2 * o)[t], Sums(n, 2 * o)[t + o])
    <3> HIDE DEF o
    <3> QED BY <1>7, SumsHalved
  <2> QED BY <1>8, <1>9, <2>1, <2>2
<1>11. ASSUME NEW u \in Thread  PROVE IsLevel(off'[u]) /\ Halved(u)'
  <2>1. IsLevel(off'[u]) /\ off'[u] = off[u] /\ off[u] = o
    BY <1>1, <1>3, <1>6
  <2>2. CASE u = t
    <3>1. pc'[t] = "mask"
      BY <1>1, <1>3
    <3>2. s_mask'[t] = Sums(n, 2 * o)[t]
      BY <1>1, <1>6, <1>7 DEF Halved, Cell
    <3> QED BY <1>1, <1>10, <2>1, <2>2, <3>1, <3>2 DEF Halved, Cell
  <2>3. CASE u # t
    <3>1. pc'[u] = pc[u] /\ s_nll'[u] = s_nll[u] /\ s_mask'[u] = s_mask[u]
      BY <1>1, <1>3, <2>3 DEF SumsInv, Arrays
    <3>2. Halved(u)
      BY <1>6
    <3> QED BY <1>1, <2>1, <3>1, <3>2 DEF Halved, Cell
  <2> QED BY <2>2, <2>3
<1>12. LevelSums'
  BY <1>11 DEF LevelSums
<1>13. ~Gathering' /\ ~Finished'
  <2>1. 0 \in Thread
    BY BlockReduceAssumption DEF Thread
  <2> QED BY <1>4, <2>1 DEF Gathering, Levelling, Finished
<1> QED BY <1>2, <1>5, <1>12, <1>13 DEF SumsInv, GatherSums, FinalSums

LEMMA AddMaskKeepsSums ==
  ASSUME SumsInv, NEW t \in Thread, AddMask(t)
  PROVE  SumsInv'
<1>1. /\ UNCHANGED <<n, i, nll, msum, s_nll, off, loss>>
      /\ pc[t] = "mask"
      /\ s_mask' = [s_mask EXCEPT ![t] = Plus(@, s_mask[t + off[t]])]
      /\ pc' = [pc EXCEPT ![t] = "levelled"]
  BY DEF AddMask, Goto
<1>2. IInv'
  BY StepKeepsIInv DEF SumsInv, Step
<1>3. /\ Levelling /\ pc \in [Thread -> Labels]
      /\ \A u \in Thread : off[u] = off[t]
      /\ t < off[t]
  BY <1>1, BlockReduceAssumption
     DEF SumsInv, IInv, TypeOK, Gathering, Levelling, Finished, Thread
<1>4. Levelling'
  BY <1>1, <1>3 DEF Levelling
<1>5. Arrays'
  BY <1>1 DEF SumsInv, Arrays
<1>6. IsLevel(off[t]) /\ \A u \in Thread : Halved(u)
  BY <1>3 DEF SumsInv, LevelSums
<1> DEFINE o == off[t]
<1>7. /\ t \in Nat /\ o \in Nat \ {0} /\ 2 * o <= Threads /\ Threads \in Nat
      /\ t + o \in Thread /\ t < 2 * o /\ ~(t + o < o) /\ t + o < 2 * o
      /\ t \in 0 .. o - 1
  BY <1>3, <1>6, BlockReduceAssumption DEF IsLevel, Thread
<1>8. s_mask[t] = Sums(n, 2 * o)[t] /\ s_nll[t] = Sums(n, o)[t]
  BY <1>1, <1>3, <1>6, <1>7 DEF Halved, Cell
<1>9. s_mask[t + o] = Sums(n, 2 * o)[t + o]
  <2>1. off[t + o] = o
    BY <1>3, <1>7
  <2> QED BY <1>6, <1>7, <2>1 DEF Halved, Cell
<1>10. s_mask'[t] = Sums(n, o)[t]
  <2>1. s_mask'[t] = Plus(s_mask[t], s_mask[t + o])
    BY <1>1 DEF SumsInv, Arrays
  <2>2. Sums(n, o)[t] = Plus(Sums(n, 2 * o)[t], Sums(n, 2 * o)[t + o])
    <3> HIDE DEF o
    <3> QED BY <1>7, SumsHalved
  <2> QED BY <1>8, <1>9, <2>1, <2>2
<1>11. ASSUME NEW u \in Thread  PROVE IsLevel(off'[u]) /\ Halved(u)'
  <2>1. IsLevel(off'[u]) /\ off'[u] = off[u] /\ off[u] = o
    BY <1>1, <1>3, <1>6
  <2>2. CASE u = t
    <3>1. pc'[t] = "levelled"
      BY <1>1, <1>3
    <3> QED BY <1>1, <1>3, <1>8, <1>10, <2>1, <2>2, <3>1 DEF Halved, Cell
  <2>3. CASE u # t
    <3>1. pc'[u] = pc[u] /\ s_nll'[u] = s_nll[u] /\ s_mask'[u] = s_mask[u]
      BY <1>1, <1>3, <2>3 DEF SumsInv, Arrays
    <3>2. Halved(u)
      BY <1>6
    <3> QED BY <1>1, <2>1, <3>1, <3>2 DEF Halved, Cell
  <2> QED BY <2>2, <2>3
<1>12. LevelSums'
  BY <1>11 DEF LevelSums
<1>13. ~Gathering' /\ ~Finished'
  <2>1. 0 \in Thread
    BY BlockReduceAssumption DEF Thread
  <2> QED BY <1>4, <2>1 DEF Gathering, Levelling, Finished
<1> QED BY <1>2, <1>5, <1>12, <1>13 DEF SumsInv, GatherSums, FinalSums

LEMMA IdleKeepsSums ==
  ASSUME SumsInv, NEW t \in Thread, Idle(t)
  PROVE  SumsInv'
<1>1. /\ UNCHANGED <<n, i, nll, msum, s_nll, s_mask, off, loss>>
      /\ pc[t] = "level" /\ off[t] > 0 /\ t >= off[t]
      /\ pc' = [pc EXCEPT ![t] = "levelled"]
  BY DEF Idle, Goto
<1>2. IInv'
  BY StepKeepsIInv DEF SumsInv, Step
<1>3. /\ Levelling /\ pc \in [Thread -> Labels]
      /\ off[t] \in Nat /\ t \in Nat
  BY <1>1, BlockReduceAssumption, Halves
     DEF SumsInv, IInv, TypeOK, Gathering, Levelling, Finished, Thread
<1>4. Levelling'
  BY <1>1, <1>3 DEF Levelling
<1>5. Arrays'
  BY <1>1 DEF SumsInv, Arrays
<1>6. ASSUME NEW u \in Thread  PROVE IsLevel(off'[u]) /\ Halved(u)'
  <2>1. IsLevel(off'[u]) /\ Halved(u)
    BY <1>1, <1>3 DEF SumsInv, LevelSums
  <2>2. CASE u = t
    <3>1. ~(t < off[t])
      BY <1>1, <1>3
    <3> QED BY <1>1, <2>1, <2>2, <3>1 DEF Halved, Cell
  <2>3. CASE u # t
    <3>1. pc'[u] = pc[u]
      BY <1>1, <1>3, <2>3
    <3> QED BY <1>1, <2>1, <3>1 DEF Halved, Cell
  <2> QED BY <2>2, <2>3
<1>7. LevelSums'
  BY <1>6 DEF LevelSums
<1>8. ~Gathering' /\ ~Finished'
  <2>1. 0 \in Thread
    BY BlockReduceAssumption DEF Thread
  <2> QED BY <1>4, <2>1 DEF Gathering, Levelling, Finished
<1> QED BY <1>2, <1>5, <1>7, <1>8 DEF SumsInv, GatherSums, FinalSums

LEMMA PublishKeepsSums ==
  ASSUME SumsInv, NEW t \in Thread, Publish(t)
  PROVE  SumsInv'
<1>1. /\ UNCHANGED <<n, i, nll, msum, s_nll, s_mask, off>>
      /\ pc[t] = "level" /\ off[t] = 0
      /\ loss' = IF t = 0 THEN [nll |-> s_nll[0], mask |-> s_mask[0]] ELSE loss
      /\ pc' = [pc EXCEPT ![t] = "done"]
  BY DEF Publish, Goto
<1>2. IInv'
  BY StepKeepsIInv DEF SumsInv, Step
<1>3. Finished /\ pc \in [Thread -> Labels]
  BY <1>1 DEF SumsInv, IInv, TypeOK, Gathering, Levelling, Finished
<1>4. Finished'
  BY <1>1, <1>3 DEF Finished
<1>5. Arrays'
  BY <1>1 DEF SumsInv, Arrays
<1>6. 0 \in Thread
  BY BlockReduceAssumption DEF Thread
<1>7. s_nll[0] = Tree(n) /\ s_mask[0] = Tree(n) /\ FixedOrder
  BY <1>3 DEF SumsInv, FinalSums
<1>8. FixedOrder'
  <2>1. CASE t = 0
    BY <1>1, <1>7, <2>1 DEF FixedOrder
  <2>2. CASE t # 0
    <3>1. pc'[0] = pc[0] /\ loss' = loss /\ n' = n
      BY <1>1, <1>3, <1>6, <2>2
    <3> QED BY <1>7, <3>1 DEF FixedOrder
  <2> QED BY <2>1, <2>2
<1>9. FinalSums'
  BY <1>1, <1>7, <1>8 DEF FinalSums
<1>10. ~Gathering' /\ ~Levelling'
  BY <1>4, <1>6 DEF Gathering, Levelling, Finished
<1> QED BY <1>2, <1>5, <1>9, <1>10 DEF SumsInv, GatherSums, LevelSums

(* The barrier opens the first level, the next one, or the end of the tree.*)
LEMMA SyncKeepsSums ==
  ASSUME SumsInv, Sync
  PROVE  SumsInv'
<1>1. /\ \A t \in Thread : pc[t] \in {"stored", "levelled"}
      /\ pc' = [t \in Thread |-> "level"]
      /\ off' = [t \in Thread |-> IF pc[t] = "levelled" THEN off[t] \div 2 ELSE off[t]]
      /\ UNCHANGED <<n, i, nll, msum, s_nll, s_mask, loss>>
  BY DEF Sync, Waiting
<1>2. IInv'
  BY SyncKeepsIInv DEF SumsInv
<1>3. Arrays'
  BY <1>1 DEF SumsInv, Arrays
<1>4. 0 \in Thread /\ 0 \in Nat /\ Threads \in Nat \ {0}
  BY BlockReduceAssumption DEF Thread
<1>5. ~Gathering'
  BY <1>1, <1>4 DEF Gathering
<1>6. CASE Gathering
  <2>1. \A t \in Thread : pc[t] = "stored" /\ off[t] = Threads \div 2 /\ Stored(t)
    BY <1>1, <1>6 DEF SumsInv, GatherSums, Gathering
  <2>2. \A t \in Thread : off'[t] = Threads \div 2
    BY <1>1, <2>1
  <2>3. ASSUME NEW t \in Thread
        PROVE  s_nll'[t] = Sums(n, Threads)[t] /\ s_mask'[t] = Sums(n, Threads)[t]
    BY <1>1, <2>1, SumsWidest DEF Stored
  <2>4. CASE Threads \div 2 > 0
    <3>1. IsLevel(Threads \div 2) /\ 2 * (Threads \div 2) = Threads
      BY <2>4, FirstLevel
    <3>2. ASSUME NEW t \in Thread  PROVE Halved(t)'
      BY <1>1, <2>2, <2>3, <3>1 DEF Halved, Cell
    <3>3. LevelSums'
      BY <2>2, <3>1, <3>2 DEF LevelSums
    <3>4. ~Finished'
      BY <1>4, <2>2, <2>4 DEF Finished
    <3> QED BY <1>2, <1>3, <1>5, <3>3, <3>4 DEF SumsInv, GatherSums, FinalSums
  <2>5. CASE ~(Threads \div 2 > 0)
    <3>1. Threads = 1
      BY <1>4, <2>5
    <3>2. s_nll'[0] = Tree(n) /\ s_mask'[0] = Tree(n)
      BY <1>4, <2>3, <3>1 DEF Tree
    <3>3. pc'[0] # "done" /\ n' = n
      BY <1>1, <1>4
    <3>4. FinalSums'
      BY <3>2, <3>3 DEF FinalSums, FixedOrder
    <3>5. ~Levelling'
      BY <1>4, <2>2, <2>5 DEF Levelling
    <3> QED BY <1>2, <1>3, <1>5, <3>4, <3>5 DEF SumsInv, GatherSums, LevelSums
  <2> QED BY <2>4, <2>5
<1>7. CASE Levelling
  <2> DEFINE o == off[0]
  <2>1. \A t \in Thread : pc[t] = "levelled" /\ off[t] = o /\ IsLevel(o) /\ Halved(t)
    BY <1>1, <1>4, <1>7 DEF SumsInv, IInv, TypeOK, LevelSums, Levelling
  <2>2. \A t \in Thread : off'[t] = o \div 2
    BY <1>1, <2>1
  <2>3. IsLevel(o) /\ o \in Nat \ {0}
    BY <1>4, <2>1 DEF IsLevel
  <2>4. ASSUME NEW t \in Thread, t < o
        PROVE  s_nll'[t] = Sums(n, o)[t] /\ s_mask'[t] = Sums(n, o)[t]
    <3>1. t < 2 * o /\ t \in Nat
      BY <2>3, <2>4 DEF Thread
    <3>2. pc[t] = "levelled" /\ off[t] = o /\ Halved(t)
      BY <2>1
    <3> QED BY <1>1, <2>4, <3>1, <3>2 DEF Halved, Cell
  <2>5. CASE o \div 2 > 0
    <3>1. IsLevel(o \div 2) /\ 2 * (o \div 2) = o
      <4> HIDE DEF o
      <4> QED BY <2>3, <2>5, NextLevel
    <3>2. ASSUME NEW t \in Thread  PROVE Halved(t)'
      <4>1. off'[t] = o \div 2 /\ pc'[t] = "level" /\ n' = n
        BY <1>1, <2>2
      <4> HIDE DEF o
      <4> QED BY <2>4, <3>1, <4>1 DEF Halved, Cell
    <3>3. LevelSums'
      BY <2>2, <3>1, <3>2 DEF LevelSums
    <3>4. ~Finished'
      BY <1>4, <2>2, <2>5 DEF Finished
    <3> QED BY <1>2, <1>3, <1>5, <3>3, <3>4 DEF SumsInv, GatherSums, FinalSums
  <2>6. CASE ~(o \div 2 > 0)
    <3>1. o = 1
      <4> HIDE DEF o
      <4> QED BY <2>3, <2>6
    <3>2. s_nll'[0] = Sums(n, 1)[0] /\ s_mask'[0] = Sums(n, 1)[0]
      <4> HIDE DEF o
      <4> QED BY <1>4, <2>4, <3>1
    <3>3. pc'[0] # "done" /\ n' = n
      BY <1>1, <1>4
    <3>4. FinalSums'
      BY <3>2, <3>3 DEF FinalSums, FixedOrder, Tree
    <3>5. ~Levelling'
      BY <1>4, <2>2, <2>6 DEF Levelling
    <3> QED BY <1>2, <1>3, <1>5, <3>4, <3>5 DEF SumsInv, GatherSums, LevelSums
  <2> QED BY <2>5, <2>6
<1>8. ~Finished
  BY <1>1, <1>4 DEF Finished
<1> QED BY <1>6, <1>7, <1>8 DEF SumsInv, IInv

LEMMA SpecSums == Spec => []SumsInv
<1>1. SumsInv /\ [Next]_vars => SumsInv'
  <2> SUFFICES ASSUME SumsInv, [Next]_vars PROVE SumsInv'
    OBVIOUS
  <2>1. CASE UNCHANGED vars
    <3>1. UNCHANGED <<n, pc, i, nll, msum, s_nll, s_mask, off, loss>>
      BY <2>1 DEF vars
    <3>2. IInv' /\ Arrays'
      BY <3>1 DEF SumsInv, IInv, TypeOK, Gathering, Levelling, Finished, Arrays
    <3>3. Gathering' = Gathering /\ Levelling' = Levelling /\ Finished' = Finished
      BY <3>1 DEF Gathering, Levelling, Finished
    <3>4. GatherSums'
      BY <3>1, <3>3 DEF SumsInv, GatherSums, Gathered, Stored
    <3>5. LevelSums'
      BY <3>1, <3>3 DEF SumsInv, LevelSums, Halved, Cell
    <3>6. FinalSums'
      BY <3>1, <3>3 DEF SumsInv, FinalSums, FixedOrder
    <3> QED BY <3>2, <3>4, <3>5, <3>6 DEF SumsInv
  <2> QED BY <2>1, GatherKeepsSums, StoreKeepsSums, AddNllKeepsSums, AddMaskKeepsSums,
             IdleKeepsSums, PublishKeepsSums, SyncKeepsSums DEF Next, Step
<1> QED BY InitSums, <1>1, PTL DEF Spec

(* Every order in which the threads run publishes the same two expressions:*)
(* each share summed from its first row to its last, and the shares paired *)
(* level by level.                                                         *)
THEOREM BlockReduceFixedOrder == Spec => []FixedOrder
<1>1. SumsInv => FixedOrder
  <2>1. 0 \in Thread
    BY BlockReduceAssumption DEF Thread
  <2> SUFFICES ASSUME SumsInv, pc[0] = "done"  PROVE FixedOrder
    BY DEF FixedOrder
  <2>2. Finished
    BY <2>1 DEF SumsInv, IInv, Gathering, Levelling
  <2> QED BY <2>2 DEF SumsInv, FinalSums
<1> QED BY <1>1, SpecSums, PTL
=============================================================================
