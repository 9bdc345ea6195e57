--------------------------- MODULE WarpRowProofs ---------------------------
(***************************************************************************)
(* Proofs about WarpRow, for a warp and rows of any size: the in-place     *)
(* kernels never read a column they have overwritten, and every column     *)
(* gets its result from the reductions of the original row, whatever order *)
(* the lanes run in.                                                       *)
(***************************************************************************)
EXTENDS WarpRow, DataFacts, TLAPS

(* The columns of a lane's share of the row.                               *)
Owns(l, c) == \E k \in Nat : c = l + k * Lanes

(* A column that no longer holds its element was written by the lane that  *)
(* owns it, which is in the write pass and already past it.                *)
OverwrittenByOwner ==
  \A c \in Column :
    x[c] # X(c) =>
      \E l \in Lane : pc[l] \in {"write", "done"} /\ c < i[l] /\ Owns(l, c)

Aliasing ==
  /\ Launch(row)
  /\ row.inplace => x = y
  /\ ~row.inplace => \A c \in Column : x[c] = X(c)

IInv == TypeOK /\ Aliasing /\ OverwrittenByOwner

LEMMA Halves ==
  ASSUME NEW k \in Nat
  PROVE  k \div 2 \in Nat /\ k \div 2 <= k
OBVIOUS

LEMMA Products ==
  ASSUME NEW L \in Nat \ {0}, NEW a \in Nat, NEW b \in Nat
  PROVE  /\ a * L \in Nat
         /\ (a + 1) * L = a * L + L
         /\ a < b => a * L + L <= b * L
<1>1. a * L \in Nat /\ b * L \in Nat /\ (a + 1) * L = a * L + L
  BY SMT
<1>2. ASSUME a < b PROVE a * L + L <= b * L
  <2> DEFINE d == b - a - 1
  <2>1. d \in Nat /\ b = (a + 1) + d
    BY <1>2
  <2> HIDE DEF d
  <2>2. b * L = (a + 1) * L + d * L
    BY <2>1, SMT
  <2>3. d * L \in Nat
    BY <2>1, SMT
  <2> QED BY <1>1, <2>2, <2>3
<1> QED BY <1>1, <1>2

(* A column belongs to one lane.                                           *)
LEMMA OneOwner ==
  ASSUME NEW l \in Lane, NEW k \in Lane, NEW c \in Nat, Owns(l, c), Owns(k, c)
  PROVE  l = k
<1>1. Lanes \in Nat \ {0} /\ l \in Nat /\ k \in Nat /\ l < Lanes /\ k < Lanes
  BY WarpRowAssumption DEF Lane
<1>2. PICK a \in Nat : c = l + a * Lanes
  BY DEF Owns
<1>3. PICK b \in Nat : c = k + b * Lanes
  BY DEF Owns
<1>4. a * Lanes \in Nat /\ b * Lanes \in Nat
  BY <1>1, Products
<1>5. a < b => a * Lanes + Lanes <= b * Lanes
  BY <1>1, Products
<1>6. b < a => b * Lanes + Lanes <= a * Lanes
  BY <1>1, Products
<1>7. CASE a = b
  BY <1>1, <1>2, <1>3, <1>4, <1>7
<1>8. CASE a < b
  BY <1>1, <1>2, <1>3, <1>4, <1>5, <1>8
<1>9. CASE b < a
  BY <1>1, <1>2, <1>3, <1>4, <1>6, <1>9
<1> QED BY <1>7, <1>8, <1>9

LEMMA InitIInv == Init => IInv
<1> SUFFICES ASSUME Init PROVE IInv
  OBVIOUS
<1>1. Lane \subseteq Nat /\ Lanes \in Nat \ {0}
  BY WarpRowAssumption DEF Lane
<1>2. TypeOK
  <2>1. i \in [Lane -> Nat] /\ pc \in [Lane -> Labels]
    BY <1>1 DEF Init, FirstPass, Labels
  <2>2. \A l \in Lane : \E k \in 0 .. i[l] : i[l] = l + k * Lanes
    <3> SUFFICES ASSUME NEW l \in Lane PROVE \E k \in 0 .. i[l] : i[l] = l + k * Lanes
      OBVIOUS
    <3>1. i[l] = l /\ l \in Nat /\ 0 \in 0 .. i[l] /\ l = l + 0 * Lanes
      BY <1>1 DEF Init
    <3> QED BY <3>1
  <2>3. off \in 0 .. Lanes \div 2
    BY <1>1, Halves DEF Init
  <2>4. DOMAIN x = Column /\ DOMAIN y = Column /\ row \in Launches
    BY DEF Init
  <2> QED BY <2>1, <2>2, <2>3, <2>4 DEF TypeOK
<1>3. \A c \in Column : x[c] = X(c)
  BY DEF Init
<1>4. row.inplace => x = y
  BY DEF Init
<1>5. Launch(row)
  BY DEF Init
<1> QED BY <1>2, <1>3, <1>4, <1>5 DEF IInv, Aliasing, OverwrittenByOwner

(* A lane's loop variable stays in its share when it advances.             *)
LEMMA AdvanceInShare ==
  ASSUME TypeOK, NEW l \in Lane, Advance(l)
  PROVE  /\ i' \in [Lane -> Nat]
         /\ \A t \in Lane : \E k \in 0 .. i'[t] : i'[t] = t + k * Lanes
         /\ i'[l] = i[l] + Lanes
         /\ \A t \in Lane : t # l => i'[t] = i[t]
<1>1. Lanes \in Nat \ {0} /\ i \in [Lane -> Nat] /\ l \in Nat
  BY WarpRowAssumption DEF TypeOK, Lane
<1>2. /\ i' \in [Lane -> Nat]
      /\ i'[l] = i[l] + Lanes
      /\ \A t \in Lane : t # l => i'[t] = i[t]
  BY <1>1 DEF Advance
<1>3. ASSUME NEW t \in Lane PROVE \E k \in 0 .. i'[t] : i'[t] = t + k * Lanes
  <2>1. CASE t # l
    BY <1>2, <2>1 DEF TypeOK
  <2>2. CASE t = l
    <3>1. PICK k \in 0 .. i[l] : i[l] = l + k * Lanes
      BY DEF TypeOK
    <3>2. k \in Nat /\ k <= i[l] /\ k * Lanes \in Nat /\ (k + 1) * Lanes = k * Lanes + Lanes
      BY <1>1, <3>1, Products
    <3>3. k + 1 \in 0 .. i'[l] /\ i'[l] = l + (k + 1) * Lanes
      BY <1>1, <1>2, <3>1, <3>2
    <3> QED BY <2>2, <3>3
  <2> QED BY <2>1, <2>2
<1> QED BY <1>2, <1>3

LEMMA OwnsIndex ==
  ASSUME TypeOK, NEW l \in Lane
  PROVE  Owns(l, i[l]) /\ i[l] \in Nat
<1>1. PICK k \in 0 .. i[l] : i[l] = l + k * Lanes
  BY DEF TypeOK
<1>2. i[l] \in Nat
  BY DEF TypeOK
<1> QED BY <1>1, <1>2 DEF Owns

(* Steps that leave the memory alone, and take no lane out of the write    *)
(* pass nor its loop variable back.                                        *)
LEMMA ReadingKeepsIInv ==
  ASSUME IInv, NEW l \in Lane, NEW label \in Labels,
         UNCHANGED <<row, off, x, y>>, Goto(l, label),
         pc[l] \in {"write", "done"} => label = "done",
         UNCHANGED i
  PROVE  IInv'
<1>1. TypeOK'
  BY DEF IInv, TypeOK, Goto, Column
<1>2. Aliasing'
  BY DEF IInv, Aliasing, Launch, Column, X, Term
<1>3. OverwrittenByOwner'
  <2> SUFFICES ASSUME NEW c \in Column, x[c] # X(c)
               PROVE  \E t \in Lane : pc'[t] \in {"write", "done"} /\ c < i'[t] /\ Owns(t, c)
    BY DEF OverwrittenByOwner, Column, X, Term, Owns
  <2>1. PICK t \in Lane : pc[t] \in {"write", "done"} /\ c < i[t] /\ Owns(t, c)
    BY DEF IInv, OverwrittenByOwner
  <2>2. pc'[t] \in {"write", "done"}
    BY <2>1 DEF IInv, TypeOK, Goto
  <2> QED BY <2>1, <2>2
<1> QED BY <1>1, <1>2, <1>3 DEF IInv

LEMMA AdvancingKeepsIInv ==
  ASSUME IInv, NEW l \in Lane, UNCHANGED <<row, off, x, y, pc>>, Advance(l)
  PROVE  IInv'
<1>0. TypeOK
  BY DEF IInv
<1>1. TypeOK'
  BY <1>0, AdvanceInShare DEF TypeOK, Column
<1>2. Aliasing'
  BY DEF IInv, Aliasing, Launch, Column, X, Term
<1>3. OverwrittenByOwner'
  <2> SUFFICES ASSUME NEW c \in Column, x[c] # X(c)
               PROVE  \E t \in Lane : pc'[t] \in {"write", "done"} /\ c < i'[t] /\ Owns(t, c)
    BY DEF OverwrittenByOwner, Column, X, Term, Owns
  <2>1. PICK t \in Lane : pc[t] \in {"write", "done"} /\ c < i[t] /\ Owns(t, c)
    BY DEF IInv, OverwrittenByOwner
  <2>2. /\ i'[l] = i[l] + Lanes /\ i[l] \in Nat /\ i[t] \in Nat
        /\ t # l => i'[t] = i[t]
        /\ Lanes \in Nat
    BY <1>0, AdvanceInShare, OwnsIndex, WarpRowAssumption
  <2>3. c \in Int
    BY DEF Column
  <2>4. c < i'[t]
    BY <2>1, <2>2, <2>3
  <2> QED BY <2>1, <2>4
<1> QED BY <1>1, <1>2, <1>3 DEF IInv

LEMMA WritingKeepsIInv ==
  ASSUME IInv, NEW l \in Lane, WriteStep(l)
  PROVE  IInv'
<1>0. /\ TypeOK /\ pc[l] = "write" /\ i[l] < row.width
      /\ y' = [y EXCEPT ![i[l]] = Result(l, i[l])]
      /\ x' = IF row.inplace THEN y' ELSE x
      /\ Advance(l) /\ UNCHANGED <<row, pc, off>>
  BY DEF IInv, WriteStep
<1>1. TypeOK'
  <2>1. DOMAIN y' = DOMAIN y /\ (DOMAIN x' = DOMAIN x \/ DOMAIN x' = DOMAIN y)
    BY <1>0
  <2>2. Column' = Column
    BY <1>0 DEF Column
  <2> QED BY <1>0, <2>1, <2>2, AdvanceInShare DEF TypeOK
<1>2. Aliasing'
  <2>1. row.inplace => x' = y'
    BY <1>0
  <2>2. ~row.inplace => x' = x
    BY <1>0
  <2> QED BY <1>0, <2>1, <2>2 DEF IInv, Aliasing, Launch, Column, X, Term
<1>3. OverwrittenByOwner'
  <2> SUFFICES ASSUME NEW c \in Column, x'[c] # X(c)
               PROVE  \E t \in Lane : pc'[t] \in {"write", "done"} /\ c < i'[t] /\ Owns(t, c)
    BY <1>0 DEF OverwrittenByOwner, Column, X, Term, Owns
  <2>0. c \in Int
    BY DEF Column
  <2>1. /\ i' \in [Lane -> Nat] /\ i'[l] = i[l] + Lanes /\ i[l] \in Nat
        /\ Lanes \in Nat \ {0}
        /\ \A t \in Lane : t # l => i'[t] = i[t]
    BY <1>0, AdvanceInShare, OwnsIndex, WarpRowAssumption
  <2>2. CASE c = i[l]
    <3>1. pc'[l] = "write" /\ c < i'[l] /\ Owns(l, c)
      BY <1>0, <2>1, <2>2, OwnsIndex
    <3> QED BY <3>1
  <2>3. CASE c # i[l]
    <3>1. x'[c] = x[c]
      BY <1>0, <2>3 DEF IInv, Aliasing, TypeOK
    <3>2. PICK t \in Lane : pc[t] \in {"write", "done"} /\ c < i[t] /\ Owns(t, c)
      BY <3>1 DEF IInv, OverwrittenByOwner
    <3>3. i[t] \in Nat
      BY <1>0, OwnsIndex
    <3>4. c < i'[t]
      BY <2>0, <2>1, <3>2, <3>3
    <3> QED BY <1>0, <3>2, <3>4
  <2> QED BY <2>2, <2>3
<1> QED BY <1>1, <1>2, <1>3 DEF IInv

LEMMA StepKeepsIInv ==
  ASSUME IInv, NEW l \in Lane, Step(l)
  PROVE  IInv'
<1>1. CASE MaxStep(l)
  BY <1>1, AdvancingKeepsIInv DEF MaxStep
<1>2. CASE MaxDone(l)
  BY <1>2, ReadingKeepsIInv DEF MaxDone, Labels
<1>3. CASE SumStep(l)
  BY <1>3, AdvancingKeepsIInv DEF SumStep
<1>4. CASE SumDone(l)
  BY <1>4, ReadingKeepsIInv DEF SumDone, Labels
<1>5. CASE Publish(l)
  <2> DEFINE label == IF row.kernel = "ce_row" THEN "done" ELSE "write"
  <2>1. label \in Labels
    BY DEF Labels
  <2>2. Goto(l, label) /\ pc[l] = "stat" /\ UNCHANGED <<row, off, x, y, i>>
    BY <1>5 DEF Publish
  <2> HIDE DEF label
  <2> QED BY <2>1, <2>2, ReadingKeepsIInv
<1>6. CASE WriteStep(l)
  BY <1>6, WritingKeepsIInv
<1>7. CASE WriteDone(l)
  BY <1>7, ReadingKeepsIInv DEF WriteDone, Labels
<1> QED BY <1>1, <1>2, <1>3, <1>4, <1>5, <1>6, <1>7 DEF Step

(* Steps of the whole warp: no lane is in the write pass yet, so the row   *)
(* is as it was.                                                           *)
LEMMA WarpKeepsIInv ==
  ASSUME IInv, Warp
  PROVE  IInv'
<1>0. Lanes \in Nat \ {0} /\ 0 \in Lane /\ Lane \subseteq Nat
  BY WarpRowAssumption DEF Lane
<1>1. /\ \/ \A l \in Lane : pc[l] = "maxed"
         \/ \A l \in Lane : pc[l] = "summed"
      /\ UNCHANGED <<row, x, y>>
  BY DEF Warp, ShuffleMax, ShuffleSum, NextPass
<1>2. \A c \in Column : x[c] = X(c)
  BY <1>1 DEF IInv, OverwrittenByOwner
<1>3. OverwrittenByOwner'
  BY <1>1, <1>2 DEF OverwrittenByOwner, Column, X, Term
<1>4. Aliasing'
  BY <1>1 DEF IInv, Aliasing, Launch, Column, X, Term
<1>5. TypeOK'
  <2>1. CASE NextPass
    <3>1. off' \in 0 .. Lanes \div 2
      BY <1>0, <2>1, Halves DEF NextPass
    <3>2. i' \in [Lane -> Nat] /\ pc' \in [Lane -> Labels]
      BY <1>0, <2>1 DEF NextPass, Labels
    <3>3. ASSUME NEW l \in Lane PROVE \E k \in 0 .. i'[l] : i'[l] = l + k * Lanes
      <4>1. i'[l] = l /\ l \in Nat /\ 0 \in 0 .. i'[l] /\ l = l + 0 * Lanes
        BY <1>0, <2>1 DEF NextPass
      <4> QED BY <4>1
    <3> QED BY <1>1, <3>1, <3>2, <3>3 DEF IInv, TypeOK, Column
  <2>2. CASE ShuffleMax \/ ShuffleSum
    <3>1. off' = off \div 2 /\ UNCHANGED <<i, pc>>
      BY <2>2 DEF ShuffleMax, ShuffleSum
    <3>2. off \in Nat /\ off <= Lanes \div 2 /\ Lanes \div 2 \in Nat
      BY <1>0, Halves DEF IInv, TypeOK
    <3>3. off' \in 0 .. Lanes \div 2
      BY <3>1, <3>2, Halves
    <3> QED BY <1>1, <3>1, <3>3 DEF IInv, TypeOK, Column
  <2> QED BY <2>1, <2>2 DEF Warp
<1> QED BY <1>3, <1>4, <1>5 DEF IInv

LEMMA SpecIInv == Spec => []IInv
<1>1. IInv /\ [Next]_vars => IInv'
  <2> SUFFICES ASSUME IInv, [Next]_vars PROVE IInv'
    OBVIOUS
  <2>1. CASE UNCHANGED vars
    BY <2>1 DEF vars, IInv, TypeOK, Aliasing, OverwrittenByOwner, Launch, Column, X, Term, Owns
  <2> QED BY <2>1, WarpKeepsIInv, StepKeepsIInv DEF Next
<1> QED BY InitIInv, <1>1, PTL DEF Spec

(* The lanes' loop variables stay in their own shares of the row.          *)
THEOREM WarpRowTypeOK == Spec => []TypeOK
<1>1. IInv => TypeOK
  BY DEF IInv
<1> QED BY <1>1, SpecIInv, PTL

LEMMA ReadsAreOriginal ==
  ASSUME IInv, NEW l \in Lane, NEW c \in Column, Reads(l, c)
  PROVE  x[c] = X(c)
<1> SUFFICES ASSUME x[c] # X(c)  PROVE FALSE
  OBVIOUS
<1>0. TypeOK /\ row \in Launches
  BY DEF IInv, TypeOK
<1>1. row.inplace
  BY DEF IInv, Aliasing
<1>2. c = i[l] /\ c \in Nat
  BY <1>0, <1>1, OwnsIndex DEF Reads, IInv, Aliasing, Launch
<1>3. PICK t \in Lane : c < i[t] /\ Owns(t, c)
  BY DEF IInv, OverwrittenByOwner
<1>4. t = l
  BY <1>0, <1>2, <1>3, OwnsIndex, OneOwner
<1> QED BY <1>2, <1>3, <1>4

(* "y may alias x", for a warp and rows of any size: no lane reads a column*)
(* that has been overwritten, in whatever order the lanes run.             *)
THEOREM WarpRowReadsOriginal == Spec => []ReadsOriginal
<1>1. IInv => ReadsOriginal
  BY ReadsAreOriginal DEF ReadsOriginal
<1> QED BY <1>1, SpecIInv, PTL

-----------------------------------------------------------------------------
(* The sums.  The sum of the first k terms exists for every k, by induction*)
(* and grows by one term.                                                  *)
Adds(g, t, k) ==
  g = [j \in 0 .. k |-> IF j = 0 THEN Zero ELSE Plus(g[j - 1], t[j - 1])]

LEMMA TermsAdded ==
  ASSUME NEW t
  PROVE  \A k \in Nat : \E g : Adds(g, t, k)
<1> DEFINE S == {k \in Nat : \E g : Adds(g, t, k)}
<1>1. 0 \in S
  <2>1. Adds([j \in 0 .. 0 |-> Zero], t, 0)
    BY DEF Adds
  <2> QED BY <2>1
<1>2. ASSUME NEW k \in Nat, k \in S  PROVE k + 1 \in S
  <2>1. PICK g : Adds(g, t, k)
    BY <1>2
  <2> DEFINE h == [j \in 0 .. k + 1 |-> IF j = k + 1 THEN Plus(g[k], t[k]) ELSE g[j]]
  <2>2. ASSUME NEW j \in 0 .. k + 1
        PROVE  h[j] = IF j = 0 THEN Zero ELSE Plus(h[j - 1], t[j - 1])
    <3>1. CASE j = k + 1
      <4>1. j # 0 /\ j - 1 = k /\ h[k] = g[k]
        BY <3>1
      <4>2. h[j] = Plus(g[k], t[k])
        BY <3>1
      <4> HIDE DEF h
      <4> QED BY <4>1, <4>2
    <3>2. CASE j # k + 1
      <4>1. j \in 0 .. k /\ (j # 0 => j - 1 \in 0 .. k /\ j - 1 # k + 1)
        BY <3>2
      <4>2. g[j] = IF j = 0 THEN Zero ELSE Plus(g[j - 1], t[j - 1])
        BY <2>1, <4>1 DEF Adds
      <4>3. h[j] = g[j] /\ (j # 0 => h[j - 1] = g[j - 1])
        BY <3>2, <4>1
      <4> QED BY <4>2, <4>3
    <3> QED BY <3>1, <3>2
  <2>3. h = [j \in 0 .. k + 1 |-> h[j]]
    OBVIOUS
  <2> HIDE DEF h
  <2>4. Adds(h, t, k + 1)
    BY <2>2, <2>3 DEF Adds
  <2> QED BY <2>4
<1> HIDE DEF S
<1>3. Nat \subseteq S
  BY <1>1, <1>2, SetInduction
<1> QED BY <1>3 DEF S

LEMMA AddedUpIs ==
  ASSUME NEW t, NEW k \in Nat
  PROVE  \E g : Adds(g, t, k) /\ AddedUp(t, k) = g[k]
<1> DEFINE added[j \in 0 .. k] ==
             IF j = 0 THEN Zero ELSE Plus(added[j - 1], t[j - 1])
<1>1. \E g : Adds(g, t, k)
  <2> HIDE DEF added
  <2> QED BY TermsAdded
<1>2. Adds(added, t, k)
  BY <1>1 DEF Adds
<1>3. AddedUp(t, k) = added[k]
  BY DEF AddedUp
<1> HIDE DEF added
<1> QED BY <1>2, <1>3

LEMMA AddsAgree ==
  ASSUME NEW t, NEW k \in Nat, NEW w \in Nat, k <= w, NEW g, NEW h,
         Adds(g, t, k), Adds(h, t, w)
  PROVE  h[k] = g[k]
<1> DEFINE S == {j \in Nat : j <= k => h[j] = g[j]}
<1>1. 0 \in S
  BY DEF Adds
<1>2. ASSUME NEW j \in Nat, j \in S  PROVE j + 1 \in S
  <2>1. CASE j + 1 <= k
    <3>1. j + 1 \in 0 .. k /\ j + 1 \in 0 .. w /\ j + 1 # 0 /\ j + 1 - 1 = j
      BY <2>1
    <3>2. g[j + 1] = Plus(g[j], t[j])
      BY <3>1 DEF Adds
    <3>3. h[j + 1] = Plus(h[j], t[j])
      BY <3>1 DEF Adds
    <3>4. h[j] = g[j]
      BY <1>2, <2>1
    <3>5. h[j + 1] = g[j + 1]
      BY <3>2, <3>3, <3>4
    <3> QED BY <3>5
  <2> QED BY <2>1
<1> HIDE DEF S
<1>3. Nat \subseteq S
  BY <1>1, <1>2, SetInduction
<1> QED BY <1>3 DEF S

LEMMA AddedUpSteps ==
  ASSUME NEW t
  PROVE  /\ AddedUp(t, 0) = Zero
         /\ \A k \in Nat : AddedUp(t, k + 1) = Plus(AddedUp(t, k), t[k])
<1>1. AddedUp(t, 0) = Zero
  <2>1. PICK g : Adds(g, t, 0) /\ AddedUp(t, 0) = g[0]
    BY AddedUpIs
  <2> QED BY <2>1 DEF Adds
<1>2. ASSUME NEW k \in Nat
      PROVE  AddedUp(t, k + 1) = Plus(AddedUp(t, k), t[k])
  <2>1. PICK g : Adds(g, t, k) /\ AddedUp(t, k) = g[k]
    BY AddedUpIs
  <2>2. PICK h : Adds(h, t, k + 1) /\ AddedUp(t, k + 1) = h[k + 1]
    BY AddedUpIs
  <2>3. h[k] = g[k]
    BY <2>1, <2>2, AddsAgree
  <2>4. h[k + 1] = Plus(h[k], t[k])
    <3>1. k + 1 \in 0 .. k + 1 /\ k + 1 # 0 /\ k + 1 - 1 = k
      OBVIOUS
    <3> QED BY <2>2, <3>1 DEF Adds
  <2> QED BY <2>1, <2>2, <2>3, <2>4
<1> QED BY <1>1, <1>2

(* The levels of the tree, from the widest down.                           *)
LevelOf(shares, g, w) ==
  IF 2 * w > Lanes THEN shares
  ELSE [l \in 0 .. w - 1 |-> Plus(g[2 * w][l], g[2 * w][l + w])]

DownTo(shares, g, low) == \A w \in low .. Lanes : g[w] = LevelOf(shares, g, w)

LEMMA LevelsDown ==
  ASSUME NEW shares
  PROVE  \A k \in Nat : k < Lanes => \E g : DownTo(shares, g, Lanes - k)
<1> DEFINE S == {k \in Nat : k < Lanes => \E g : DownTo(shares, g, Lanes - k)}
<1>0. Lanes \in Nat \ {0}
  BY WarpRowAssumption
<1>1. 0 \in S
  <2> DEFINE h == [w \in {Lanes} |-> shares]
  <2>1. h[Lanes] = shares
    OBVIOUS
  <2> HIDE DEF h
  <2>2. DownTo(shares, h, Lanes)
    BY <1>0, <2>1 DEF DownTo, LevelOf
  <2>3. Lanes - 0 = Lanes
    BY <1>0
  <2> QED BY <2>2, <2>3
<1>2. ASSUME NEW k \in Nat, k \in S  PROVE k + 1 \in S
  <2> SUFFICES ASSUME k + 1 < Lanes
               PROVE  \E h : DownTo(shares, h, Lanes - (k + 1))
    OBVIOUS
  <2>1. PICK g : DownTo(shares, g, Lanes - k)
    BY <1>0, <1>2
  <2> DEFINE low == Lanes - (k + 1)
             wider == LevelOf(shares, g, low)
             h == [w \in low .. Lanes |-> IF w = low THEN wider ELSE g[w]]
  <2>2. low \in Nat \ {0} /\ low < Lanes /\ low + 1 = Lanes - k
    BY <1>0
  <2>3. h[low] = wider /\ \A w \in low + 1 .. Lanes : h[w] = g[w]
    <3> HIDE DEF wider, low
    <3>1. low \in low .. Lanes
      BY <1>0, <2>2
    <3>2. \A w \in low + 1 .. Lanes : w \in low .. Lanes /\ w # low
      BY <1>0, <2>2
    <3>3. h[low] = wider
      BY <3>1
    <3>4. ASSUME NEW w \in low + 1 .. Lanes  PROVE h[w] = g[w]
      BY <3>2
    <3> QED BY <3>3, <3>4
  <2> HIDE DEF h
  <2>4. ASSUME NEW w \in low .. Lanes
        PROVE  h[w] = LevelOf(shares, h, w)
    <3> HIDE DEF low
    <3>1. w \in Nat \ {0} /\ (2 * w <= Lanes => 2 * w \in low + 1 .. Lanes)
      BY <1>0, <2>2
    <3>2. LevelOf(shares, h, w) = LevelOf(shares, g, w)
      <4>1. CASE 2 * w > Lanes
        BY <4>1 DEF LevelOf
      <4>2. CASE ~(2 * w > Lanes)
        <5>1. h[2 * w] = g[2 * w]
          BY <1>0, <2>3, <3>1, <4>2
        <5> QED BY <4>2, <5>1 DEF LevelOf
      <4> QED BY <4>1, <4>2
    <3>3. CASE w = low
      BY <2>3, <3>2, <3>3
    <3>4. CASE w # low
      <4>1. w \in low + 1 .. Lanes
        BY <1>0, <2>2, <3>4
      <4>2. g[w] = LevelOf(shares, g, w)
        BY <2>1, <2>2, <4>1 DEF DownTo
      <4> QED BY <2>3, <3>2, <4>1, <4>2
    <3> QED BY <3>3, <3>4
  <2>5. DownTo(shares, h, low)
    BY <2>4 DEF DownTo
  <2> QED BY <2>5
<1> HIDE DEF S
<1>3. Nat \subseteq S
  BY <1>1, <1>2, SetInduction
<1> QED BY <1>3 DEF S

LEMMA HalvingSteps ==
  ASSUME NEW shares, NEW w \in 1 .. Lanes
  PROVE  Halving(shares, w) =
           IF 2 * w > Lanes THEN shares
           ELSE [l \in 0 .. w - 1 |->
                   Plus(Halving(shares, 2 * w)[l], Halving(shares, 2 * w)[l + w])]
<1> DEFINE half[v \in 1 .. Lanes] ==
             IF 2 * v > Lanes THEN shares
             ELSE [l \in 0 .. v - 1 |-> Plus(half[2 * v][l], half[2 * v][l + v])]
<1>0. Lanes \in Nat \ {0}
  BY WarpRowAssumption
<1>1. \E g : g = [v \in 1 .. Lanes |-> LevelOf(shares, g, v)]
  <2> HIDE DEF half
  <2>1. Lanes - 1 \in Nat /\ Lanes - (Lanes - 1) = 1
    BY <1>0
  <2>2. PICK h : DownTo(shares, h, 1)
    BY <1>0, <2>1, LevelsDown
  <2> DEFINE g == [v \in 1 .. Lanes |-> h[v]]
  <2>3. \A v \in 1 .. Lanes : g[v] = h[v]
    OBVIOUS
  <2>4. g = [v \in 1 .. Lanes |-> g[v]]
    OBVIOUS
  <2> HIDE DEF g
  <2>5. ASSUME NEW v \in 1 .. Lanes  PROVE g[v] = LevelOf(shares, g, v)
    <3>1. h[v] = LevelOf(shares, h, v)
      BY <2>2 DEF DownTo
    <3>2. LevelOf(shares, g, v) = LevelOf(shares, h, v)
      <4>1. CASE 2 * v > Lanes
        BY <4>1 DEF LevelOf
      <4>2. CASE ~(2 * v > Lanes)
        <5>1. 2 * v \in 1 .. Lanes
          BY <1>0, <4>2
        <5>2. g[2 * v] = h[2 * v]
          BY <2>3, <5>1
        <5> QED BY <4>2, <5>2 DEF LevelOf
      <4> QED BY <4>1, <4>2
    <3> QED BY <2>3, <3>1, <3>2
  <2>6. g = [v \in 1 .. Lanes |-> LevelOf(shares, g, v)]
    BY <2>4, <2>5
  <2> QED BY <2>6
<1>2. half = [v \in 1 .. Lanes |-> LevelOf(shares, half, v)]
  BY <1>1 DEF LevelOf
<1>3. \A v : Halving(shares, v) = half[v]
  BY DEF Halving
<1> HIDE DEF half
<1>4. Halving(shares, w) = LevelOf(shares, half, w)
  BY <1>2, <1>3
<1> QED BY <1>3, <1>4 DEF LevelOf

-----------------------------------------------------------------------------
(* The offsets of the butterfly: they halve exactly, down to 1.            *)
IsLevel(o) == o \in Nat \ {0} /\ 2 * o <= Lanes /\ Lanes % (2 * o) = 0

LEMMA FirstLevel ==
  ASSUME Lanes \div 2 > 0
  PROVE  IsLevel(Lanes \div 2) /\ 2 * (Lanes \div 2) = Lanes
<1>1. Lanes \in Nat \ {0} /\ Lanes >= 2
  BY WarpRowAssumption
<1>2. Lanes % Lanes = 0
  BY <1>1, SMT
<1>3. Lanes % 2 = 0
  BY <1>1, <1>2, WarpRowAssumption
<1>4. 2 * (Lanes \div 2) = Lanes
  BY <1>1, <1>3
<1> QED BY <1>1, <1>2, <1>4 DEF IsLevel

LEMMA NextLevel ==
  ASSUME NEW o, IsLevel(o), o \div 2 > 0
  PROVE  IsLevel(o \div 2) /\ 2 * (o \div 2) = o
<1>1. /\ o \in Nat \ {0} /\ Lanes \in Nat \ {0} /\ 2 * o <= Lanes
      /\ Lanes % (2 * o) = 0 /\ o >= 2
  BY WarpRowAssumption DEF IsLevel
<1>2. Lanes % o = 0
  <2> DEFINE q == Lanes \div (2 * o)
  <2>1. q \in Nat /\ Lanes = (2 * o) * q
    BY <1>1, SMT
  <2> HIDE DEF q
  <2> DEFINE p == 2 * q
  <2>2. p \in Nat /\ Lanes = o * p
    BY <1>1, <2>1, SMT
  <2> HIDE DEF p
  <2>3. (o * p) % o = 0
    <3>1. o \in Nat \ {0} /\ p \in Nat
      BY <1>1, <2>2
    <3> QED BY ONLY <3>1, SMT
  <2> QED BY <2>2, <2>3
<1>3. o % 2 = 0
  BY <1>1, <1>2, WarpRowAssumption
<1>4. 2 * (o \div 2) = o
  BY <1>1, <1>3
<1> QED BY <1>1, <1>2, <1>4 DEF IsLevel

LEMMA Remainder ==
  ASSUME NEW a \in Nat \ {0}, NEW p \in Nat, NEW r \in Nat, r < a
  PROVE  (p * a + r) % a = r /\ (p * a + r) \div a = p
<1>1. (p * a + r) \div a = p
  BY SMT
<1>2. (p * a + r) % a = r
  BY SMT
<1> QED BY <1>1, <1>2

(* A number modulo 2 * o is its remainder modulo o, or that and o.         *)
LEMMA TwoRemainders ==
  ASSUME NEW o \in Nat \ {0}, NEW c \in Nat
  PROVE  /\ c % o \in 0 .. o - 1
         /\ (c \div o) % 2 = 0 =>
              c % (2 * o) = c % o /\ c = ((c \div o) \div 2) * (2 * o) + (c % o)
         /\ (c \div o) % 2 # 0 =>
              c % (2 * o) = (c % o) + o /\ c = ((c \div o) \div 2) * (2 * o) + ((c % o) + o)
<1> DEFINE q == c \div o
           r == c % o
           p == q \div 2
<1>1. q \in Nat /\ r \in 0 .. o - 1 /\ c = q * o + r
  BY SMT
<1> HIDE DEF q, r
<1>2. p \in Nat /\ (q % 2 = 0 => q = 2 * p) /\ (q % 2 # 0 => q = 2 * p + 1)
  BY <1>1
<1> HIDE DEF p
<1> DEFINE a == 2 * o
<1>3. a \in Nat \ {0} /\ p * a = (2 * p) * o /\ p * a + o = (2 * p + 1) * o
  BY <1>2, SMT
<1>4. ASSUME q % 2 = 0  PROVE c % a = r /\ c = p * a + r
  <2>1. c = p * a + r
    BY <1>1, <1>2, <1>3, <1>4
  <2>2. r \in Nat /\ r < a
    BY <1>1
  <2> HIDE DEF a
  <2>3. c % a = r
    BY <1>2, <1>3, <2>1, <2>2, Remainder
  <2> QED BY <2>1, <2>3
<1>5. ASSUME q % 2 # 0  PROVE c % a = r + o /\ c = p * a + (r + o)
  <2>1. c = p * a + (r + o)
    <3>1. q * o = p * a + o
      BY <1>2, <1>3, <1>5
    <3>2. p * a \in Nat
      BY <1>2, SMT
    <3> HIDE DEF a
    <3> QED BY <1>1, <3>1, <3>2
  <2>2. r + o \in Nat /\ r + o < a
    BY <1>1
  <2> HIDE DEF a
  <2>3. c % a = r + o
    BY <1>2, <1>3, <2>1, <2>2, Remainder
  <2> QED BY <2>1, <2>3
<1>6. r \in 0 .. o - 1
  BY <1>1
<1> QED BY ONLY <1>4, <1>5, <1>6, Zenon DEF q, r, p, a

(* The partner of a lane has the other remainder.                          *)
LEMMA Partners ==
  ASSUME IsLevel(off), NEW l \in Lane
  PROVE  /\ Partner(l) \in Lane /\ l % off \in 0 .. off - 1
         /\ \/ l % (2 * off) = l % off /\ Partner(l) % (2 * off) = (l % off) + off
            \/ l % (2 * off) = (l % off) + off /\ Partner(l) % (2 * off) = l % off
<1> DEFINE r == l % off
           p == (l \div off) \div 2
           a == 2 * off
           s == Lanes \div a
<1>1. /\ off \in Nat \ {0} /\ l \in Nat /\ l < Lanes /\ Lanes \in Nat \ {0}
      /\ a \in Nat \ {0} /\ Lanes % a = 0
  BY WarpRowAssumption DEF IsLevel, Lane
<1>2. s \in Nat /\ Lanes = s * a
  <2> HIDE DEF a
  <2> QED BY <1>1, SMT
<1>3. p \in Nat /\ r \in 0 .. off - 1
  <2>1. l \div off \in Nat
    BY <1>1, SMT
  <2>2. off \in Nat \ {0} /\ l \in Nat
    BY <1>1
  <2>3. p \in Nat
    BY <2>1
  <2>4. r \in 0 .. off - 1
    BY ONLY <2>2, TwoRemainders, Zenon
  <2> QED BY <2>3, <2>4
<1>4. CASE (l \div off) % 2 = 0
  <2>1. l % a = r /\ l = p * a + r
    <3>1. off \in Nat \ {0} /\ l \in Nat
      BY <1>1
    <3> QED BY ONLY <1>4, <3>1, TwoRemainders, Zenon
  <2>2. Partner(l) = l + off
    BY <1>4 DEF Partner
  <2>3. p * a \in Nat /\ p < s
    <3>1. p * a \in Nat
      BY <1>1, <1>3, Products
    <3>2. s <= p => s * a <= p * a
      BY <1>1, <1>2, <1>3, SMT
    <3> HIDE DEF a, s, p, r
    <3> QED BY <1>1, <1>2, <1>3, <2>1, <3>1, <3>2
  <2>4. p * a + a <= s * a
    <3> HIDE DEF a, s, p
    <3> QED BY <1>1, <1>2, <1>3, <2>3, Products
  <2>5. Partner(l) = p * a + (r + off) /\ r + off \in Nat /\ r + off < a
    <3> HIDE DEF p, r
    <3> QED BY <1>1, <1>3, <2>1, <2>2, <2>3
  <2>6. Partner(l) \in Lane
    <3>1. Partner(l) \in Nat /\ Partner(l) < Lanes
      <4> HIDE DEF a, s, p, r
      <4> QED BY <1>1, <1>2, <2>3, <2>4, <2>5
    <3> QED BY <1>1, <3>1 DEF Lane
  <2>7. Partner(l) % a = r + off
    <3> HIDE DEF a, p, r
    <3> QED BY <1>1, <1>3, <2>5, Remainder
  <2> QED BY <1>3, <2>1, <2>6, <2>7
<1>5. CASE (l \div off) % 2 # 0
  <2>1. l % a = r + off /\ l = p * a + (r + off)
    <3>1. off \in Nat \ {0} /\ l \in Nat
      BY <1>1
    <3> QED BY ONLY <1>5, <3>1, TwoRemainders, Zenon
  <2>2. Partner(l) = l - off
    BY <1>5 DEF Partner
  <2>3. p * a \in Nat
    BY <1>1, <1>3, Products
  <2>4. Partner(l) = p * a + r /\ r \in Nat /\ r < a
    <3> HIDE DEF p, r
    <3> QED BY <1>1, <1>3, <2>1, <2>2, <2>3
  <2>5. Partner(l) \in Lane
    <3>1. Partner(l) \in Nat /\ Partner(l) < Lanes
      <4> HIDE DEF a, p, r
      <4> QED BY <1>1, <1>3, <2>1, <2>2, <2>3, <2>4
    <3> QED BY <1>1, <3>1 DEF Lane
  <2>6. Partner(l) % a = r
    <3> HIDE DEF a, p, r
    <3>1. (p * a + r) % a = r
      BY <1>1, <1>3, <2>4, Remainder
    <3> QED BY <2>4, <3>1
  <2> QED BY <1>3, <2>1, <2>5, <2>6
<1> QED BY <1>4, <1>5

-----------------------------------------------------------------------------
(* What the registers and the row hold in each pass.  A lane in a pass has *)
(* taken its columns below its loop variable; in a butterfly whose next    *)
(* offset is off, a lane's register covers all the columns, or all the     *)
(* shares, of the lanes that equal it modulo 2 * off.                      *)
Width == IF off = 0 THEN 1 ELSE 2 * off

OffsetOK == off = 0 \/ IsLevel(off)

Taken(l) == {c \in 0 .. Limit - 1 : Owns(l, c) /\ c < i[l]}
Class(l, w) == {c \in 0 .. Limit - 1 : c % w = l % w}
MaxOver(S) == MaxOf({X(c) : c \in S})

MaxKnown == row.kernel # "rmsnorm" => \A l \in Lane : m[l] = RowMax

Summed(l, k) ==
  /\ i[l] = l + k * Lanes
  /\ k > 0 => l + (k - 1) * Lanes < Limit
  /\ sum[l] = AddedUp(Terms(l), k)

Wanted(c) ==
  IF row.kernel = "rmsnorm" THEN Scaled(c, X(c), RowSum)
  ELSE IF c < Limit THEN Prob(X(c), RowMax, RowSum) ELSE Zero

WantedStat ==
  IF row.kernel = "rmsnorm" THEN Rstd(RowSum) ELSE Nll(RowMax, RowSum, X(row.target))

MaxPhase ==
  /\ row.kernel # "rmsnorm"
  /\ (\E l \in Lane : pc[l] = "max") => off = Lanes \div 2
  /\ \A l \in Lane :
       /\ pc[l] \in {"max", "maxed"}
       /\ pc[l] = "max" => m[l] = MaxOver(Taken(l))
       /\ pc[l] = "maxed" => m[l] = MaxOver(Class(l, Width))
       /\ sum[l] = Zero

SumPhase ==
  /\ MaxKnown
  /\ (\E l \in Lane : pc[l] = "sum") => off = Lanes \div 2
  /\ \A l \in Lane :
       /\ pc[l] \in {"sum", "summed"}
       /\ pc[l] = "sum" => \E k \in Nat : Summed(l, k)
       /\ pc[l] = "summed" => sum[l] = Halving(Shares, Width)[l % Width]

WritePhase ==
  /\ MaxKnown
  /\ \A l \in Lane :
       /\ pc[l] \in {"stat", "write", "done"}
       /\ sum[l] = RowSum
       /\ \A c \in Column : Owns(l, c) /\ c < i[l] => y[c] = Wanted(c)
       /\ pc[l] = "done" /\ row.kernel # "ce_row" => row.width <= i[l]
  /\ pc[0] \in {"write", "done"} /\ row.kernel # "softmax" => stat = WantedStat

Registers ==
  /\ m = [l \in Lane |-> m[l]]
  /\ sum = [l \in Lane |-> sum[l]]

RowInv == IInv /\ Registers /\ OffsetOK /\ (MaxPhase \/ SumPhase \/ WritePhase)

(* A launch stays what it is, and so does what its row should become.      *)
LEMMA SameRow ==
  ASSUME row' = row
  PROVE  /\ Limit' = Limit /\ Column' = Column /\ RowMax' = RowMax
         /\ Shares' = Shares /\ RowSum' = RowSum
         /\ \A l : Terms(l)' = Terms(l)
         /\ \A c : Wanted(c)' = Wanted(c)
         /\ WantedStat' = WantedStat
<1>1. Limit' = Limit /\ Column' = Column
  BY DEF Limit, Column
<1>2. RowMax' = RowMax
  BY <1>1 DEF RowMax, MaxOf, X, Term
<1>3. \A l : Terms(l)' = Terms(l)
  BY <1>2 DEF Terms, Square, Exp, X, Term
<1>4. Shares' = Shares
  BY <1>1, <1>3 DEF Shares
<1>5. RowSum' = RowSum
  BY <1>4 DEF RowSum
<1>6. \A c : Wanted(c)' = Wanted(c)
  BY <1>1, <1>2, <1>5 DEF Wanted, Scaled, Prob, Zero, X, Term
<1>7. WantedStat' = WantedStat
  BY <1>2, <1>5 DEF WantedStat, Rstd, Nll, Zero, X, Term
<1> QED BY <1>1, <1>2, <1>3, <1>4, <1>5, <1>6, <1>7

LEMMA RowFacts ==
  ASSUME row \in Launches
  PROVE  /\ row.width \in Nat \ {0} /\ row.q \in 0 .. row.width - 1
         /\ row.causal \in BOOLEAN /\ row.target \in Column
         /\ row.kernel \in {"softmax", "rmsnorm", "ce_row"}
         /\ Limit \in Nat \ {0} /\ Limit <= row.width
<1>1. PICK w \in Widths : row \in [kernel : Kernels, width : {w}, q : 0 .. w - 1,
                                   causal : BOOLEAN, inplace : BOOLEAN,
                                   target : 0 .. w - 1]
  BY DEF Launches
<1>2. w \in Nat \ {0} /\ Kernels \subseteq {"softmax", "rmsnorm", "ce_row"}
  BY WarpRowAssumption
<1>3. /\ row.width = w /\ row.q \in 0 .. w - 1 /\ row.causal \in BOOLEAN
      /\ row.target \in 0 .. w - 1 /\ row.kernel \in Kernels
  BY <1>1
<1>4. Limit \in Nat \ {0} /\ Limit <= row.width
  BY <1>2, <1>3 DEF Limit
<1> QED BY <1>2, <1>3, <1>4 DEF Column

LEMMA LaneFacts ==
  /\ Lanes \in Nat \ {0} /\ 0 \in Lane
  /\ \A l \in Lane : l \in Nat /\ l < Lanes /\ l % Lanes = l
<1>1. Lanes \in Nat \ {0} /\ 0 \in Lane
  BY WarpRowAssumption DEF Lane
<1>2. ASSUME NEW l \in Lane  PROVE l \in Nat /\ l < Lanes /\ l % Lanes = l
  <2>1. l \in Nat /\ l < Lanes
    BY <1>1 DEF Lane
  <2>2. l % Lanes = l
    BY <1>1, <2>1, SmallModulo
  <2> QED BY <2>1, <2>2
<1> QED BY <1>1, <1>2

LEMMA OwnsIsRemainder ==
  ASSUME NEW l \in Lane, NEW c \in Nat
  PROVE  Owns(l, c) <=> c % Lanes = l
<1>1. Lanes \in Nat \ {0} /\ l \in Nat /\ l < Lanes
  BY LaneFacts
<1>2. ASSUME Owns(l, c)  PROVE c % Lanes = l
  <2>1. PICK k \in Nat : c = l + k * Lanes
    BY <1>2 DEF Owns
  <2>2. (k * Lanes + l) % Lanes = l
    BY <1>1, Remainder
  <2>3. c = k * Lanes + l
    BY <1>1, <2>1, Products
  <2> QED BY <2>2, <2>3
<1>3. ASSUME c % Lanes = l  PROVE Owns(l, c)
  <2> DEFINE k == c \div Lanes
  <2>1. k \in Nat /\ c = k * Lanes + (c % Lanes)
    BY <1>1, SMT
  <2> HIDE DEF k
  <2>2. c = l + k * Lanes
    BY <1>1, <1>3, <2>1, Products
  <2> QED BY <2>1, <2>2 DEF Owns
<1> QED BY <1>2, <1>3

(* The columns of a lane are Lanes apart.                                  *)
LEMMA NextOwned ==
  ASSUME TypeOK, NEW l \in Lane, NEW c \in Nat, Owns(l, c), c < i[l] + Lanes
  PROVE  c <= i[l]
<1>1. Lanes \in Nat \ {0} /\ l \in Nat
  BY LaneFacts
<1>2. PICK k \in 0 .. i[l] : i[l] = l + k * Lanes
  BY DEF TypeOK
<1>3. k \in Nat /\ k * Lanes \in Nat
  <2>1. i[l] \in Nat
    BY DEF TypeOK
  <2> QED BY <1>1, <2>1, Products
<1>4. PICK a \in Nat : c = l + a * Lanes
  BY DEF Owns
<1>5. a * Lanes \in Nat
  BY <1>1, Products
<1>6. CASE a <= k
  <2>1. a = k \/ a * Lanes + Lanes <= k * Lanes
    BY <1>1, <1>3, <1>6, Products
  <2> QED BY <1>1, <1>2, <1>3, <1>4, <1>5, <2>1
<1>7. CASE k < a
  <2>1. k * Lanes + Lanes <= a * Lanes
    BY <1>1, <1>3, <1>7, Products
  <2> QED BY <1>1, <1>2, <1>3, <1>4, <1>5, <2>1
<1> QED BY <1>3, <1>6, <1>7

LEMMA NoneOwnedBefore ==
  ASSUME NEW l \in Lane, NEW c, Owns(l, c)
  PROVE  c \in Nat /\ ~(c < l)
<1>1. Lanes \in Nat \ {0} /\ l \in Nat
  BY LaneFacts
<1>2. PICK k \in Nat : c = l + k * Lanes
  BY DEF Owns
<1>3. k * Lanes \in Nat
  BY <1>1, Products
<1> QED BY <1>1, <1>2, <1>3

(* At the start of a butterfly each lane stands for its own share.         *)
LEMMA FullWidth ==
  ASSUME off = Lanes \div 2
  PROVE  Width = Lanes /\ OffsetOK
<1>1. Lanes \in Nat \ {0}
  BY LaneFacts
<1>2. CASE Lanes \div 2 > 0
  <2>1. IsLevel(Lanes \div 2) /\ 2 * (Lanes \div 2) = Lanes
    BY <1>2, FirstLevel
  <2> QED BY <1>1, <1>2, <2>1 DEF Width, OffsetOK
<1>3. CASE ~(Lanes \div 2 > 0)
  <2>1. Lanes = 1 /\ Lanes \div 2 = 0
    BY <1>1, <1>3
  <2> QED BY <2>1 DEF Width, OffsetOK
<1> QED BY <1>2, <1>3

(* An exchange halves the width.                                           *)
LEMMA HalfWidth ==
  ASSUME OffsetOK, off > 0, off' = off \div 2
  PROVE  IsLevel(off) /\ Width = 2 * off /\ Width' = off /\ OffsetOK'
<1>1. IsLevel(off) /\ off \in Nat \ {0}
  BY DEF OffsetOK, IsLevel
<1>2. Width = 2 * off
  BY <1>1 DEF Width
<1>3. CASE off \div 2 > 0
  <2>1. IsLevel(off \div 2) /\ 2 * (off \div 2) = off
    BY <1>1, <1>3, NextLevel
  <2>2. IsLevel(off')
    BY <2>1
  <2> QED BY <1>1, <1>2, <1>3, <2>1, <2>2 DEF Width, OffsetOK, IsLevel
<1>4. CASE ~(off \div 2 > 0)
  <2>1. off = 1 /\ off \div 2 = 0
    BY <1>1, <1>4
  <2> QED BY <1>1, <1>2, <2>1 DEF Width, OffsetOK
<1> QED BY <1>3, <1>4

LEMMA Disjoint ==
  ASSUME NEW l \in Lane, MaxPhase \/ SumPhase \/ WritePhase
  PROVE  /\ pc[l] \in {"max", "maxed"} => MaxPhase
         /\ pc[l] \in {"sum", "summed"} => SumPhase
         /\ pc[l] \in {"stat", "write", "done"} => WritePhase
BY DEF MaxPhase, SumPhase, WritePhase

LEMMA InitRow == Init => RowInv
<1> SUFFICES ASSUME Init PROVE RowInv
  OBVIOUS
<1>1. IInv
  BY InitIInv
<1>2. Registers
  BY DEF Init, Registers
<1>3. off = Lanes \div 2 /\ OffsetOK
  BY FullWidth DEF Init
<1>4. CASE row.kernel = "rmsnorm"
  <2>1. ASSUME NEW l \in Lane  PROVE pc[l] = "sum" /\ Summed(l, 0)
    <3>1. l \in Nat /\ Lanes \in Nat
      BY LaneFacts
    <3>2. l + 0 * Lanes = l
      BY <3>1
    <3>3. sum[l] = AddedUp(Terms(l), 0)
      BY AddedUpSteps DEF Init
    <3> QED BY <1>4, <3>2, <3>3 DEF Init, FirstPass, Summed
  <2>2. SumPhase
    BY <1>3, <1>4, <2>1 DEF SumPhase, MaxKnown
  <2> QED BY <1>1, <1>2, <1>3, <2>2 DEF RowInv
<1>5. CASE row.kernel # "rmsnorm"
  <2>1. ASSUME NEW l \in Lane
        PROVE  pc[l] = "max" /\ m[l] = MaxOver(Taken(l)) /\ sum[l] = Zero
    <3>1. i[l] = l
      BY DEF Init
    <3>2. Taken(l) = {}
      BY <3>1, NoneOwnedBefore DEF Taken
    <3>3. m[l] = MaxOver(Taken(l))
      BY <3>2 DEF Init, MaxOver
    <3> QED BY <1>5, <3>3 DEF Init, FirstPass
  <2>2. MaxPhase
    BY <1>3, <1>5, <2>1 DEF MaxPhase
  <2> QED BY <1>1, <1>2, <1>3, <2>2 DEF RowInv
<1> QED BY <1>4, <1>5

LEMMA MaxStepKeepsRow ==
  ASSUME RowInv, NEW l \in Lane, MaxStep(l)
  PROVE  RowInv'
<1>1. /\ UNCHANGED <<row, pc, sum, off, x, y, stat>> /\ Advance(l)
      /\ pc[l] = "max" /\ i[l] < Limit
      /\ m' = [m EXCEPT ![l] = MaxOf(@.args \cup {x[i[l]]})]
  BY DEF MaxStep
<1>2. IInv' /\ IInv /\ TypeOK
  BY StepKeepsIInv DEF RowInv, Step, IInv
<1>3. MaxPhase
  BY <1>1, Disjoint DEF RowInv
<1>4. Registers' /\ OffsetOK'
  BY <1>1 DEF RowInv, Registers, OffsetOK
<1>5. /\ Limit' = Limit /\ Limit \in Nat \ {0} /\ Limit <= row.width
      /\ row.width \in Nat
  BY <1>1, <1>2, SameRow, RowFacts DEF TypeOK
<1>6. /\ i[l] \in Nat /\ Owns(l, i[l]) /\ i'[l] = i[l] + Lanes
      /\ \A t \in Lane : t # l => i'[t] = i[t]
      /\ Lanes \in Nat \ {0}
  BY <1>1, <1>2, OwnsIndex, AdvanceInShare, LaneFacts
<1>7. x[i[l]] = X(i[l])
  <2>1. i[l] \in Column
    BY <1>1, <1>5, <1>6 DEF Column
  <2> QED BY <1>1, <1>2, <2>1, ReadsAreOriginal DEF Reads
<1>8. Taken(l)' = Taken(l) \cup {i[l]}
  <2>1. ASSUME NEW c \in 0 .. Limit - 1
        PROVE  (Owns(l, c) /\ c < i'[l]) <=> (Owns(l, c) /\ c < i[l]) \/ c = i[l]
    <3>1. c \in Nat
      BY <1>5
    <3>2. Owns(l, c) /\ c < i[l] + Lanes => c <= i[l]
      BY <1>2, <3>1, NextOwned
    <3>3. i[l] < i'[l] /\ (c < i[l] => c < i'[l])
      BY <1>6, <3>1
    <3>4. Owns(l, c) /\ c < i'[l] => c < i[l] \/ c = i[l]
      BY <1>6, <3>1, <3>2
    <3>5. c = i[l] => Owns(l, c) /\ c < i'[l]
      BY <1>6, <3>3
    <3> QED BY ONLY <3>3, <3>4, <3>5, Zenon
  <2>2. Taken(l)' = {c \in 0 .. Limit - 1 : Owns(l, c) /\ c < i'[l]}
    BY <1>5 DEF Taken, Owns
  <2>3. i[l] \in 0 .. Limit - 1
    BY <1>1, <1>5, <1>6
  <2> QED BY <2>1, <2>2, <2>3 DEF Taken
<1>9. m'[l] = MaxOver(Taken(l))'
  <2>1. m'[l] = MaxOf(m[l].args \cup {X(i[l])})
    BY <1>1, <1>7 DEF RowInv, Registers
  <2>2. m[l].args = {X(c) : c \in Taken(l)}
    <3>1. m[l] = MaxOver(Taken(l))
      BY <1>1, <1>3 DEF MaxPhase
    <3>2. \A S : MaxOf(S).args = S
      BY DEF MaxOf, Term
    <3> QED BY <3>1, <3>2 DEF MaxOver
  <2>3. {X(c) : c \in Taken(l)'} = {X(c) : c \in Taken(l)} \cup {X(i[l])}
    <3> DEFINE T == Taken(l)'
               S == Taken(l)
               a == i[l]
    <3>1. T = S \cup {a}
      BY <1>8
    <3> HIDE DEF T, S, a
    <3>2. {X(c) : c \in T} = {X(c) : c \in S} \cup {X(a)}
      BY <3>1
    <3> QED BY <3>2 DEF T, S, a
  <2>4. MaxOver(Taken(l))' = MaxOf({X(c) : c \in Taken(l)'})
    BY DEF MaxOver, MaxOf, X, Term
  <2> QED BY <2>1, <2>2, <2>3, <2>4
<1>10. ASSUME NEW t \in Lane
       PROVE  /\ pc'[t] \in {"max", "maxed"}
              /\ pc'[t] = "max" => m'[t] = MaxOver(Taken(t))'
              /\ pc'[t] = "maxed" => m'[t] = MaxOver(Class(t, Width))'
              /\ sum'[t] = Zero
  <2>1. pc'[t] \in {"max", "maxed"} /\ sum'[t] = Zero
    BY <1>1, <1>3 DEF MaxPhase
  <2>2. CASE t = l
    BY <1>1, <1>9, <2>1, <2>2
  <2>3. CASE t # l
    <3>1. m'[t] = m[t] /\ i'[t] = i[t] /\ pc'[t] = pc[t]
      BY <1>1, <1>6, <2>3 DEF RowInv, Registers
    <3>2. Taken(t)' = Taken(t)
      BY <1>5, <3>1 DEF Taken, Owns
    <3>3. Class(t, Width)' = Class(t, Width)
      BY <1>1, <1>5 DEF Class, Width
    <3>4. MaxOver(Taken(t))' = MaxOver(Taken(t))
      BY <3>2 DEF MaxOver, MaxOf, X, Term
    <3>5. MaxOver(Class(t, Width))' = MaxOver(Class(t, Width))
      BY <3>3 DEF MaxOver, MaxOf, X, Term
    <3> QED BY <1>3, <2>1, <3>1, <3>4, <3>5 DEF MaxPhase
  <2> QED BY <2>2, <2>3
<1>11. MaxPhase'
  BY <1>1, <1>3, <1>10 DEF MaxPhase, Zero, Term
<1> QED BY <1>2, <1>4, <1>11 DEF RowInv

LEMMA MaxDoneKeepsRow ==
  ASSUME RowInv, NEW l \in Lane, MaxDone(l)
  PROVE  RowInv'
<1>1. /\ UNCHANGED <<row, i, m, sum, off, x, y, stat>>
      /\ pc[l] = "max" /\ i[l] >= Limit
      /\ pc' = [pc EXCEPT ![l] = "maxed"]
  BY DEF MaxDone, Goto
<1>2. IInv' /\ IInv /\ TypeOK
  BY StepKeepsIInv DEF RowInv, Step, IInv
<1>3. MaxPhase /\ off = Lanes \div 2 /\ pc \in [Lane -> Labels]
  BY <1>1, <1>2, Disjoint DEF RowInv, MaxPhase, TypeOK
<1>4. Registers' /\ OffsetOK'
  BY <1>1 DEF RowInv, Registers, OffsetOK
<1>5. Limit' = Limit /\ Limit \in Nat \ {0}
  BY <1>1, <1>2, SameRow, RowFacts DEF TypeOK
<1>6. Width = Lanes /\ Width' = Lanes
  BY <1>1, <1>3, FullWidth DEF Width
<1>7. Taken(l) = Class(l, Lanes)
  <2>1. ASSUME NEW c \in 0 .. Limit - 1
        PROVE  (Owns(l, c) /\ c < i[l]) <=> c % Lanes = l % Lanes
    <3>1. c \in Nat /\ c < i[l]
      <4>1. i[l] \in Nat
        BY <1>2 DEF TypeOK
      <4> QED BY <1>1, <1>5, <4>1
    <3> QED BY <3>1, OwnsIsRemainder, LaneFacts
  <2> QED BY <2>1 DEF Taken, Class
<1>8. m[l] = MaxOver(Class(l, Lanes))
  BY <1>1, <1>3, <1>7 DEF MaxPhase
<1>9. ASSUME NEW t \in Lane
      PROVE  /\ pc'[t] \in {"max", "maxed"}
             /\ pc'[t] = "max" => m'[t] = MaxOver(Taken(t))'
             /\ pc'[t] = "maxed" => m'[t] = MaxOver(Class(t, Width))'
             /\ sum'[t] = Zero
  <2>1. Class(t, Width)' = Class(t, Lanes) /\ Class(t, Width) = Class(t, Lanes)
    BY <1>5, <1>6 DEF Class
  <2>2. MaxOver(Class(t, Width))' = MaxOver(Class(t, Lanes))
    BY <2>1 DEF MaxOver, MaxOf, X, Term
  <2>3. MaxOver(Taken(t))' = MaxOver(Taken(t))
    <3>1. Taken(t)' = Taken(t)
      BY <1>1, <1>5 DEF Taken, Owns
    <3> QED BY <3>1 DEF MaxOver, MaxOf, X, Term
  <2>4. m'[t] = m[t] /\ sum'[t] = Zero
    BY <1>1, <1>3 DEF MaxPhase
  <2>5. CASE t = l
    BY <1>1, <1>3, <1>8, <2>2, <2>4, <2>5
  <2>6. CASE t # l
    <3>1. pc'[t] = pc[t]
      BY <1>1, <1>3, <2>6
    <3> QED BY <1>3, <2>1, <2>2, <2>3, <2>4, <3>1 DEF MaxPhase
  <2> QED BY <2>5, <2>6
<1>10. MaxPhase'
  BY <1>1, <1>3, <1>9 DEF MaxPhase, Zero, Term
<1> QED BY <1>2, <1>4, <1>10 DEF RowInv

LEMMA ShuffleMaxKeepsRow ==
  ASSUME RowInv, ShuffleMax
  PROVE  RowInv'
<1>1. /\ UNCHANGED <<row, pc, i, sum, x, y, stat>>
      /\ \A l \in Lane : pc[l] = "maxed"
      /\ off > 0 /\ off' = off \div 2
      /\ m' = [l \in Lane |-> Fmax(m[l], m[Partner(l)])]
  BY DEF ShuffleMax
<1>2. IInv' /\ IInv /\ TypeOK
  BY WarpKeepsIInv DEF RowInv, Warp, IInv
<1>3. MaxPhase
  BY <1>1, Disjoint, LaneFacts DEF RowInv
<1>4. /\ IsLevel(off) /\ Width = 2 * off /\ Width' = off /\ OffsetOK'
      /\ off \in Nat \ {0}
  BY <1>1, HalfWidth DEF RowInv, IsLevel
<1>5. Registers'
  BY <1>1 DEF RowInv, Registers
<1>6. Limit' = Limit /\ Limit \in Nat \ {0}
  BY <1>1, <1>2, SameRow, RowFacts DEF TypeOK
<1>7. ASSUME NEW l \in Lane  PROVE m'[l] = MaxOver(Class(l, Width))'
  <2> DEFINE a == 2 * off
             p == Partner(l)
             r == l % off
  <2>1. /\ p \in Lane /\ r \in 0 .. off - 1
        /\ \/ l % a = r /\ p % a = r + off
           \/ l % a = r + off /\ p % a = r
    BY <1>4, Partners
  <2>2. m[l] = MaxOver(Class(l, a)) /\ m[p] = MaxOver(Class(p, a))
    BY <1>1, <1>3, <1>4, <2>1 DEF MaxPhase
  <2> HIDE DEF p
  <2>3. Class(l, a) \cup Class(p, a) = Class(l, off)
    <3>1. ASSUME NEW c \in 0 .. Limit - 1
          PROVE  (c % a = l % a \/ c % a = p % a) <=> c % off = r
      <4> DEFINE d == c % off
                 e == c % a
      <4>1. c \in Nat /\ off \in Nat \ {0}
        BY <1>4, <1>6
      <4>2. d \in 0 .. off - 1 /\ (e = d \/ e = d + off)
        BY ONLY <4>1, TwoRemainders, Zenon
      <4> DEFINE la == l % a
                 pa == p % a
      <4>3. (la = r /\ pa = r + off) \/ (la = r + off /\ pa = r)
        BY <2>1
      <4> HIDE DEF d, e, la, pa, r
      <4>4. (e = la \/ e = pa) <=> d = r
        BY <2>1, <4>1, <4>2, <4>3
      <4> QED BY <4>4 DEF d, e, la, pa
    <3> HIDE DEF a
    <3> QED BY <3>1 DEF Class
  <2>4. m'[l] = MaxOf(m[l].args \cup m[p].args)
    BY <1>1 DEF Fmax, p
  <2> HIDE DEF a, r
  <2>5. m[l].args = {X(c) : c \in Class(l, a)} /\ m[p].args = {X(c) : c \in Class(p, a)}
    BY <2>2 DEF MaxOver, MaxOf, Term
  <2>6. m'[l] = MaxOver(Class(l, off))
    <3>1. {X(c) : c \in Class(l, a)} \cup {X(c) : c \in Class(p, a)}
            = {X(c) : c \in Class(l, off)}
      BY <2>3
    <3> QED BY <2>4, <2>5, <3>1 DEF MaxOver
  <2>7. MaxOver(Class(l, Width))' = MaxOver(Class(l, off))
    <3>1. Class(l, Width)' = Class(l, off)
      BY <1>4, <1>6 DEF Class
    <3> QED BY <3>1 DEF MaxOver, MaxOf, X, Term
  <2> QED BY <2>6, <2>7
<1>8. MaxPhase'
  BY <1>1, <1>3, <1>7 DEF MaxPhase, Zero, Term
<1> QED BY <1>2, <1>4, <1>5, <1>8 DEF RowInv

(* The terms of a lane's share, in the order in which it takes them.       *)
LEMMA ShareIs ==
  ASSUME row \in Launches, NEW l \in Lane, NEW k \in Nat,
         l + k * Lanes >= Limit, k > 0 => l + (k - 1) * Lanes < Limit
  PROVE  Shares[l] = AddedUp(Terms(l), k)
<1>1. Lanes \in Nat \ {0} /\ l \in Nat /\ Limit \in Nat
  BY LaneFacts, RowFacts
<1>2. Shares[l] =
        AddedUp(Terms(l), IF l >= Limit THEN 0 ELSE (Limit - 1 - l) \div Lanes + 1)
  BY DEF Shares
<1>3. CASE k = 0
  BY <1>1, <1>2, <1>3
<1>4. CASE k # 0
  <2> DEFINE last == Limit - 1 - l
             q == k - 1
             low == q * Lanes
  <2>1. q \in Nat /\ low \in Nat /\ k * Lanes = low + Lanes
    <3>1. q \in Nat /\ k = q + 1
      BY <1>4
    <3> HIDE DEF q
    <3> QED BY <1>1, <3>1, Products
  <2>2. ~(l >= Limit) /\ last \in Nat /\ low <= last /\ last < low + Lanes
    <3>1. l + low < Limit /\ l + (low + Lanes) >= Limit
      BY <1>4, <2>1
    <3> HIDE DEF low
    <3> QED BY <1>1, <2>1, <3>1
  <2>3. last \div Lanes = q
    <3> DEFINE r == last - low
    <3> HIDE DEF last, low
    <3>1. r \in Nat /\ r < Lanes /\ last = low + r
      BY <1>1, <2>1, <2>2
    <3> HIDE DEF q, r
    <3>2. last = q * Lanes + r
      BY <3>1 DEF low
    <3> QED BY <1>1, <2>1, <3>1, <3>2, Remainder
  <2>4. (IF l >= Limit THEN 0 ELSE last \div Lanes + 1) = k
    <3> HIDE DEF last
    <3> QED BY <1>1, <1>4, <2>2, <2>3
  <2> QED BY <1>2, <2>4
<1> QED BY <1>3, <1>4

LEMMA SumStepKeepsRow ==
  ASSUME RowInv, NEW l \in Lane, SumStep(l)
  PROVE  RowInv'
<1>1. /\ UNCHANGED <<row, pc, m, off, x, y, stat>> /\ Advance(l)
      /\ pc[l] = "sum" /\ i[l] < Limit
      /\ sum' = [sum EXCEPT ![l] = Plus(@, Summand(l))]
  BY DEF SumStep
<1>2. IInv' /\ IInv /\ TypeOK
  BY StepKeepsIInv DEF RowInv, Step, IInv
<1>3. SumPhase
  BY <1>1, Disjoint DEF RowInv
<1>4. Registers' /\ OffsetOK'
  BY <1>1 DEF RowInv, Registers, OffsetOK
<1>5. /\ Limit' = Limit /\ Limit \in Nat \ {0} /\ Limit <= row.width
      /\ row.width \in Nat /\ RowMax' = RowMax /\ Shares' = Shares
      /\ \A t : Terms(t)' = Terms(t)
  BY <1>1, <1>2, SameRow, RowFacts DEF TypeOK
<1>6. /\ i[l] \in Nat /\ i'[l] = i[l] + Lanes
      /\ \A t \in Lane : t # l => i'[t] = i[t]
      /\ Lanes \in Nat \ {0} /\ l \in Nat
  BY <1>1, <1>2, OwnsIndex, AdvanceInShare, LaneFacts
<1>7. x[i[l]] = X(i[l])
  <2>1. i[l] \in Column
    BY <1>1, <1>5, <1>6 DEF Column
  <2> QED BY <1>1, <1>2, <2>1, ReadsAreOriginal DEF Reads
<1>8. PICK k \in Nat : Summed(l, k)
  BY <1>1, <1>3 DEF SumPhase
<1>9. Summed(l, k + 1)'
  <2>1. /\ k + 1 \in Nat /\ k + 1 - 1 = k
        /\ (k + 1) * Lanes = k * Lanes + Lanes /\ k * Lanes \in Nat
    BY <1>6, Products
  <2>2. i'[l] = l + (k + 1) * Lanes
    BY <1>6, <1>8, <2>1 DEF Summed
  <2>3. l + (k + 1 - 1) * Lanes < Limit'
    BY <1>1, <1>5, <1>8, <2>1 DEF Summed
  <2>4. Summand(l) = Terms(l)[k]
    <3>1. i[l] = l + k * Lanes
      BY <1>8 DEF Summed
    <3>2. row.kernel # "rmsnorm" => m[l] = RowMax
      BY <1>3 DEF SumPhase, MaxKnown
    <3> QED BY <1>7, <3>1, <3>2 DEF Summand, Terms
  <2>5. sum'[l] = Plus(sum[l], Summand(l))
    BY <1>1 DEF RowInv, Registers
  <2>6. AddedUp(Terms(l), k + 1) = Plus(AddedUp(Terms(l), k), Terms(l)[k])
    BY AddedUpSteps
  <2>7. sum'[l] = AddedUp(Terms(l), k + 1)
    BY <1>8, <2>4, <2>5, <2>6 DEF Summed
  <2> QED BY <1>5, <2>2, <2>3, <2>7 DEF Summed
<1>10. ASSUME NEW t \in Lane
       PROVE  /\ pc'[t] \in {"sum", "summed"}
              /\ pc'[t] = "sum" => \E j \in Nat : Summed(t, j)'
              /\ pc'[t] = "summed" => sum'[t] = Halving(Shares, Width)'[t % Width']
  <2>1. pc'[t] \in {"sum", "summed"} /\ pc'[t] = pc[t]
    BY <1>1, <1>3 DEF SumPhase
  <2>2. CASE t = l
    <3>1. k + 1 \in Nat
      OBVIOUS
    <3> QED BY <1>1, <1>9, <2>1, <2>2, <3>1
  <2>3. CASE t # l
    <3>1. sum'[t] = sum[t] /\ i'[t] = i[t]
      BY <1>1, <1>6, <2>3 DEF RowInv, Registers
    <3>2. \A j \in Nat : Summed(t, j) => Summed(t, j)'
      BY <1>5, <3>1 DEF Summed
    <3>3. Halving(Shares, Width)' = Halving(Shares, Width) /\ Width' = Width
      BY <1>1, <1>5 DEF Width
    <3> QED BY <1>3, <2>1, <3>1, <3>2, <3>3 DEF SumPhase
  <2> QED BY <2>2, <2>3
<1>11. SumPhase'
  BY <1>1, <1>3, <1>5, <1>10 DEF SumPhase, MaxKnown
<1> QED BY <1>2, <1>4, <1>11 DEF RowInv

LEMMA SumDoneKeepsRow ==
  ASSUME RowInv, NEW l \in Lane, SumDone(l)
  PROVE  RowInv'
<1>1. /\ UNCHANGED <<row, i, m, sum, off, x, y, stat>>
      /\ pc[l] = "sum" /\ i[l] >= Limit
      /\ pc' = [pc EXCEPT ![l] = "summed"]
  BY DEF SumDone, Goto
<1>2. IInv' /\ IInv /\ TypeOK
  BY StepKeepsIInv DEF RowInv, Step, IInv
<1>3. SumPhase /\ off = Lanes \div 2 /\ pc \in [Lane -> Labels]
  BY <1>1, <1>2, Disjoint DEF RowInv, SumPhase, TypeOK
<1>4. Registers' /\ OffsetOK'
  BY <1>1 DEF RowInv, Registers, OffsetOK
<1>5. /\ Limit' = Limit /\ RowMax' = RowMax /\ Shares' = Shares
      /\ \A t : Terms(t)' = Terms(t)
  BY <1>1, SameRow
<1>6. Width = Lanes /\ Width' = Lanes
  BY <1>1, <1>3, FullWidth DEF Width
<1>7. PICK k \in Nat : Summed(l, k)
  BY <1>1, <1>3 DEF SumPhase
<1>8. sum[l] = Shares[l]
  BY <1>1, <1>2, <1>7, ShareIs DEF Summed, TypeOK
<1>9. sum[l] = Halving(Shares, Lanes)[l % Lanes]
  <2>1. l % Lanes = l /\ Lanes \in 1 .. Lanes /\ 2 * Lanes > Lanes
    BY LaneFacts
  <2>2. Halving(Shares, Lanes) = Shares
    BY <2>1, HalvingSteps
  <2> QED BY <1>8, <2>1, <2>2
<1>10. ASSUME NEW t \in Lane
       PROVE  /\ pc'[t] \in {"sum", "summed"}
              /\ pc'[t] = "sum" => \E j \in Nat : Summed(t, j)'
              /\ pc'[t] = "summed" => sum'[t] = Halving(Shares, Width)'[t % Width']
  <2>1. Halving(Shares, Width)' = Halving(Shares, Lanes) /\ Width' = Lanes
    BY <1>5, <1>6
  <2>2. CASE t = l
    BY <1>1, <1>3, <1>9, <2>1, <2>2
  <2>3. CASE t # l
    <3>1. pc'[t] = pc[t] /\ pc[t] \in {"sum", "summed"} /\ sum'[t] = sum[t]
      BY <1>1, <1>3, <2>3 DEF SumPhase
    <3>2. \A j \in Nat : Summed(t, j) => Summed(t, j)'
      BY <1>1, <1>5 DEF Summed
    <3>3. pc[t] = "summed" => sum[t] = Halving(Shares, Lanes)[t % Lanes]
      BY <1>3, <1>6 DEF SumPhase
    <3>4. pc[t] = "sum" => \E j \in Nat : Summed(t, j)
      BY <1>3 DEF SumPhase
    <3> QED BY <2>1, <3>1, <3>2, <3>3, <3>4
  <2> QED BY <2>2, <2>3
<1>11. SumPhase'
  BY <1>1, <1>3, <1>5, <1>10 DEF SumPhase, MaxKnown
<1> QED BY <1>2, <1>4, <1>11 DEF RowInv

(* Addition commutes, so both partners get the same sum.                   *)
LEMMA ShuffleSumKeepsRow ==
  ASSUME RowInv, ShuffleSum
  PROVE  RowInv'
<1>1. /\ UNCHANGED <<row, pc, i, m, x, y, stat>>
      /\ \A l \in Lane : pc[l] = "summed"
      /\ off > 0 /\ off' = off \div 2
      /\ sum' = [l \in Lane |-> Plus(sum[l], sum[Partner(l)])]
  BY DEF ShuffleSum
<1>2. IInv' /\ IInv /\ TypeOK
  BY WarpKeepsIInv DEF RowInv, Warp, IInv
<1>3. SumPhase
  BY <1>1, Disjoint, LaneFacts DEF RowInv
<1>4. /\ IsLevel(off) /\ Width = 2 * off /\ Width' = off /\ OffsetOK'
      /\ off \in Nat \ {0} /\ 2 * off <= Lanes /\ Lanes \in Nat
  BY <1>1, HalfWidth, LaneFacts DEF RowInv, IsLevel
<1>5. Registers'
  BY <1>1 DEF RowInv, Registers
<1>6. RowMax' = RowMax /\ Shares' = Shares
  BY <1>1, SameRow
<1>7. ASSUME NEW l \in Lane  PROVE sum'[l] = Halving(Shares, off)[l % off]
  <2> DEFINE p == Partner(l)
             r == l % off
             wide == Halving(Shares, 2 * off)
  <2>1. /\ p \in Lane /\ r \in 0 .. off - 1
        /\ \/ l % (2 * off) = r /\ p % (2 * off) = r + off
           \/ l % (2 * off) = r + off /\ p % (2 * off) = r
    BY <1>4, Partners
  <2>2. sum[l] = wide[l % (2 * off)] /\ sum[p] = wide[p % (2 * off)]
    BY <1>1, <1>3, <1>4, <2>1 DEF SumPhase
  <2>3. sum'[l] = Plus(sum[l], sum[p])
    BY <1>1
  <2> HIDE DEF p, r, wide
  <2>4. sum'[l] = Plus(wide[r], wide[r + off])
    BY <2>1, <2>2, <2>3 DEF Plus
  <2>5. Halving(Shares, off)[r] = Plus(wide[r], wide[r + off])
    <3>1. off \in 1 .. Lanes /\ ~(2 * off > Lanes)
      BY <1>4
    <3>2. Halving(Shares, off) =
             IF 2 * off > Lanes THEN Shares
             ELSE [t \in 0 .. off - 1 |->
                     Plus(Halving(Shares, 2 * off)[t], Halving(Shares, 2 * off)[t + off])]
      BY <3>1, HalvingSteps
    <3>3. Halving(Shares, off) = [t \in 0 .. off - 1 |-> Plus(wide[t], wide[t + off])]
      BY <3>1, <3>2 DEF wide
    <3> QED BY <2>1, <3>3
  <2> QED BY <2>4, <2>5 DEF r
<1>8. Halving(Shares, Width)' = Halving(Shares, off)
  BY <1>4, <1>6
<1>9. SumPhase'
  BY <1>1, <1>3, <1>4, <1>6, <1>7, <1>8 DEF SumPhase, MaxKnown
<1> QED BY <1>2, <1>4, <1>5, <1>9 DEF RowInv

(* With the offset used up, one register covers everything.                *)
LEMMA NextPassKeepsRow ==
  ASSUME RowInv, NextPass
  PROVE  RowInv'
<1>1. /\ UNCHANGED <<row, m, sum, x, y, stat>>
      /\ off = 0 /\ off' = Lanes \div 2
      /\ i' = [l \in Lane |-> l]
      /\ \/ /\ \A l \in Lane : pc[l] = "maxed"
            /\ pc' = [l \in Lane |-> "sum"]
         \/ /\ \A l \in Lane : pc[l] = "summed"
            /\ pc' = [l \in Lane |-> "stat"]
  BY DEF NextPass
<1>2. IInv' /\ IInv /\ row \in Launches
  BY WarpKeepsIInv DEF RowInv, Warp, IInv, TypeOK
<1>3. Registers'
  BY <1>1 DEF RowInv, Registers
<1>4. OffsetOK'
  BY <1>1, FirstLevel, LaneFacts DEF OffsetOK
<1>5. Width = 1
  BY <1>1 DEF Width
<1>6. 0 \in Lane /\ \A l \in Lane : l % 1 = 0 /\ l \in Nat /\ Lanes \in Nat
  BY LaneFacts
<1>7. /\ RowMax' = RowMax /\ Shares' = Shares /\ Limit' = Limit /\ RowSum' = RowSum
      /\ Column' = Column /\ Limit \in Nat
      /\ \A t : Terms(t)' = Terms(t)
      /\ \A c : Wanted(c)' = Wanted(c)
  BY <1>1, <1>2, SameRow, RowFacts
<1>8. CASE \A l \in Lane : pc[l] = "maxed"
  <2>1. MaxPhase
    BY <1>6, <1>8, Disjoint DEF RowInv
  <2>2. ASSUME NEW l \in Lane  PROVE m[l] = RowMax
    <3>1. Class(l, 1) = 0 .. Limit - 1
      BY <1>6, <1>7 DEF Class
    <3>2. m[l] = MaxOver(Class(l, 1))
      BY <1>5, <1>8, <2>1 DEF MaxPhase
    <3> QED BY <3>1, <3>2 DEF MaxOver, RowMax
  <2>3. MaxKnown'
    BY <1>1, <1>7, <2>2 DEF MaxKnown
  <2>4. ASSUME NEW l \in Lane  PROVE pc'[l] = "sum" /\ Summed(l, 0)'
    <3>1. pc'[l] = "sum" /\ i'[l] = l
      BY <1>1, <1>6, <1>8
    <3>2. l + 0 * Lanes = l
      BY <1>6
    <3>3. sum'[l] = AddedUp(Terms(l)', 0)
      BY <1>1, <1>7, <2>1, AddedUpSteps DEF MaxPhase
    <3> QED BY <3>1, <3>2, <3>3 DEF Summed
  <2>5. SumPhase'
    <3>1. \A l \in Lane : pc'[l] = "sum" /\ \E k \in Nat : Summed(l, k)'
      BY <2>4
    <3> QED BY <1>1, <2>3, <3>1 DEF SumPhase
  <2> QED BY <1>2, <1>3, <1>4, <2>5 DEF RowInv
<1>9. CASE \A l \in Lane : pc[l] = "summed"
  <2>1. SumPhase
    BY <1>6, <1>9, Disjoint DEF RowInv
  <2>2. MaxKnown'
    BY <1>1, <1>7, <2>1 DEF MaxKnown, SumPhase
  <2>3. ASSUME NEW l \in Lane
        PROVE  /\ pc'[l] = "stat" /\ sum'[l] = RowSum'
               /\ \A c \in Column' : ~(Owns(l, c) /\ c < i'[l])
    <3>1. pc'[l] = "stat" /\ i'[l] = l
      BY <1>1, <1>6, <1>9
    <3>2. sum[l] = Halving(Shares, 1)[0]
      BY <1>5, <1>6, <1>9, <2>1 DEF SumPhase
    <3> QED BY <1>1, <1>7, <3>1, <3>2, NoneOwnedBefore DEF RowSum
  <2>4. WritePhase'
    <3>1. pc'[0] = "stat"
      BY <1>6, <2>3
    <3>2. \A l \in Lane : \A c \in Column' : ~(Owns(l, c)' /\ c < i'[l])
      BY <2>3 DEF Owns
    <3> QED BY <2>2, <2>3, <3>1, <3>2 DEF WritePhase
  <2> QED BY <1>2, <1>3, <1>4, <2>4 DEF RowInv
<1> QED BY <1>1, <1>8, <1>9

LEMMA PublishKeepsRow ==
  ASSUME RowInv, NEW l \in Lane, Publish(l)
  PROVE  RowInv'
<1> DEFINE label == IF row.kernel = "ce_row" THEN "done" ELSE "write"
<1>1. /\ UNCHANGED <<row, i, m, sum, off, x, y>>
      /\ pc[l] = "stat" /\ pc' = [pc EXCEPT ![l] = label]
      /\ stat' = IF l # 0 \/ row.kernel = "softmax" THEN stat
                 ELSE IF row.kernel = "rmsnorm" THEN Rstd(sum[l])
                 ELSE Nll(m[l], sum[l], x[row.target])
  BY DEF Publish, Goto
<1>2. IInv' /\ IInv /\ row \in Launches /\ pc \in [Lane -> Labels]
  BY StepKeepsIInv DEF RowInv, Step, IInv, TypeOK
<1>3. WritePhase
  BY <1>1, Disjoint DEF RowInv
<1>4. Registers' /\ OffsetOK'
  BY <1>1 DEF RowInv, Registers, OffsetOK
<1>5. /\ RowMax' = RowMax /\ RowSum' = RowSum /\ Column' = Column
      /\ WantedStat' = WantedStat /\ \A c : Wanted(c)' = Wanted(c)
  BY <1>1, SameRow
<1>6. 0 \in Lane /\ row.target \in Column
      /\ row.kernel \in {"softmax", "rmsnorm", "ce_row"}
  BY <1>2, LaneFacts, RowFacts
<1>7. ASSUME l = 0, row.kernel # "softmax"  PROVE stat' = WantedStat
  <2>1. sum[l] = RowSum
    BY <1>3 DEF WritePhase
  <2>2. CASE row.kernel = "rmsnorm"
    BY <1>1, <1>7, <2>1, <2>2 DEF WantedStat
  <2>3. CASE row.kernel = "ce_row"
    <3>1. x[row.target] = X(row.target)
      BY <1>1, <1>2, <1>6, <1>7, <2>3, ReadsAreOriginal DEF Reads
    <3>2. m[l] = RowMax
      BY <1>3, <2>3 DEF WritePhase, MaxKnown
    <3>3. stat' = Nll(m[l], sum[l], x[row.target])
      BY <1>1, <1>7, <2>3
    <3> QED BY <2>1, <2>3, <3>1, <3>2, <3>3 DEF WantedStat
  <2> QED BY <1>6, <1>7, <2>2, <2>3
<1>8. ASSUME pc'[0] \in {"write", "done"}, row.kernel # "softmax"
      PROVE  stat' = WantedStat
  <2>1. CASE l = 0
    BY <1>7, <1>8, <2>1
  <2>2. CASE l # 0
    <3>1. pc'[0] = pc[0] /\ stat' = stat
      BY <1>1, <1>2, <1>6, <2>2
    <3> QED BY <1>3, <1>8, <3>1 DEF WritePhase
  <2> QED BY <2>1, <2>2
<1>9. ASSUME NEW t \in Lane
      PROVE  /\ pc'[t] \in {"stat", "write", "done"}
             /\ pc'[t] = "done" /\ row.kernel # "ce_row" => row.width <= i[t]
  <2>1. CASE t = l
    <3>1. pc'[t] = label
      BY <1>1, <1>2, <2>1
    <3> QED BY <3>1
  <2>2. CASE t # l
    <3>1. pc'[t] = pc[t]
      BY <1>1, <1>2, <2>2
    <3> QED BY <1>3, <3>1 DEF WritePhase
  <2> QED BY <2>1, <2>2
<1>10. ASSUME NEW t \in Lane, NEW c \in Column, Owns(t, c)', c < i'[t]
       PROVE  y'[c] = Wanted(c)
  <2>1. Owns(t, c) /\ c < i[t]
    BY <1>1, <1>10 DEF Owns
  <2> QED BY <1>1, <1>3, <2>1 DEF WritePhase
<1>11. WritePhase'
  <2>1. MaxKnown'
    BY <1>1, <1>3, <1>5 DEF WritePhase, MaxKnown
  <2>2. \A t \in Lane : sum'[t] = RowSum'
    BY <1>1, <1>3, <1>5 DEF WritePhase
  <2> QED BY <1>1, <1>5, <1>8, <1>9, <1>10, <2>1, <2>2 DEF WritePhase
<1> QED BY <1>2, <1>4, <1>11 DEF RowInv

(* What a lane writes it computes from the column as it was, and no other  *)
(* lane owns the column.                                                   *)
LEMMA WriteStepKeepsRow ==
  ASSUME RowInv, NEW l \in Lane, WriteStep(l)
  PROVE  RowInv'
<1>1. /\ UNCHANGED <<row, pc, m, sum, off, stat>> /\ Advance(l)
      /\ pc[l] = "write" /\ i[l] < row.width
      /\ y' = [y EXCEPT ![i[l]] = Result(l, i[l])]
  BY DEF WriteStep
<1>2. IInv' /\ IInv /\ TypeOK /\ row \in Launches /\ DOMAIN y = Column
  BY StepKeepsIInv DEF RowInv, Step, IInv, TypeOK
<1>3. WritePhase
  BY <1>1, Disjoint DEF RowInv
<1>4. Registers' /\ OffsetOK'
  BY <1>1 DEF RowInv, Registers, OffsetOK
<1>5. /\ RowMax' = RowMax /\ RowSum' = RowSum /\ Column' = Column
      /\ WantedStat' = WantedStat /\ \A c : Wanted(c)' = Wanted(c)
  BY <1>1, SameRow
<1>6. /\ i[l] \in Nat /\ Owns(l, i[l]) /\ i'[l] = i[l] + Lanes
      /\ \A t \in Lane : t # l => i'[t] = i[t]
      /\ Lanes \in Nat \ {0}
  BY <1>1, <1>2, OwnsIndex, AdvanceInShare, LaneFacts
<1>7. row.width \in Nat /\ i[l] \in Column
  BY <1>1, <1>2, <1>6, RowFacts DEF Column
<1>8. Result(l, i[l]) = Wanted(i[l])
  <2>1. x[i[l]] = X(i[l])
    BY <1>1, <1>2, <1>7, ReadsAreOriginal DEF Reads
  <2>2. sum[l] = RowSum /\ (row.kernel # "rmsnorm" => m[l] = RowMax)
    BY <1>3 DEF WritePhase, MaxKnown
  <2> QED BY <2>1, <2>2 DEF Result, Wanted
<1>9. ASSUME NEW t \in Lane, NEW c \in Column, Owns(t, c), c < i'[t]
      PROVE  y'[c] = Wanted(c)
  <2>1. c \in Nat
    BY <1>7 DEF Column
  <2>2. CASE c = i[l]
    BY <1>1, <1>2, <1>8, <2>2
  <2>3. CASE c # i[l]
    <3>1. y'[c] = y[c]
      BY <1>1, <1>2, <2>3
    <3>2. CASE t = l
      <4>1. c <= i[l]
        BY <1>2, <1>6, <1>9, <2>1, <3>2, NextOwned
      <4>2. c < i[l]
        BY <1>6, <2>1, <2>3, <4>1
      <4> QED BY <1>3, <1>9, <3>1, <3>2, <4>2 DEF WritePhase
    <3>3. CASE t # l
      <4>1. c < i[t]
        BY <1>6, <1>9, <3>3
      <4> QED BY <1>3, <1>9, <3>1, <4>1 DEF WritePhase
    <3> QED BY <3>2, <3>3
  <2> QED BY <2>2, <2>3
<1>10. ASSUME NEW t \in Lane, pc'[t] = "done", row.kernel # "ce_row"
       PROVE  row.width <= i'[t]
  <2>1. t # l /\ pc[t] = "done"
    BY <1>1, <1>10
  <2> QED BY <1>3, <1>6, <1>10, <2>1 DEF WritePhase
<1>11. WritePhase'
  <2>1. MaxKnown'
    BY <1>1, <1>3, <1>5 DEF WritePhase, MaxKnown
  <2>2. \A t \in Lane : sum'[t] = RowSum' /\ pc'[t] \in {"stat", "write", "done"}
    BY <1>1, <1>3, <1>5 DEF WritePhase
  <2>3. pc'[0] \in {"write", "done"} /\ row.kernel # "softmax" => stat' = WantedStat'
    BY <1>1, <1>3, <1>5 DEF WritePhase
  <2>4. \A t \in Lane : \A c \in Column' : Owns(t, c)' /\ c < i'[t] => y'[c] = Wanted(c)'
    BY <1>5, <1>9 DEF Owns
  <2> QED BY <1>1, <1>10, <2>1, <2>2, <2>3, <2>4 DEF WritePhase
<1> QED BY <1>2, <1>4, <1>11 DEF RowInv

LEMMA WriteDoneKeepsRow ==
  ASSUME RowInv, NEW l \in Lane, WriteDone(l)
  PROVE  RowInv'
<1>1. /\ UNCHANGED <<row, i, m, sum, off, x, y, stat>>
      /\ pc[l] = "write" /\ i[l] >= row.width
      /\ pc' = [pc EXCEPT ![l] = "done"]
  BY DEF WriteDone, Goto
<1>2. IInv' /\ IInv /\ row \in Launches /\ pc \in [Lane -> Labels] /\ TypeOK
  BY StepKeepsIInv DEF RowInv, Step, IInv, TypeOK
<1>3. WritePhase
  BY <1>1, Disjoint DEF RowInv
<1>4. Registers' /\ OffsetOK'
  BY <1>1 DEF RowInv, Registers, OffsetOK
<1>5. /\ RowMax' = RowMax /\ RowSum' = RowSum /\ Column' = Column
      /\ WantedStat' = WantedStat /\ \A c : Wanted(c)' = Wanted(c)
  BY <1>1, SameRow
<1>6. row.width \in Nat /\ i[l] \in Nat /\ 0 \in Lane
  BY <1>2, RowFacts, LaneFacts, OwnsIndex
<1>7. ASSUME NEW t \in Lane
      PROVE  /\ pc'[t] \in {"stat", "write", "done"}
             /\ pc'[t] = "done" /\ row.kernel # "ce_row" => row.width <= i[t]
             /\ pc'[t] \in {"write", "done"} => pc[t] \in {"write", "done"}
  <2>1. CASE t = l
    BY <1>1, <1>2, <1>6, <2>1
  <2>2. CASE t # l
    <3>1. pc'[t] = pc[t]
      BY <1>1, <1>2, <2>2
    <3> QED BY <1>3, <3>1 DEF WritePhase
  <2> QED BY <2>1, <2>2
<1>8. ASSUME NEW t \in Lane, NEW c \in Column, Owns(t, c)', c < i'[t]
      PROVE  y'[c] = Wanted(c)
  <2>1. Owns(t, c) /\ c < i[t]
    BY <1>1, <1>8 DEF Owns
  <2> QED BY <1>1, <1>3, <2>1 DEF WritePhase
<1>9. WritePhase'
  <2>1. MaxKnown'
    BY <1>1, <1>3, <1>5 DEF WritePhase, MaxKnown
  <2>2. \A t \in Lane : sum'[t] = RowSum'
    BY <1>1, <1>3, <1>5 DEF WritePhase
  <2>3. pc'[0] \in {"write", "done"} /\ row.kernel # "softmax" => stat' = WantedStat'
    BY <1>1, <1>3, <1>5, <1>6, <1>7 DEF WritePhase
  <2> QED BY <1>1, <1>5, <1>7, <1>8, <2>1, <2>2, <2>3 DEF WritePhase
<1> QED BY <1>2, <1>4, <1>9 DEF RowInv

LEMMA StutterKeepsRow ==
  ASSUME RowInv, UNCHANGED vars
  PROVE  RowInv'
<1>1. UNCHANGED <<row, pc, i, m, sum, off, x, y, stat>>
  BY DEF vars
<1>2. IInv'
  BY <1>1 DEF RowInv, IInv, TypeOK, Aliasing, OverwrittenByOwner, Launch, Column, X, Term, Owns
<1>3. Registers' /\ OffsetOK' /\ Width' = Width
  BY <1>1 DEF RowInv, Registers, OffsetOK, Width
<1>4. /\ Limit' = Limit /\ Column' = Column /\ RowMax' = RowMax
      /\ Shares' = Shares /\ RowSum' = RowSum
      /\ \A l : Terms(l)' = Terms(l)
      /\ \A c : Wanted(c)' = Wanted(c)
      /\ WantedStat' = WantedStat
  BY <1>1, SameRow
<1>5. MaxKnown => MaxKnown'
  BY <1>1, <1>4 DEF MaxKnown
<1>6. CASE MaxPhase
  <2>1. \A l \in Lane : MaxOver(Taken(l))' = MaxOver(Taken(l))
    BY <1>1, <1>4 DEF Taken, MaxOver, MaxOf, X, Term, Owns
  <2>2. \A l \in Lane : MaxOver(Class(l, Width))' = MaxOver(Class(l, Width))
    BY <1>3, <1>4 DEF Class, MaxOver, MaxOf, X, Term
  <2>3. MaxPhase'
    BY <1>1, <1>6, <2>1, <2>2 DEF MaxPhase, Zero, Term
  <2> QED BY <1>2, <1>3, <2>3 DEF RowInv
<1>7. CASE SumPhase
  <2>1. \A l \in Lane, k \in Nat : Summed(l, k) => Summed(l, k)'
    BY <1>1, <1>4 DEF Summed
  <2>2. Halving(Shares, Width)' = Halving(Shares, Width)
    BY <1>3, <1>4
  <2>3. SumPhase'
    BY <1>1, <1>3, <1>5, <1>7, <2>1, <2>2 DEF SumPhase
  <2> QED BY <1>2, <1>3, <2>3 DEF RowInv
<1>8. CASE WritePhase
  <2>1. \A l \in Lane, c \in Column : Owns(l, c)' <=> Owns(l, c)
    BY DEF Owns
  <2>2. WritePhase'
    BY <1>1, <1>4, <1>5, <1>8, <2>1 DEF WritePhase
  <2> QED BY <1>2, <1>3, <2>2 DEF RowInv
<1> QED BY <1>6, <1>7, <1>8 DEF RowInv

LEMMA SpecRow == Spec => []RowInv
<1>1. RowInv /\ [Next]_vars => RowInv'
  <2> SUFFICES ASSUME RowInv, [Next]_vars  PROVE RowInv'
    OBVIOUS
  <2>1. ASSUME NEW l \in Lane, Step(l)  PROVE RowInv'
    BY <2>1, MaxStepKeepsRow, MaxDoneKeepsRow, SumStepKeepsRow, SumDoneKeepsRow,
       PublishKeepsRow, WriteStepKeepsRow, WriteDoneKeepsRow DEF Step
  <2>2. CASE Warp
    BY <2>2, ShuffleMaxKeepsRow, ShuffleSumKeepsRow, NextPassKeepsRow DEF Warp
  <2> QED BY <2>1, <2>2, StutterKeepsRow DEF Next
<1> QED BY InitRow, <1>1, PTL DEF Spec

-----------------------------------------------------------------------------
(* When all lanes are done every column has been written by its owner.     *)
LEMMA FinishedRow ==
  ASSUME RowInv, Finished
  PROVE  /\ row.kernel # "ce_row" => \A c \in Column : y[c] = Wanted(c)
         /\ row.kernel # "softmax" => stat = WantedStat
<1>1. 0 \in Lane /\ Lanes \in Nat \ {0} /\ row \in Launches /\ TypeOK
  BY LaneFacts DEF RowInv, IInv, TypeOK
<1>2. WritePhase
  BY <1>1, Disjoint DEF RowInv, Finished
<1>3. row.kernel # "softmax" => stat = WantedStat
  BY <1>1, <1>2 DEF WritePhase, Finished
<1>4. ASSUME row.kernel # "ce_row", NEW c \in Column  PROVE y[c] = Wanted(c)
  <2>1. c \in Nat /\ c < row.width /\ row.width \in Nat
    BY <1>1, RowFacts DEF Column
  <2> DEFINE l == c % Lanes
  <2>2. l \in Lane
    BY <1>1, <2>1 DEF Lane
  <2>3. l = c % Lanes
    OBVIOUS
  <2> HIDE DEF l
  <2>4. Owns(l, c)
    BY <2>1, <2>2, <2>3, OwnsIsRemainder
  <2>5. row.width <= i[l] /\ i[l] \in Nat
    BY <1>1, <1>2, <1>4, <2>2, OwnsIndex DEF WritePhase, Finished
  <2>6. c < i[l]
    BY <2>1, <2>5
  <2> QED BY <1>2, <2>2, <2>4, <2>6 DEF WritePhase
<1> QED BY <1>3, <1>4

(* For a warp and rows of any size, in whatever order the lanes run and    *)
(* whether or not the kernel writes the row it reads: the reductions are   *)
(* the maximum and the halving-tree sum of the original row, and every     *)
(* column gets its result from them.                                       *)
THEOREM WarpRowRowCorrect == Spec => []RowCorrect
<1>1. RowInv => RowCorrect
  <2> SUFFICES ASSUME RowInv, Finished
               PROVE  /\ row.kernel = "softmax" =>
                           \A c \in Column :
                             y[c] = IF c < Limit THEN Prob(X(c), RowMax, RowSum)
                                    ELSE Zero
                      /\ row.kernel = "rmsnorm" =>
                           /\ stat = Rstd(RowSum)
                           /\ \A c \in Column : y[c] = Scaled(c, X(c), RowSum)
                      /\ row.kernel = "ce_row" => stat = Nll(RowMax, RowSum, X(row.target))
    BY DEF RowCorrect
  <2> QED BY FinishedRow DEF Wanted, WantedStat
<1> QED BY <1>1, SpecRow, PTL

(* For a query of any row: exactly the columns of its future get 0.        *)
THEOREM WarpRowCausalExact == Spec => []CausalExact
<1>1. RowInv => CausalExact
  <2> SUFFICES ASSUME RowInv, Finished, row.causal, NEW c \in Column
               PROVE  y[c] = Zero <=> c > row.q
    BY DEF CausalExact
  <2>1. row.kernel = "softmax" /\ row \in Launches
    BY DEF RowInv, IInv, Aliasing, Launch, TypeOK
  <2>2. Limit = row.q + 1 /\ row.q \in Nat /\ row.width \in Nat
    BY <2>1, RowFacts DEF Limit
  <2>3. c \in Nat
    BY <2>2 DEF Column
  <2>4. y[c] = IF c < Limit THEN Prob(X(c), RowMax, RowSum) ELSE Zero
    BY <2>1, FinishedRow DEF Wanted
  <2>5. Prob(X(c), RowMax, RowSum) # Zero
    BY DEF Prob, Zero, Term
  <2>6. c < Limit <=> ~(c > row.q)
    BY <2>2, <2>3
  <2> QED BY <2>4, <2>5, <2>6
<1> QED BY <1>1, SpecRow, PTL
=============================================================================
