----------------------------- MODULE DataFacts -----------------------------
(***************************************************************************)
(* What the proofs need of induction, numbers and sequences, stated once.  *)
(* They name no component.                                                 *)
(***************************************************************************)
EXTENDS Integers, Sequences, WellFoundedInduction, TLAPS

(* Induction over the natural numbers, of a set in place of a predicate:   *)
(* the least number outside S would be the successor of one inside.        *)
LEMMA SetInduction ==
  ASSUME NEW S, 0 \in S, \A n \in Nat : n \in S => n + 1 \in S
  PROVE  Nat \subseteq S
<1> DEFINE R == OpToRel(<, Nat)
           T == Nat \ S
<1>1. ASSUME T # {}  PROVE FALSE
  <2>1. PICK x \in T : \A y \in T : ~(<<y, x>> \in R)
    <3>1. T \subseteq Nat
      OBVIOUS
    <3>2. IsWellFoundedOn(R, Nat)
      BY NatLessThanWellFounded
    <3> HIDE DEF R, T
    <3> QED BY <1>1, <3>1, <3>2, WFMin
  <2>2. x \in Nat /\ x # 0
    OBVIOUS
  <2>3. x - 1 \in Nat /\ x - 1 + 1 = x
    BY <2>2
  <2>4. x - 1 \in T
    BY <2>3
  <2>5. <<x - 1, x>> \in R
    BY <2>2, <2>3 DEF OpToRel
  <2> QED BY <2>1, <2>4, <2>5
<1> QED BY <1>1

LEMMA DivideAndMultiply ==
  ASSUME NEW a \in Nat \ {0}, NEW x \in Nat
  PROVE  /\ (x \div a) * a \in Nat
         /\ (x \div a) * a <= x
         /\ x < (x \div a) * a + a
         /\ ((x \div a) * a) % a = 0
  BY SMT

LEMMA SmallModulo ==
  ASSUME NEW x \in Nat, NEW w \in Nat \ {0}, x < w
  PROVE  x % w = x
  BY SMT

LEMMA ElementInSet ==
  ASSUME NEW S, NEW s \in Seq(S), NEW i \in 1 .. Len(s)
  PROVE  s[i] \in S
  OBVIOUS

LEMMA AppendFacts ==
  ASSUME NEW S, NEW s \in Seq(S), NEW x \in S
  PROVE  /\ Append(s, x) \in Seq(S)
         /\ Len(s) \in Nat
         /\ Len(Append(s, x)) = Len(s) + 1
         /\ Append(s, x)[Len(s) + 1] = x
         /\ \A i \in 1 .. Len(s) : Append(s, x)[i] = s[i]
  OBVIOUS

LEMMA SubSeqFacts ==
  ASSUME NEW S, NEW s \in Seq(S), Len(s) \in Nat \ {0}
  PROVE  /\ SubSeq(s, 2, Len(s)) \in Seq(S)
         /\ Len(SubSeq(s, 2, Len(s))) = Len(s) - 1
         /\ \A k \in 1 .. Len(s) - 1 : SubSeq(s, 2, Len(s))[k] = s[k + 1]
<1>1. SubSeq(s, 2, Len(s)) \in Seq(S)
  OBVIOUS
<1>2. Len(SubSeq(s, 2, Len(s))) = Len(s) - 1
  <2>1. CASE Len(s) = 1
    BY <2>1
  <2>2. CASE Len(s) > 1
    BY <2>2
  <2> DEFINE size == Len(s)
  <2>3. size \in Nat \ {0}
    OBVIOUS
  <2> HIDE DEF size
  <2>4. size = 1 \/ size > 1
    BY ONLY <2>3
  <2>5. Len(s) = 1 \/ Len(s) > 1
    BY <2>4 DEF size
  <2> QED BY ONLY <2>1, <2>2, <2>5, Zenon
<1>3. \A k \in 1 .. Len(s) - 1 : SubSeq(s, 2, Len(s))[k] = s[k + 1]
  OBVIOUS
<1> QED BY <1>1, <1>2, <1>3

LEMMA ConcatTwo ==
  ASSUME NEW S, NEW a \in S, NEW b \in S
  PROVE  <<a>> \o <<b>> = <<a, b>>
<1> DEFINE s == <<a>> \o <<b>>
<1>1. Len(s) = 2 /\ s[1] = a /\ s[2] = b /\ s \in Seq(S)
  OBVIOUS
<1>2. <<a, b>> \in Seq(S)
  OBVIOUS
<1> HIDE DEF s
<1>3. s = <<a, b>>
  BY <1>1, <1>2
<1> QED BY <1>3 DEF s

LEMMA ConcatThird ==
  ASSUME NEW S, NEW a \in S, NEW b \in S, NEW c \in S
  PROVE  <<a, b>> \o <<c>> = <<a, b, c>>
<1> DEFINE s == <<a, b>> \o <<c>>
<1>1. Len(s) = 3 /\ s[1] = a /\ s[2] = b /\ s[3] = c /\ s \in Seq(S)
  OBVIOUS
<1>2. <<a, b, c>> \in Seq(S)
  OBVIOUS
<1> HIDE DEF s
<1>3. s = <<a, b, c>>
  BY <1>1, <1>2
<1> QED BY <1>3 DEF s

LEMMA SumOfMultiples ==
  ASSUME NEW a \in Nat \ {0}, NEW x \in Nat, NEW y \in Nat, x % a = 0, y % a = 0
  PROVE  (x + y) % a = 0
<1> DEFINE p == x \div a
           q == y \div a
<1>1. p \in Nat /\ q \in Nat /\ x = a * p /\ y = a * q
  BY SMT
<1> HIDE DEF p, q
<1>2. x + y = a * (p + q)
  BY <1>1, SMT
<1> DEFINE r == p + q
<1>3. r \in Nat
  BY <1>1
<1> HIDE DEF r
<1>4. (a * r) % a = 0
  BY <1>3, SMT
<1> QED BY <1>2, <1>4 DEF r

LEMMA MultiplesApart ==
  ASSUME NEW a \in Nat \ {0}, NEW x \in Nat, NEW y \in Nat,
         x % a = 0, y % a = 0, x < y + a
  PROVE  x <= y
<1> DEFINE p == x \div a
           q == y \div a
<1>1. p \in Nat /\ q \in Nat
  BY SMT
<1>2. x = a * p /\ y = a * q
  BY SMT
<1>3. p < q + 1
  <2>1. ASSUME p >= q + 1  PROVE FALSE
    <3>1. a * p >= a * (q + 1)
      BY <1>1, <2>1, SMT
    <3>2. a * (q + 1) = a * q + a
      BY <1>1, SMT
    <3> HIDE DEF p, q
    <3> QED BY <1>1, <1>2, <3>1, <3>2, SMT
  <2> QED BY <1>1, <2>1
<1>4. a * p <= a * q
  <2> HIDE DEF p, q
  <2> QED BY <1>1, <1>3, SMT
<1> QED BY <1>2, <1>4

(* Rounding up gives the first multiple of a at or above n, as long as the *)
(* biased sum is a machine word.                                           *)
LEMMA RoundUp ==
  ASSUME NEW a \in Nat \ {0}, NEW w \in Nat \ {0}, NEW n \in Nat, n + a <= w
  PROVE  LET up == (((n + a - 1) % w) \div a) * a IN
           up \in Nat /\ n <= up /\ up < n + a /\ up % a = 0
<1> DEFINE x == n + a - 1
           y == (x \div a) * a
<1>1. x \in Nat /\ x % w = x
  BY SmallModulo
<1>2. y \in Nat /\ y <= x /\ x < y + a /\ y % a = 0
  BY <1>1, DivideAndMultiply
<1>3. n <= y /\ y < n + a
  <2> HIDE DEF y
  <2> QED BY <1>2
<1> QED BY <1>1, <1>2, <1>3
-----------------------------------------------------------------------------
(* The extents multiplied from the first on.                               *)
LEMMA Multiplied ==
  ASSUME NEW s \in Seq(Nat), Len(s) \in 0 .. 4, NEW product,
         product = [n \in 0 .. Len(s) |-> IF n = 0 THEN 1 ELSE s[n] * product[n - 1]]
  PROVE  /\ Len(s) = 0 => product[Len(s)] = 1
         /\ Len(s) = 1 => product[Len(s)] = s[1]
         /\ Len(s) = 2 => product[Len(s)] = s[1] * s[2]
         /\ Len(s) = 3 => product[Len(s)] = (s[1] * s[2]) * s[3]
         /\ Len(s) = 4 => product[Len(s)] = ((s[1] * s[2]) * s[3]) * s[4]
<1>0. /\ \A n \in 1 .. Len(s) : s[n] \in Nat
      /\ \A n \in 0 .. Len(s) : product[n] = IF n = 0 THEN 1 ELSE s[n] * product[n - 1]
  BY ElementInSet
<1> DEFINE size == Len(s)
<1>1. size \in 0 .. 4
  OBVIOUS
<1> HIDE DEF size
<1>2. product[0] = 1
  BY <1>0, <1>1 DEF size
<1>3. 1 <= size => s[1] \in Nat /\ product[1] = s[1]
  BY <1>0, <1>1, <1>2 DEF size
<1>4. 2 <= size => s[2] \in Nat /\ product[2] = s[1] * s[2]
  <2> SUFFICES ASSUME 2 <= size PROVE s[2] \in Nat /\ product[2] = s[1] * s[2]
    OBVIOUS
  <2>1. 2 \in 1 .. Len(s) /\ 2 \in 0 .. Len(s) /\ 2 - 1 = 1
    BY <1>1 DEF size
  <2>2. s[2] \in Nat /\ product[2] = s[2] * product[1]
    BY <1>0, <2>1
  <2>3. s[1] \in Nat /\ product[1] = s[1]
    BY <1>1, <1>3
  <2> QED BY <2>2, <2>3, SMT
<1>5. 3 <= size => s[3] \in Nat /\ product[3] = (s[1] * s[2]) * s[3]
  <2> SUFFICES ASSUME 3 <= size PROVE s[3] \in Nat /\ product[3] = (s[1] * s[2]) * s[3]
    OBVIOUS
  <2>1. 3 \in 1 .. Len(s) /\ 3 \in 0 .. Len(s) /\ 3 - 1 = 2
    BY <1>1 DEF size
  <2>2. s[3] \in Nat /\ product[3] = s[3] * product[2]
    BY <1>0, <2>1
  <2>3. s[1] \in Nat /\ s[2] \in Nat /\ product[2] = s[1] * s[2]
    BY <1>1, <1>3, <1>4
  <2> QED BY <2>2, <2>3, SMT
<1>6. 4 <= size => product[4] = ((s[1] * s[2]) * s[3]) * s[4]
  <2> SUFFICES ASSUME 4 <= size PROVE product[4] = ((s[1] * s[2]) * s[3]) * s[4]
    OBVIOUS
  <2>1. 4 \in 1 .. Len(s) /\ 4 \in 0 .. Len(s) /\ 4 - 1 = 3
    BY <1>1 DEF size
  <2>2. s[4] \in Nat /\ product[4] = s[4] * product[3]
    BY <1>0, <2>1
  <2>3. s[1] \in Nat /\ s[2] \in Nat /\ s[3] \in Nat /\ product[3] = (s[1] * s[2]) * s[3]
    BY <1>1, <1>3, <1>4, <1>5
  <2> DEFINE volume == (s[1] * s[2]) * s[3]
  <2>4. volume \in Nat /\ product[3] = volume
    <3>1. \A x, y, z \in Nat : (x * y) * z \in Nat
      OBVIOUS
    <3> QED BY ONLY <2>3, <3>1
  <2> HIDE DEF volume
  <2>5. s[4] * volume = volume * s[4]
    BY ONLY <2>2, <2>4
  <2>6. product[4] = volume * s[4]
    BY <2>2, <2>4, <2>5, Zenon
  <2> QED BY <2>6 DEF volume
<1>7. size = 0 => product[size] = 1
  BY <1>2
<1>8. size = 1 => product[size] = s[1]
  BY <1>3
<1>9. size = 2 => product[size] = s[1] * s[2]
  BY <1>4
<1>10. size = 3 => product[size] = (s[1] * s[2]) * s[3]
  BY <1>5
<1>11. size = 4 => product[size] = ((s[1] * s[2]) * s[3]) * s[4]
  BY <1>6
<1> QED BY <1>7, <1>8, <1>9, <1>10, <1>11 DEF size

(* Element k of row n, in rows of w.                                       *)
LEMMA RowElement ==
  ASSUME NEW rows \in Nat, NEW w \in Nat, NEW n \in Nat, n < rows, NEW k \in Nat, k < w
  PROVE  n * w + k \in Nat /\ n * w + k < rows * w
<1>1. n * w \in Nat /\ rows * w \in Nat /\ (n + 1) * w <= rows * w
  BY SMT
<1>2. (n + 1) * w = n * w + w
  BY SMT
<1> QED BY <1>1, <1>2, SMT

LEMMA RowsApart ==
  ASSUME NEW w \in Nat, NEW m \in Nat, NEW n \in Nat, NEW j \in Nat, j < w,
         NEW k \in Nat, k < w, m * w + j = n * w + k
  PROVE  m = n /\ j = k
<1>1. m * w \in Nat /\ n * w \in Nat
  BY SMT
<1>2. m < n => m * w + j < n * w + k
  BY RowElement, <1>1, SMT
<1>3. n < m => n * w + k < m * w + j
  BY RowElement, <1>1, SMT
<1>4. m = n
  BY <1>1, <1>2, <1>3, SMT
<1> QED BY <1>1, <1>4, SMT

LEMMA RowOf ==
  ASSUME NEW rows \in Nat, NEW w \in Nat, NEW i \in Nat, i < rows * w
  PROVE  /\ w > 0 /\ rows > 0
         /\ i \div w \in Nat /\ i \div w < rows
         /\ i % w \in Nat /\ i % w < w
         /\ i = (i \div w) * w + (i % w)
<1>1. w > 0 /\ rows > 0
  BY SMT
<1> DEFINE q == i \div w
           e == i % w
<1>2. q \in Nat /\ e \in Nat /\ e < w /\ i = w * q + e
  BY <1>1, SMT
<1> HIDE DEF q, e
<1>3. w * q = q * w
  BY <1>2, SMT
<1>4. q < rows
  <2> SUFFICES ASSUME q >= rows PROVE FALSE
    BY <1>2
  <2>1. q * w >= rows * w
    BY <1>2, SMT
  <2> QED BY <1>2, <1>3, <2>1, SMT
<1> QED BY <1>1, <1>2, <1>3, <1>4 DEF q, e

LEMMA RowPlace ==
  ASSUME NEW w \in Nat \ {0}, NEW n \in Nat, NEW k \in Nat, k < w
  PROVE  (n * w + k) \div w = n /\ (n * w + k) % w = k
<1> DEFINE i == n * w + k
           q == i \div w
           e == i % w
<1>1. i \in Nat /\ n * w \in Nat
  BY SMT
<1>2. i = n * w + k
  OBVIOUS
<1> HIDE DEF i
<1>3. q \in Nat /\ e \in Nat /\ e < w /\ i = w * q + e
  BY <1>1, SMT
<1> HIDE DEF q, e
<1>4. w * q = q * w
  BY <1>3, SMT
<1>5. q * w + e = n * w + k
  BY <1>1, <1>2, <1>3, <1>4
<1>6. q = n /\ e = k
  BY ONLY <1>3, <1>5, RowsApart, w \in Nat \ {0}, n \in Nat, k \in Nat, k < w
<1> QED BY <1>2, <1>6 DEF q, e
=============================================================================
