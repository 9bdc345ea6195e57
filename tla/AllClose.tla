------------------------------ MODULE AllClose ------------------------------
(***************************************************************************)
(* allclose (tests/support/golden_io.cpp): the loop that compares a        *)
(* kernel's output with the golden tensor.  A value is a small integer, an *)
(* infinity or NaN, with the IEEE rules for a difference, a product with a *)
(* tolerance and a comparison.                                             *)
(***************************************************************************)
EXTENDS Integers

CONSTANTS
  Length,    \* n
  Finite,    \* the finite values of elements
  Rtols,     \* rtol
  Atols      \* atol

Num(v) == [is |-> "finite", v |-> v]
Inf == [is |-> "inf", v |-> 1]
NegInf == [is |-> "inf", v |-> -1]
NaN == [is |-> "nan", v |-> 0]
Float == {Num(v) : v \in Finite} \cup {Inf, NegInf, NaN}

Abs(v) == IF v < 0 THEN -v ELSE v

(* std::abs(x - y).                                                        *)
AbsDifference(x, y) ==
  IF NaN \in {x, y} \/ (x.is = "inf" /\ x = y) THEN NaN
  ELSE IF "inf" \in {x.is, y.is} THEN Inf
  ELSE Num(Abs(x.v - y.v))

(* atol + rtol * std::abs(y); zero times infinity is NaN.                  *)
Tolerance(atol, rtol, y) ==
  IF y = NaN \/ (y.is = "inf" /\ rtol = 0) THEN NaN
  ELSE IF y.is = "inf" THEN Inf
  ELSE Num(atol + rtol * Abs(y.v))

(* x > y for values that are not negative; false when either is NaN.       *)
Greater(x, y) ==
  /\ NaN \notin {x, y} /\ y.is = "finite"
  /\ x = Inf \/ x.v > y.v

VARIABLES
  actual, expected, rtol, atol,  \* the arguments
  i,                             \* the loop variable
  r                              \* the report

vars == <<actual, expected, rtol, atol, i, r>>

Init ==
  /\ actual \in [0 .. Length - 1 -> Float]
  /\ expected \in [0 .. Length - 1 -> Float]
  /\ rtol \in Rtols /\ atol \in Atols
  /\ i = 0
  /\ r = [ok |-> TRUE, bad |-> 0, max |-> Num(0), worst |-> -1]

Distance(a, e) == IF NaN \in {a, e} THEN Inf ELSE AbsDifference(a, e)

Bad(a, e) == Greater(Distance(a, e), Tolerance(atol, rtol, e))

Compare ==
  /\ i < Length
  /\ LET d == Distance(actual[i], expected[i]) IN
       r' = IF ~Bad(actual[i], expected[i]) THEN r
            ELSE IF Greater(d, r.max) \/ r.worst < 0
            THEN [r EXCEPT !.bad = @ + 1, !.max = d, !.worst = i]
            ELSE [r EXCEPT !.bad = @ + 1]
  /\ i' = i + 1
  /\ UNCHANGED <<actual, expected, rtol, atol>>

Finish ==
  /\ i = Length
  /\ r' = [r EXCEPT !.ok = (r.bad = 0)]
  /\ i' = i + 1
  /\ UNCHANGED <<actual, expected, rtol, atol>>

Next == Compare \/ Finish

Spec == Init /\ [][Next]_vars

-----------------------------------------------------------------------------
Done == i > Length

(* golden_io.h: "any NaN on either side is bad (no NaN equality)".         *)
AnyNanIsBad ==
  Done /\ (\E j \in 0 .. Length - 1 : NaN \in {actual[j], expected[j]}) => ~r.ok
=============================================================================
