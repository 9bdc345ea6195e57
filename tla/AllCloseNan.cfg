CONSTANTS
  Length = 2
  Finite = {0, 2}
  Rtols = {0, 1}
  Atols = {0, 1}
SPECIFICATION Spec
INVARIANT AnyNanIsBad
CHECK_DEADLOCK FALSE
