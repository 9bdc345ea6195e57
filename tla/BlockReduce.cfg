CONSTANTS
  Threads = 8
  RowCounts = {0, 8, 11}
SPECIFICATION FairSpec
INVARIANTS
  RaceFree
  FixedOrder
PROPERTY
  Terminates
CHECK_DEADLOCK FALSE
