CONSTANTS
  Levels = 4
  Dropped = 2
  M0 = 5
  M1 = 3
  W0 = 5
  W1 = 3
  Rounds = 10
  Xor32 <- WordXor
  Seeds <- SomeSeeds
  Streams <- U64
  Indices <- U64
SPECIFICATION DrawsSpec
INVARIANTS
  DrawsDistinct
  DrawsBalanced
CHECK_DEADLOCK FALSE
