CONSTANTS
  Block = 5
  Warps = 4
  Calls <- AllCalls
  Extents = {0, 1, 2, 3}
  HeadDims = {1, 2, 4}
  Vocabulary = 3
SPECIFICATION Spec
INVARIANTS InBounds OneWriter MatchesHeader
CHECK_DEADLOCK FALSE
