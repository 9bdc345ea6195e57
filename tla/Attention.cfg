CONSTANTS
  Calls <- SomeCalls
  Cells = 18
SPECIFICATION AttentionSpec
INVARIANTS AttentionCorrect OnlyTypesAbort SeesOnlyItsPast
CHECK_DEADLOCK FALSE
