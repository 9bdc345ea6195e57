CONSTANTS
  Align = 4
  Word = 64
  Capacity = 19
  Requests = {0, 1, 3, 5, 7, 11}
  Numels <- ValidNumels
  MaxLive = 4
  Programs <- SomePrograms
SPECIFICATION StreamSpec
INVARIANTS TypeOK LiveSound Packed RefusedMeansFull TensorsHold HostCurrent
PROPERTIES HighWaterExact ImplementsRegions
CHECK_DEADLOCK FALSE
