CONSTANTS
  Align = 4
  Word = 64
  Capacity = 19
  Requests = {3}
  Numels <- WildNumels
  MaxLive = 4
  Programs <- NoDeviceWork
SPECIFICATION StreamSpec
INVARIANT AbortsOnExhaustion
CHECK_DEADLOCK FALSE
