CONSTANTS
  Caches = {device1, device2}
  NoCache = NoCache
  Programs <- EmptyBatchPrograms
  Algos = {algo1, algo2}
  NoAlgo = NoAlgo
  IntLimit = 4
  MaxEntries = 2
SPECIFICATION Spec
INVARIANTS
  EveryBatchIndexOnce
CHECK_DEADLOCK FALSE
