CONSTANTS
  Caches = {device1, device2}
  NoCache = NoCache
  Programs <- AllPrograms
  Algos = {algo1, algo2}
  NoAlgo = NoAlgo
  IntLimit = 4
  MaxEntries = 2
SPECIFICATION Spec
INVARIANTS
  ComputesProduct
  StaysInTensors
  AlgorithmFits
  ReplaysAlgorithm
CHECK_DEADLOCK FALSE
