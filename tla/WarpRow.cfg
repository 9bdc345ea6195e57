CONSTANTS
  Lanes = 4
  Kernels = {"softmax", "rmsnorm", "ce_row"}
  Widths = {1, 3, 4, 6, 9}
SPECIFICATION FairSpec
INVARIANTS ReadsOriginal RowCorrect CausalExact
PROPERTY Terminates
CHECK_DEADLOCK FALSE
