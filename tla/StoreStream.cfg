CONSTANTS
  Params = {"up", "down"}
  Buffers = {"a", "b"}
  Order <- UpDown
  Observed <- SomeOfEach
  MaxCalls = 3
SPECIFICATION Spec
INVARIANTS ZeroedBeforeUse DownloadCurrent PaddingStaysZero
PROPERTIES ImplementsCalls GradAccumulates MlpCorrect
CHECK_DEADLOCK FALSE
