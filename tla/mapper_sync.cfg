SPECIFICATION FairSpec
CONSTANTS
  Horizon = 5
  ScanLen = 2
  Sizes = {"none", "one", "many"}
  Jump = 2
  MaxStep = 3
  Lag = 1
  MAX_INI_COUNT = 1
  LoopBack = FALSE
INVARIANTS HeadersMatch CompletePropagation PropagatesToEnd
PROPERTIES ScanProcessed
CHECK_DEADLOCK FALSE
