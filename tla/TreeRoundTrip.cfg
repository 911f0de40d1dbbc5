CONSTANTS
  IndexesPerBlock = 3
  DepthLimit = 4
  MaxBlocks = 9
  MaxFailures = 1
  BlockSize = 2
  Sizes = {1, 3}
  MaxFetchFailures = 2
SPECIFICATION RoundTripSpec
CHECK_DEADLOCK FALSE
INVARIANTS ReadsInOrder NeverRepeats SuccessMeansProgress RoundTrip
PROPERTY EveryReadReturns
