CONSTANTS
  IndexesPerBlock = 3
  DepthLimit = 8
  MaxBlocks = 3
  MaxFailures = 0
  BlockSize = 2
  Sizes = {1, 3}
  MaxFetchFailures = 1
SPECIFICATION RoundTripSpec
CHECK_DEADLOCK FALSE
INVARIANT EndMeansEnd
