CONSTANTS
  IndexesPerBlock = 3
  DepthLimit = 8
  MaxBlocks = 4
  MaxFailures = 1
SPECIFICATION Spec
CHECK_DEADLOCK FALSE
INVARIANT HandleSuffices
