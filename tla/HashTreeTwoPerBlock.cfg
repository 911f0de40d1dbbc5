CONSTANTS
  IndexesPerBlock = 2
  DepthLimit = 16
  MaxBlocks = 2
  MaxFailures = 0
SPECIFICATION Spec
CHECK_DEADLOCK FALSE
INVARIANT NoAssertionFails
