CONSTANTS
  IndexesPerBlock = 3
  DepthLimit = 4
  MaxBlocks = 34
  MaxFailures = 3
SPECIFICATION FairSpec
CHECK_DEADLOCK FALSE
INVARIANTS TypeOK TreeLinks InOrder RootSpansInput NoOrphans Complete Subsequence AssertionMeansTooDeep
PROPERTIES WrittenBeforeReset Terminates
