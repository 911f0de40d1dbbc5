CONSTANTS
  WindowSize = 2
  Inputs <- AllInputs
  BlockSize = 3
  ReadSize = 4
  MagicMask = 3
  Modulus = 8
  Word = 32
  Pad = 48
SPECIFICATION FairSpec
CHECK_DEADLOCK FALSE
INVARIANTS TypeOK NothingLost FingerprintExact ContentDefined
PROPERTIES ChoppingEnds
