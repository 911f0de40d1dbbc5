CONSTANTS
  InputSize = 3
  Header = 2
  HeaderSize = 3
  SizeMax = 65535
  MaxErrors = 1
  Key = {k1}
  None = None
  Block <- SomeBlocks
  OutputSize = 4
  Fragile = {"zlib", "bzip2"}
  MaxOps = 4
  MaxDamage = 1
  MaxBackend = 1
  ReadSizes = {1, 3, 4}
  Sources <- SomeSources
SPECIFICATION FairSpec
CHECK_DEADLOCK FALSE
INVARIANTS TypeOK NothingLeftBehind WithinRequest StreamFaithful
PROPERTIES IsBlockStore CallsReturn
