CONSTANTS
  k1 = k1
  v1 = v1
  v2 = v2
  Proc = {p1, p2}
  Key = {k1}
  Value = {v1}
  Dir <- OneDir
  Allowed <- OwnContent
  Size <- TwoUnitsOrOne
  Hole = Hole
  MaxOps = 0
  MaxCrashes = 1
  MaxErrors = 1
SPECIFICATION FairSpec
CHECK_DEADLOCK FALSE
INVARIANTS TypeOK QuiescentIntact ReadIntact
PROPERTY OperationsReturn
