CONSTANTS
  k1 = k1
  v1 = v1
  v2 = v2
  Proc = {p1, p2}
  Key = {k1}
  Value = {v1, v2}
  Dir <- OneDir
  Allowed <- AnyContent
  Size <- TwoUnitsOrOne
  Hole = Hole
  MaxOps = 2
  MaxCrashes = 0
  MaxErrors = 0
SPECIFICATION FairSpec
CHECK_DEADLOCK FALSE
INVARIANT OverwritesBlock
