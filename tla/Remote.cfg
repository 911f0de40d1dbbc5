SPECIFICATION FairSpec
CONSTANTS
    k1 = k1  empty = empty  full = full  None = None
    Key = {k1}
    Block = {empty, full}
    Empty = empty
    HashKey <- HashKeys
    Options <- ServerOptions
    Client = {c1, c2}
    MaxRefreshes = 1
    MaxFaults = 1
    MaxCalls = 4
INVARIANTS TypeOK CallsTakeEffect SyncedSurvive
PROPERTIES NeverReplaced CallsReturn
CHECK_DEADLOCK FALSE
