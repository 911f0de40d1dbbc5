CONSTANTS
  a = a
  b = b
  g1 = g1
  g2 = g2
  b1 = b1
  q1 = q1
  File = {g1, g2, b1, q1}
  ClassOf <- MCClassOf
  Document <- MCDocument
  ArchiveOpts <- MCArchiveOpts
  RestoreOpts <- MCRestoreOpts
  ConvertPair <- MCConvertPair
  WeakText = {b}
  IdSpace = 4
  CipherBlock = 2
  MaxFaults = 1
  MaxSessions = 3
SPECIFICATION Spec
INVARIANTS TypeOK RestoreFaithful SuccessLasts ConvertComplete StatsExact
CHECK_DEADLOCK FALSE
