SPECIFICATION FairSpec
CONSTANTS
  s1 = s1
  s2 = s2
  None = None
  Item = {i1, i2}
  Process = {p1, p2}
  Minted = {}
  Chain <- TwoSinks
  Batch = 2
  JobAttempts = 1
  BoxAttempts = 2
  Pool = 1
  Budget = 3
INVARIANTS
  TypeOK
  CrashKeepsDone
  RetryBounded
  NoResend
  DuplicatesAccounted
PROPERTIES
  Implements
  EverythingEnds
CHECK_DEADLOCK FALSE
