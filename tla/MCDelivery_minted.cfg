SPECIFICATION Spec
CONSTANTS
  s1 = s1
  s2 = s2
  None = None
  Item = {i1}
  Process = {p1, p2}
  Minted = {i1}
  Chain <- TwoSinks
  Batch = 2
  JobAttempts = 1
  BoxAttempts = 2
  Pool = 1
  Budget = 2
INVARIANTS
  EffectOnce
CHECK_DEADLOCK FALSE
