SPECIFICATION FairSpec
CONSTANTS
  home = home
  a = a
  b = b
  Robots = Robots
  None = None
  Page = {home, a, b}
  Seed = home
  Links <- Site
  Policies <- Rules
  Process = {p1, p2}
  MaxPages = 2
  MaxDepth = 1
  MaxAttempts = 2
  MaxMishaps = 2
INVARIANTS
  TypeOK
  Bounded
  CancelSettles
PROPERTIES
  Implements
  RunEnds
CHECK_DEADLOCK FALSE
