SPECIFICATION FairSpec
CONSTANTS
  c1 = c1
  c2 = c2
  d1 = d1
  d2 = d2
  p1 = p1
  o1 = o1
  None = None
  Client = {c1, c2}
  Daemon = {d1, d2}
  Classpath = {p1}
  Output = {o1}
  Commands <- TestAndRestart
  Timed = {}
  MaxFaults = 0
PROPERTIES
  EveryCommandEnds
  OrphansDie
  SelfHeals
