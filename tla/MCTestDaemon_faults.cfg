SPECIFICATION Spec
CONSTANTS
  c1 = c1
  c2 = c2
  d1 = d1
  d2 = d2
  p1 = p1
  p2 = p2
  o1 = o1
  o2 = o2
  None = None
  Client = {c1, c2}
  Daemon = {d1, d2}
  Classpath = {p1,p2}
  Output = {o1, o2}
  Commands <- TestAndStop
  Timed = {c1}
  MaxFaults = 1
SYMMETRY Sym
INVARIANTS
  TypeOK
  OpenLineIsRun
PROPERTIES
  Implements
