SPECIFICATION Spec
CONSTANTS
  Region = {r1, r2}
  Word = {w1, w2, w3}
  Absent = Absent
  Refused = Refused
INVARIANTS
  TypeOK
  Converged
PROPERTIES
  EditsSurvive
CHECK_DEADLOCK FALSE
