SPECIFICATION MCRSpec
CONSTANTS
  Path <- MCPath
  Dir <- MCDir
  DirOf <- MCDirOf
  Image <- MCImage
  Absent = "-"
  Proc = {p1, p2}
  None = None
  Plans <- AllPlans
  KeptDirs <- MCKeptDirs
  EditorPaths = {"Note", "V2", "lock"}
  EditorImage = {"x", "-"}
  MaxFaults = 1
  MaxEdits = 1
SYMMETRY ProcSymmetry
INVARIANTS
  TypeOK
  OneWriter
  StagedIsLive
  OldOrNew
  RerunAdmitted
  SweptClean
PROPERTIES
  MarkerLast
  AppliesAtomically
