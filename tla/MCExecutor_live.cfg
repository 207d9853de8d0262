SPECIFICATION MCFairSpec
CONSTANTS
  Path <- MCPath
  Dir <- MCDir
  DirOf <- MCDirOf
  Image <- MCImage
  Absent = "-"
  Proc = {p1, p2}
  None = None
  Plans <- GenerateAndRival
  KeptDirs <- MCKeptDirs
  EditorPaths = {}
  EditorImage = {}
  MaxFaults = 2
  MaxEdits = 0
PROPERTIES
  LockReleased
  Converges
