SPECIFICATION MCSpec
CONSTANTS
  m0 = m0
  m1 = m1
  m2 = m2
  m3 = m3
  m4 = m4
  Blank = Blank
  Absent = Absent
  Refused = Refused
  None = None
  Proc = {p1}
  Path <- MCPath
  Dir <- MCDir
  DirOf <- MCDirOf
  Image <- MCImage
  Plans = {}
  KeptDirs <- MCKeptDirs
  EditorPaths = {}
  EditorImage = {}
  MaxFaults = 1
  MaxEdits = 0
  Region <- MCRegion
  Word <- MCWord
  Model <- MCModel
  Renders <- MCRenders
  Ejects <- MCEjects
  Derives <- MCDerives
  Authored = {Blank}
  Schema <- MCSchema
  ModelFile = "model"
  LockFile = "lock"
  BaseOf <- MCBaseOf
  MigrationRoot = "db"
  Slot <- MCSlot
  Commands <- OnlyAddTag
  MaxPlans = 1
  Mine = "mine"
INVARIANTS
  SameCommandConverges
