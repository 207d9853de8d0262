SPECIFICATION MCUSpec
CONSTANTS
  m0 = m0
  m1 = m1
  m2 = m2
  m3 = m3
  m4 = m4
  Blank = Blank
  Absent = Absent
  Refused = Refused
  None = None
  Proc = {p1}
  Path <- MCPath
  Dir <- MCDir
  DirOf <- MCDirOf
  Image <- MCImage
  Plans = {}
  KeptDirs <- MCKeptDirs
  EditorPaths = {"Note", "Note2"}
  EditorImage = {}
  MaxFaults = 1
  MaxEdits = 2
  Region <- MCRegion
  Word <- MCWord
  Model <- MCModel
  Renders <- MCRenders
  Ejects <- MCEjects
  Derives <- MCDerives
  Authored = {Blank}
  Schema <- MCSchema
  ModelFile = "model"
  LockFile = "lock"
  BaseOf <- MCBaseOf
  MigrationRoot = "db"
  Slot <- MCSlot
  Commands <- UndoCommands
  MaxPlans = 3
  Mine = "mine"
  Tidy <- MCTidy
  MaxFormats = 0
  FormatsAfter = FALSE
INVARIANTS
  HandEditKept
  UndoIsExact
  SyncHasNothingToDo
CHECK_DEADLOCK FALSE
