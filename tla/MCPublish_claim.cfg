SPECIFICATION Spec
CONSTANTS
  r1 = r1  r2 = r2  ta = ta  tb = tb  k1 = k1  k2 = k2
  Requests = {r1}
  TagNames = {ta, tb}
  Keys = {k1, k2}
  Bodies <- RichBodies
  DefaultMetas = {k1, k2}
  NoName = NoName
  NoId = NoId
  OddShapes = {}
  RollbackOnFailure = TRUE
  AllowSync = TRUE
  MergeMetas = TRUE
  WaitUntil = "enabled"
  MaxPolls = 3
  MaxCrashes = 0
INVARIANTS RolledBackOnFailure
CHECK_DEADLOCK FALSE
