SPECIFICATION Spec
CONSTANTS
  r1 = r1  r2 = r2  ta = ta  tb = tb  k1 = k1  k2 = k2
  Requests = {r1, r2}
  TagNames = {ta}
  Keys = {k1}
  Bodies <- SharedBodies
  DefaultMetas = {}
  NoName = NoName
  NoId = NoId
  OddShapes = {"empty"}
  RollbackOnFailure = TRUE
  AllowSync = FALSE
  MergeMetas = FALSE
  WaitUntil = "enabled"
  MaxPolls = 1
  MaxCrashes = 1
SYMMETRY Symmetric
INVARIANTS PublishedWhole AckedStaysLive TagsAttached
CHECK_DEADLOCK FALSE
