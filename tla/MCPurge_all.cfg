SPECIFICATION Spec
CONSTANTS
  Purges = {p1, p2}
  b1 = b1  b2 = b2  n1 = n1  n2 = n2
  KBs = {b1, b2}
  Kns = {n1, n2}
  NoKn = NoKn
  KbOf <- Apart
  Cascade <- Default
  Sweeps <- DefaultSweeps
  Missable = {"knowledge_tag_relations"}
  MaxRows = 3
  MaxRestores = 1
  MaxAdds = 1
SYMMETRY Alike
INVARIANTS TypeOK PurgesExactly ItemsGoWhole SweptClean LimitKept BystandersKeepRows ReportsAddUp
CHECK_DEADLOCK FALSE
