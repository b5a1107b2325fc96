SPECIFICATION Spec
CONSTANTS
  r1 = r1  r2 = r2  k1 = k1  k2 = k2
  Requests = {r1, r2}
  ApiKeys = {k1, k2}
  POSITIVE_TTL = 3
  NEGATIVE_TTL = 2
  CACHE_MAX = 0
  MaxTime = 7
  MaxHeard = 2
SYMMETRY Symmetric
CONSTRAINT FewHeard
INVARIANTS TypeOK CacheBounded
PROPERTIES DecisionsAreRecent
CHECK_DEADLOCK FALSE
