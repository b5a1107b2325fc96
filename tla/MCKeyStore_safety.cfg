SPECIFICATION FairSpec
CONSTANTS
  c1 = c1  c2 = c2
  Callers = {c1, c2}
  Nobody = Nobody
  EnvSecret = TRUE
  MaxWrites = 3
INVARIANTS TypeOK ChangeSeen
PROPERTIES NeverBackwards LookupReturns
