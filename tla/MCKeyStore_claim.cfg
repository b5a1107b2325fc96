SPECIFICATION Spec
CONSTANTS
  c1 = c1  c2 = c2
  Callers = {c1}
  Nobody = Nobody
  EnvSecret = TRUE
  MaxWrites = 3
INVARIANTS RereadWheneverChanged
