SPECIFICATION Spec
CONSTANTS
  Second = 2
  Timeout = 8
  PollIntervals = {0, 1, 3}
  UpTimeout = 4
INVARIANTS TypeOK WaitBounded NoMissedFinish AttemptsBounded
PROPERTIES WaitEnds
CHECK_DEADLOCK FALSE
