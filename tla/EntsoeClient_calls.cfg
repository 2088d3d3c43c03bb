SPECIFICATION Spec
CONSTANTS
  t1 = t1
  t2 = t2
  Callers = {t1, t2}
  Unit = 2
  Burst = 1
  MaxTime = 6
  MaxGrants = 4
  MaxAttempts = 2
  Base = 1
  Cap = 2
SYMMETRY Threads
INVARIANTS
  TypeOK
  RateHolds
  Queued
  BoundedWait
  RequestsBounded
  OutcomeIsEarned
CHECK_DEADLOCK FALSE
