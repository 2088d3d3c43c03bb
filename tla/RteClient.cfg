CONSTANTS
  Callers = {c1, c2}
  MaxAttempts = 2
  Skew = 1
  Lifetimes <- MCLifetimes
  MaxTime = 3
  MaxCalls = 1
  c1 = c1
  c2 = c2
SPECIFICATION Spec
INVARIANTS
  TypeOK
  OutcomeIsEarned
  RefreshIsForced
  FreshOnArrival
PROPERTIES
  CallEnds
CHECK_DEADLOCK FALSE
