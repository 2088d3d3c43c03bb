SPECIFICATION Spec
CONSTANTS
  k1 = k1
  k2 = k2
  v1 = v1
  v2 = v2
  bad = bad
  r1 = r1
  r2 = r2
  LastDay = 1
  Keys = {k1, k2}
  Values = {v1, v2, bad}
  Refused = {bad}
  DayOf <- OneDay
  Documents <- RepeatingDocuments
  Runs = {r1, r2}
  Event <- OverlappingRuns
  MaxTime = 2
  MaxPublications = 2
  MaxFaults = 0
INVARIANTS
  UniqueIdentity
CHECK_DEADLOCK FALSE
