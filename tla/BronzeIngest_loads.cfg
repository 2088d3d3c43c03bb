SPECIFICATION FairSpec
CONSTANTS
  k1 = k1
  k2 = k2
  v1 = v1
  v2 = v2
  bad = bad
  r1 = r1
  r2 = r2
  LastDay = 2
  Keys = {k1, k2}
  Values = {v1, v2, bad}
  Refused = {bad}
  DayOf <- TwoDays
  Documents <- TwoDayDocuments
  Runs = {r1, r2}
  Event <- RangeRuns
  MaxTime = 2
  MaxPublications = 2
  MaxFaults = 1
PROPERTIES
  CatchesUp
CHECK_DEADLOCK FALSE
