SPECIFICATION Spec
CONSTANTS
  out = out
  in = in
  other = other
  p1 = p1
  p2 = p2
  battery = battery
  wind = wind
  Keys = {out, in, other}
  TypeOf <- Types
  Sign <- Signs
  PeriodOf <- Periods
  DayOf <- DayOfPeriod
  Values = {1, 2}
  Batches <- SomeBatches
  Month = {2}
  MaxAge = 1
  MinKept = 1
  MaxTime = 3
  MaxEvents = 2
  MaxAudits = 1
  MaxFaults = 0
INVARIANTS
  ManifestNamesWhatWasRead
CHECK_DEADLOCK FALSE
