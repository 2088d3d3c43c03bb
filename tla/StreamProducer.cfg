SPECIFICATION Spec
CONSTANTS
  s1 = s1
  good = good
  bad = bad
  None = None
  Series = {s1}
  Values = {good, bad}
  Refused = {bad}
  HoursPerDay = 3
  YesterdayUntilHour = 2
  Lag = 1
  MaxTime = 4
  MaxPublications = 2
  MaxPolls = 2
INVARIANTS
  TypeOK
  PollIsWhole
  YesterdayCompleted
  SeriesInOrder
  NoLateFailure
PROPERTIES
  LogSpec
  StopIsHeeded
CHECK_DEADLOCK FALSE
