CONSTANTS
  Hour = 2
  DayLength = 8
  SpringDay = 0
  AutumnDay = 1
  LastDay = 2
  MinSeries = 2
  Step = 12
  MaxPublished = 3
  MaxFetches = 2
  Types <- MCTypes
  Series <- MCSeries
  Unfit <- MCUnfit
  Foreign <- MCForeign
  Resolution <- MCResolution
  Parts <- MCParts
SPECIFICATION Spec
INVARIANTS
  TypeOK
  RightTime
  EachPeriodOnce
  GreenMeansCovered
  MissingMeansEmpty
CHECK_DEADLOCK FALSE
