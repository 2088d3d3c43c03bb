SPECIFICATION Spec
CONSTANTS
  LastDay = 5
  Lookback = 2
  Retries = 1
  MaxChanges = 2
  MaxFaults = 1
INVARIANTS
  TypeOK
  SuccessLeavesNoGap
  HasItsTurn
CHECK_DEADLOCK FALSE
