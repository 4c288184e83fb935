SPECIFICATION FairSpec
CONSTANTS
  Trajectory = {map, loc}
  Localize = {loc}
  RangeData = 1
  OptimizeEvery = 1
  Keep = 2
  Null = null
  MaxNodes = 3
  MaxData = 1
  MaxFinal = 1
CHECK_DEADLOCK FALSE
INVARIANTS
  OneDrainer
  ChecksHold
  SearchesHoldTheirData
  SolveAlone
  EachPairOnce
PROPERTIES
  FinalOptimizationDone
  WaitReturns
