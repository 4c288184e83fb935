SPECIFICATION SensorsSpec
CONSTANTS
  Sensors <- TwoTrajectories
  Null = null
  MaxTime = 3
  MaxData = 5
  Topic = {odom, imu}
  Smoothing = {TRUE, FALSE}
  HistoryLength = 2
  SensorTimeout = 1
  MaxClock = 4
  MaxMeas = 4
  MaxPose = 1
CHECK_DEADLOCK FALSE
INVARIANTS
  UnsortedOnlyIfLate
  OnlyOldDropped
  WaitsForBlocker
  FilterTypeOK
  FusedOnceInOrder
  NothingBeforePose
PROPERTIES
  ImplementsMerge
