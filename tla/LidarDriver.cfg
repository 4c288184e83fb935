SPECIFICATION LidarFairSpec
CONSTANTS
  AutoReconnect = TRUE
  TimeoutCount = 2
  MaxGrabs = 3
  None = none
  MaxSession = 3
  MaxFault = 2
CHECK_DEADLOCK FALSE
INVARIANTS
  LidarTypeOK
  TransfersApart
  ScanningHasReader
PROPERTIES
  ScansAreFresh
  StopReturns
  Resumes
