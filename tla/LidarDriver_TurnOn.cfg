SPECIFICATION LidarSpec
CONSTANTS
  AutoReconnect = TRUE
  TimeoutCount = 2
  MaxGrabs = 3
  None = none
  MaxSession = 3
  MaxFault = 2
CHECK_DEADLOCK FALSE
INVARIANT
  CanBeTurnedOn
