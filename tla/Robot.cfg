SPECIFICATION RFairSpec
CONSTANTS
  Counts <- MCCounts
  NoPacket = NoPacket
  Cmds <- MCForward
  MaxOut = 1
  MaxIn = 2
  MaxTurn = 2
  MaxBoot = 1
  Timeout = 0
PROPERTIES
  VelocityTruthful
  StopsInTheEnd
  OdometrySettles
