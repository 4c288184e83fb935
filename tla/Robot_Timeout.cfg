SPECIFICATION RSpec
CONSTANTS
  Counts <- MCCounts
  NoPacket = NoPacket
  Cmds <- MCForward
  MaxOut = 1
  MaxIn = 1
  MaxTurn = 2
  MaxBoot = 1
  Timeout = 1
INVARIANT
  SafetyTimeout
