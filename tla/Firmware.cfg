SPECIFICATION FirmwareSpec
CONSTANTS
  MaxPwm = 7
  Fallback = 6
  Factor <- MinusOne
  Band = 1
  SampleInterval = 2
  Targets <- MCTargets
  Spacing = {1, 2}
  Gain = 2
  TickWay = 7
  MaxSince = 4
  MaxPos = 7
  MaxLate = 4
INVARIANTS
  Settled
  BoundedDrift
PROPERTIES
  NoReversalUnderPower
  SoftStart
  Settles
