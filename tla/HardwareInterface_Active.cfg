SPECIFICATION Spec
CONSTANTS
  Counts <- MCCounts
  NoPacket = NoPacket
INVARIANT
  PublishesWhileActive
