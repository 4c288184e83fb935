SPECIFICATION FairSpec
CONSTANTS
  s = s
  e = e
  p = p
  FrameLen = 3
  Payload = {s, e, p}
  START_BYTE = s
  END_BYTE = e
  MaxBase = 9
  MaxBurst = 5
  RxCap = 5
INVARIANTS SpliceNeedsDeception SecondPacketDelivered LosslessDelivery
PROPERTY EventuallyDelivered
CHECK_DEADLOCK FALSE
