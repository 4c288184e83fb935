SPECIFICATION FairSpec
CONSTANTS
  s = s
  e = e
  p = p
  FrameLen = 3
  Payload = {s, e, p}
  START_BYTE = s
  END_BYTE = e
  MaxBase = 6
  MaxBurst = 3
INVARIANTS FreshOnReturn SpliceNeedsDeception
PROPERTIES ImplementsChannel EventuallyTaken
CHECK_DEADLOCK FALSE
