SPECIFICATION MCSpec
CONSTANTS
  Capacity = 3
  HalfRange = 10
  Payload = {"fits", "big"}
  Oversize = {"big"}
  None = None
  FirstSeq = 18
  MaxBefore = 4
  MaxAfter = 7
  BigAt = {2, 5}
CHECK_DEADLOCK FALSE
INVARIANTS
  WindowHolds
  ReaderNear
  PulledDry
PROPERTIES
  NeverBackward
  AtMostOnce
