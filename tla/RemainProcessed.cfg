SPECIFICATION MCSpec
CONSTANTS
  Capacity = 3
  HalfRange = 10
  Payload = {"fits"}
  Oversize = {}
  None = None
  FirstSeq = 10
  MaxBefore = 0
  MaxAfter = 4
  BigAt = {}
CHECK_DEADLOCK FALSE
INVARIANT
  RemainProcessed
