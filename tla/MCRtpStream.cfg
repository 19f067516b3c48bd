SPECIFICATION StreamSpec
CONSTANTS
  Capacity = 3
  HalfRange = 10
  Payload = {"fits"}
  Oversize = {}
  None = None
  FirstSeq = 18
  MaxReorder = 2
PROPERTIES
  GapFree
  EventuallyDepacked
