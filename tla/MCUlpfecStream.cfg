SPECIFICATION Spec
CONSTANTS
  Capacity = 5
  HalfRange = 16
  Payload <- MCPayload
  Oversize = {}
  None = None
  MaskBits = 3
  FecCapacity = 2
  Short = {28, 29, 5}
  FirstSeq = 28
  BlockLen = 2
  MaxSent = 12
  MaxReorder = 4
CHECK_DEADLOCK FALSE
INVARIANTS
  RecoveredRight
  NullReadOnlyAtZero
  FrontStillUseful
PROPERTIES
  LossesHidden
