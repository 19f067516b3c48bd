SPECIFICATION Spec
CONSTANTS
  HalfRange = 8
  Time <- MCTime
  Converted = Converted
  Part <- MCPart
  None = None
  MaxHeld = 1
  MaxFrames = 4
  MaxLen = 3
  MaxNoise = 1
CHECK_DEADLOCK FALSE
INVARIANTS
  EndsWithWholeFrame
  ExactInStep
  HeaderRight
PROPERTIES
  DeltaFollows
  KeyGetsThrough
  LosslessDelivered
