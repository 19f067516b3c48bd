SPECIFICATION Spec
CONSTANTS
  Sdps <- MCSdps
  Packets <- MCPackets
  Mlines = {0, 1, 2}
  None = None
  Duration = 2
  MaxTime = 5
INVARIANTS
  NullFlowOnlyForStrangers
  RightWindow
  RetransmissionFillsGap
  BufferedUnlessMoved
CHECK_DEADLOCK FALSE
