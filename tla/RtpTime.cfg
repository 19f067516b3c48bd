SPECIFICATION TimeSpec
CONSTANTS
  TsRange = 32
  Unit = 16
  Rate <- MCRate
  FirstTs <- MCFirstTs
  Step <- MCStep
  Arrival = {300, 341}
  Epoch <- MCEpoch
  MaxFrames = 4
INVARIANTS
  LocalClockTracks
  RemoteTimeRight
PROPERTY SkewShrinks
CHECK_DEADLOCK FALSE
