SPECIFICATION Spec
CONSTANTS
  Client = {c1, c2, c3}
  Server = Server
  None = None
  World <- Safety
  RegTimeout = 2
  HeartTimeout = 1
  SleepTime = 6
  ExpireTime = 3
SYMMETRY Symmetry
INVARIANTS
  PairingMutual
  IdleStaysRegistered
  NoMutualWait
