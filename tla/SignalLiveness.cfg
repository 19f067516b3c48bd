SPECIFICATION FairSpec
CONSTANTS
  Client = {c1, c2}
  Server = Server
  None = None
  World <- Liveness
  RegTimeout = 2
  HeartTimeout = 1
  SleepTime = 2
  ExpireTime = 2
PROPERTIES
  WaiterWoken
  SignallingCompletes
