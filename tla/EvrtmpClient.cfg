SPECIFICATION FairClientSpec
CONSTANTS
  Par = {a, b, p, q}
  a = a
  b = b
  p = p
  q = q
  NoSet = NoSet
  File <- Mixed
  MaxTry = 3
INVARIANTS
  TimerWhileConnecting
  VideoDecodable
PROPERTIES
  ConnectEnds
  VideoFlows
CHECK_DEADLOCK FALSE
