SPECIFICATION Spec
CONSTANTS
  Sender = {s1, s2, s3}
  Server = Server
  Stranger = {stranger}
  Timeout = 3
  None = None
CHECK_DEADLOCK FALSE
INVARIANTS
  PreferLentOnce
  IdleBound
PROPERTIES
  FreedOnlyIdle
  RedirectedByOwnSocket
