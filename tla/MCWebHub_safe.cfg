\* Two connections that come, go and are slow, while the hub may panic or stop.
SPECIFICATION Spec
INVARIANTS
  IndexIsUsable
  WrittenInOrder
  NoSilentGap
CONSTANTS
  c1 = c1
  c2 = c2
  Conn = {c1, c2}
  SendQueueSize = 2
  SendSlowWarn = 1
  BroadcastQueueSize = 1
  Audience <- ShortAudience
  MaxRequests = 1
  HubMayPanic = TRUE
\* Every connection and the hub may end.
CHECK_DEADLOCK FALSE
