\* One connection under fairness, a hub that may panic or stop.
SPECIFICATION FairSpec
PROPERTIES
  StopReturns
  DroppedConnsEnd
  CallersGoOn
CONSTANTS
  c1 = c1
  c2 = c2
  Conn = {c1}
  SendQueueSize = 2
  SendSlowWarn = 1
  BroadcastQueueSize = 1
  Audience <- ThreeEvents
  MaxRequests = 1
  HubMayPanic = TRUE
\* Every connection and the hub may end.
CHECK_DEADLOCK FALSE
