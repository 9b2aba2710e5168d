\* A connection on one of two servers, its session expired or revoked on either, and another
\* session of the user, whose revocation resets the copy and lets it be read again; a replica
\* that lags, messages that may be lost.
SPECIFICATION FairSpec
INVARIANTS
  RevokedServesNothing
  StaleCopiesAreDue
PROPERTIES
  RevocationReachesConns
CONSTANTS
  c1 = c1
  s1 = s1
  s2 = s2
  n1 = n1
  n2 = n2
  Conn = {c1}
  Session = {s1, s2}
  Node = {n1, n2}
  SessionOf <- MCSessionOf
  NodeOf <- MCNodeOf
  HasReplica = TRUE
  Lossy = TRUE
\* Sessions and connections end.
CHECK_DEADLOCK FALSE
