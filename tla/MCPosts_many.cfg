\* Two requests at a time, read from a lagging replica: every operation but
\* edits.
SPECIFICATION Spec
INVARIANTS
  TypeOK
  PointsMatchHistory
  FlagCountBounded
PROPERTIES
  ReviewsDecidedOnce
CONSTANTS
  alice = alice
  bob = bob
  q1 = q1
  a1 = a1
  a2 = a2
  c1 = c1
  c2 = c2
  None = None
  User = {alice, bob}
  Moderator = {alice}
  Question = {q1}
  Answer = {a1}
  Comment = {c1}
  Born = {q1}
  Author <- MCAuthor
  Parent <- MCParent
  Proc = {1, 2}
  Ops <- AllButUpdateOps
  HasReplica = TRUE
  Faulty = FALSE
  CommentLimit = 1
  MinForReview = 3
  MaxRequests = 3
\* MaxRequests ends every behaviour.
CHECK_DEADLOCK FALSE
