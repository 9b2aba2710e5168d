\* An edit and a deletion at the same time.
SPECIFICATION Spec
PROPERTIES
  DeletedStaysDeleted
CONSTANTS
  alice = alice
  bob = bob
  q1 = q1
  a1 = a1
  a2 = a2
  c1 = c1
  c2 = c2
  None = None
  User = {alice, bob}
  Moderator = {alice}
  Question = {q1}
  Answer = {}
  Comment = {}
  Born = {q1}
  Author <- MCAuthor
  Parent <- MCParent
  Proc = {1, 2}
  Ops <- EditAndDelete
  HasReplica = FALSE
  Faulty = FALSE
  CommentLimit = 1
  MinForReview = 3
  MaxRequests = 2
\* MaxRequests ends every behaviour.
CHECK_DEADLOCK FALSE
