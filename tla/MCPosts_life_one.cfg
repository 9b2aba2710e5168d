\* One request at a time: the life of a question, its answers and comments.
SPECIFICATION Spec
INVARIANTS
  AnswersCounted
  PointsMatchDeeds
  PostsHangTogether
PROPERTIES
  EditKeepsOldContent
CONSTANTS
  alice = alice
  bob = bob
  q1 = q1
  a1 = a1
  a2 = a2
  c1 = c1
  c2 = c2
  None = None
  User = {alice, bob}
  Moderator = {alice}
  Question = {q1}
  Answer = {a1, a2}
  Comment = {c1, c2}
  Born = {}
  Author <- MCAuthor
  Parent <- MCParent
  Proc = {1}
  Ops <- LifeOps
  HasReplica = FALSE
  Faulty = FALSE
  CommentLimit = 1
  MinForReview = 3
  MaxRequests = 7
\* MaxRequests ends every behaviour.
CHECK_DEADLOCK FALSE
