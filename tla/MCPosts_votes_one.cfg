\* One request at a time; statements may fail: votes, flags, locks, reviews,
\* their decision and the deletion it causes.
SPECIFICATION Spec
INVARIANTS
  CountersMatchVotes
  PointsMatchDeeds
  DeletedPostHasNoPendingReview
CONSTANTS
  alice = alice
  bob = bob
  q1 = q1
  a1 = a1
  a2 = a2
  c1 = c1
  c2 = c2
  None = None
  User = {alice, bob}
  Moderator = {alice}
  Question = {q1}
  Answer = {a1}
  Comment = {}
  Born = {q1, a1}
  Author <- MCAuthor
  Parent <- MCParent
  Proc = {1}
  Ops <- VoteAndReviewOps
  HasReplica = FALSE
  Faulty = TRUE
  CommentLimit = 1
  MinForReview = 3
  MaxRequests = 4
\* MaxRequests ends every behaviour.
CHECK_DEADLOCK FALSE
