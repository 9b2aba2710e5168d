---------------------------- MODULE PostReviews ----------------------------
(***************************************************************************)
(* Reviews of posts by users with enough points and their decision by      *)
(* moderators: api/review.go, app/vote.go and store/sqlstore/vote_store.go *)
(* Flags and system reviews are decided together with them.                *)
(***************************************************************************)
EXTENDS PostLifecycle

CONSTANT MinForReview   \* MIN_USER_POINT_FOR_VOTE_REVIEW

ASSUME MinForReviewAssumption == MinForReview \in Nat

(* A rejection closes the discussion of the current revision of the post.  *)
(* Each row was given the same revision, see GetCurrentRevisionForPost.    *)
GetRejectedReviewsCount(p) ==
  Cardinality({k \in ReviewsOf(p) : View.reviews[k] = "rejected"})

CreateReviewVote(pr, u, p) ==
  /\ View.points[u] >= MinForReview \/ u \in Moderator
  /\ GetSingle(p)
  /\ GetRejectedReviewsCount(p) = 0
  /\ Accept(pr, "review", u, p)

InsertReview(pr) ==
  LET p == Target(pr) IN
  /\ In(pr, "review", "checked")
  /\ \/ Reject(pr, reviews[Review(p)] # "none")
     \/ /\ reviews[Review(p)] = "none"
        /\ reviews' = [reviews EXCEPT ![Review(p)] = "pending"]
        /\ Finish(pr)
        /\ UNCHANGED <<posts, upVotes, downVotes, points, history, revisions,
                       replica, served>>

(* Mutant: rows decided before are decided again. *)
CloseAll(p, state) ==
  [k \in ReviewKey |->
     IF k \in ReviewsOf(p) /\ reviews[k] # "none" THEN state ELSE reviews[k]]

(* UPDATE Votes ... WHERE InvalidateAt = CompletedAt = RejectedAt = 0.     *)
Close(p, state) ==
  [k \in ReviewKey |->
     IF k \in ReviewsOf(p) /\ reviews[k] = "pending" THEN state ELSE reviews[k]]

(* Only live posts are found by the handler, here and below.               *)
RejectReviewsForPost(pr, u, p) ==
  u \in Moderator /\ GetSingle(p) /\ Accept(pr, "reject", u, p)

RejectReviews(pr) ==
  /\ In(pr, "reject", "checked")
  /\ \/ Reject(pr, FALSE)
     \/ /\ reviews' = Close(Target(pr), "rejected")
        /\ Finish(pr)
        /\ UNCHANGED <<posts, upVotes, downVotes, points, history, revisions,
                       replica, served>>

(* DeletePostForcely first, by the steps of PostLifecycle.                 *)
CompleteReviewsForPost(pr, u, p) ==
  u \in Moderator /\ GetSingle(p) /\ Accept(pr, "complete", u, p)

CompleteReviews(pr) ==
  /\ In(pr, "complete", "committed")
  /\ \/ Reject(pr, FALSE)
     \/ /\ reviews' = Close(Target(pr), "completed")
        /\ Finish(pr)
        /\ UNCHANGED <<posts, upVotes, downVotes, points, history, revisions,
                       replica, served>>

ReviewNext ==
  \E pr \in Proc :
    \/ \E u \in User, p \in Post :
         \/ CreateReviewVote(pr, u, p)
         \/ RejectReviewsForPost(pr, u, p)
         \/ CompleteReviewsForPost(pr, u, p)
    \/ InsertReview(pr) \/ RejectReviews(pr) \/ CompleteReviews(pr)
=============================================================================
