--------------------------- MODULE PostLifecycle ---------------------------
(***************************************************************************)
(* Asking, answering, commenting, editing, deleting, choosing the best     *)
(* answer, locking and protecting: api/post.go, app/post.go and            *)
(* store/sqlstore/post_store.go.                                           *)
(*                                                                         *)
(* Creations and deletions adjust counters in SQL, but decide on rows read *)
(* before; an edit writes back the whole row it read.  Tags and inbox      *)
(* messages are left out.                                                  *)
(***************************************************************************)
EXTENDS PostStore

Target(pr) == request[pr].post

----------------------------------------------------------------------------
(* Creation.  The id p is fresh, and once the row is in, a system review   *)
(* is opened for what looks like a first post.                             *)

Fresh(p) == posts[p].status = "none" /\ \A pr \in Proc : request[pr].post # p

Insert(p) == [posts EXCEPT ![p] = [BlankRow EXCEPT !.status = "live"]]

(* The creation's transaction commits; the request has one more thing to   *)
(* do.                                                                     *)
CommitAndGoOn(pr, award) ==
  /\ points' = AddTo(points, award)
  /\ LogAward(award)
  /\ Goto(pr, "committed")
  /\ UNCHANGED <<replica, served>>

CreateQuestion(pr, p) ==
  /\ p \in Question /\ Fresh(p)
  /\ Accept(pr, "createQuestion", Author[p], p)

saveQuestion(pr) ==
  LET award == Award(request[pr].user, ForCreateQuestion) IN
  /\ In(pr, "createQuestion", "checked")
  /\ \/ Reject(pr, FALSE)
     \/ /\ posts' = Insert(Target(pr))
        /\ CommitAndGoOn(pr, award)
        /\ UNCHANGED <<upVotes, downVotes, reviews, revisions>>
     \/ RollBack(pr, award) /\ UNCHANGED reviews

(* A protected question takes answers only from users with ten points.     *)
CreateAnswer(pr, p) ==
  /\ p \in Answer /\ Fresh(p) /\ GetSingle(Parent[p])
  /\ View.posts[Parent[p]].protected => View.points[Author[p]] >= MinForProtected
  /\ Accept(pr, "createAnswer", Author[p], p)

SaveAnswer(pr) ==
  Read(pr, "createAnswer", GetSingle(Parent[Target(pr)]), BlankRow)

saveAnswer(pr) ==
  LET p == Target(pr)
      award == IF SelfAnswer(p) THEN NoAward
               ELSE Award(Author[p], ForCreateAnswer)
  IN
  /\ In(pr, "createAnswer", "read")
  /\ \/ Reject(pr, FALSE)
     \/ /\ posts' = [Insert(p) EXCEPT ![Parent[p]].answers = @ + 1]
        /\ CommitAndGoOn(pr, award)
        /\ UNCHANGED <<upVotes, downVotes, reviews, revisions>>
     \/ RollBack(pr, award) /\ UNCHANGED reviews

CreateComment(pr, p) ==
  /\ p \in Comment /\ Fresh(p) /\ GetSingle(Parent[p])
  /\ Accept(pr, "createComment", Author[p], p)

(* The comments of the parent are counted, then the comment is inserted.   *)
CommentsOf(p) == {c \in Comment : Parent[c] = p /\ GetSingle(c)}

SaveComment(pr) ==
  Read(pr, "createComment",
       Cardinality(CommentsOf(Parent[Target(pr)])) < CommentLimit, BlankRow)

InsertComment(pr) ==
  /\ In(pr, "createComment", "read")
  /\ \/ Reject(pr, FALSE)
     \/ /\ posts' = Insert(Target(pr))
        /\ CommitAndGoOn(pr, NoAward)
        /\ UNCHANGED <<upVotes, downVotes, reviews, revisions>>

(* The error of this INSERT is ignored.                                    *)
CreateSystemReview(pr) ==
  LET p == Target(pr) IN
  /\ \E op \in {"createQuestion", "createAnswer", "createComment"} :
       In(pr, op, "committed")
  /\ \/ /\ GetPostCount(request[pr].user) <= 1
        /\ reviews' = [reviews EXCEPT ![System(p)] =
             IF @ = "none" THEN "pending" ELSE @]
     \/ Faulty /\ UNCHANGED reviews
  /\ Finish(pr)
  /\ UNCHANGED <<posts, upVotes, downVotes, points, history, revisions,
                 replica, served>>

----------------------------------------------------------------------------
(* Editing.  The row read is kept, with the new content, until it is       *)
(* written back whole; only then is the old row inserted as a revision,    *)
(* and the error of that is ignored.                                       *)

UpdatePost(pr, u, p) ==
  /\ GetSingle(p) /\ ~View.posts[p].locked
  /\ u = Author[p] \/ u \in Moderator
  /\ Accept(pr, "update", u, p)

(* Mutant: the old row and the new one are the same object. *)
ReadForUpdateAliased(pr) ==
  /\ In(pr, "update", "checked")
  /\ request' = [request EXCEPT ![pr] =
       IF GetSingle(Target(pr))
       THEN [@ EXCEPT !.phase = "read", !.content = served,
                      !.row = [View.posts[Target(pr)] EXCEPT !.content = served]]
       ELSE Idle]
  /\ UNCHANGED <<tables, replica, served>>

ReadForUpdate(pr) ==
  /\ In(pr, "update", "checked")
  /\ request' = [request EXCEPT ![pr] =
       IF GetSingle(Target(pr))
       THEN [@ EXCEPT !.phase = "read", !.row = View.posts[Target(pr)],
                      !.content = served]
       ELSE Idle]
  /\ UNCHANGED <<tables, replica, served>>

update(pr) ==
  LET r == request[pr] IN
  /\ In(pr, "update", "read")
  /\ \/ Reject(pr, FALSE)
     \/ /\ posts' = [posts EXCEPT ![r.post] = [r.row EXCEPT !.content = r.content]]
        /\ Goto(pr, "committed")
        /\ UNCHANGED <<upVotes, downVotes, reviews, points, history, revisions,
                       replica, served>>

InsertRevision(pr) ==
  LET r == request[pr] IN
  /\ In(pr, "update", "committed")
  /\ \/ revisions' = [revisions EXCEPT ![r.post] = @ \cup {r.row.content}]
     \/ Faulty /\ UNCHANGED revisions
  /\ Finish(pr)
  /\ UNCHANGED <<posts, upVotes, downVotes, reviews, points, history,
                 replica, served>>

----------------------------------------------------------------------------
(* Deletion.                                                               *)

(* A question or an answer with live posts under it, or an answer that is  *)
(* the best one, may not be deleted.                                       *)
DeletePost(pr, u, p) ==
  /\ GetSingle(p)
  /\ u = Author[p] \/ u \in Moderator
  /\ p \notin Comment => GetChildPostsCount(p) = 0
  /\ p \in Answer => GetSingle(Parent[p]) /\ View.posts[Parent[p]].best # p
  /\ Accept(pr, "delete", u, p)

(* A review of the post may be completed: then it is deleted as well, with *)
(* none of these checks.                                                   *)
Deletes == {"delete", "complete"}

ReadForDelete(pr) ==
  LET p == Target(pr) IN
  \E op \in Deletes :
    Read(pr, op,
         GetSingle(p) /\ (p \in Answer => GetSingle(Parent[p])), BlankRow)

(* Mutant: system reviews are forgotten. *)
InvalidateUserReviews(p) ==
  [k \in ReviewKey |->
     IF k \in ReviewsOf(p) \ {System(p)} /\ reviews[k] = "pending"
     THEN "invalid" ELSE reviews[k]]

(* Run on the master beside the transaction, before it commits: review     *)
(* rows stay invalidated even if it does not.                              *)
InvalidateReviews(p) ==
  [k \in ReviewKey |->
     IF k \in ReviewsOf(p) /\ reviews[k] = "pending" THEN "invalid" ELSE reviews[k]]

invalidateReviewsForPost(p) == reviews' = InvalidateReviews(p)

(* Mutant: the points of the creation are not taken back. *)
DeletedForFree(pr, award) ==
  /\ IF request[pr].op = "complete" THEN Goto(pr, "committed") ELSE Finish(pr)
  /\ UNCHANGED <<points, history, upVotes, downVotes, revisions, replica, served>>

(* What follows the commit: a completion still has the reviews to close.   *)
Deleted(pr, award) ==
  /\ points' = AddTo(points, award)
  /\ LogAward(award)
  /\ IF request[pr].op = "complete" THEN Goto(pr, "committed") ELSE Finish(pr)
  /\ UNCHANGED <<upVotes, downVotes, revisions, replica, served>>

Deletion(pr, S) ==
  Target(pr) \in S /\ \E op \in Deletes : In(pr, op, "read")

deleteQuestion(pr) ==
  LET p == Target(pr)
      award == Award(Author[p], -ForCreateQuestion)
  IN
  /\ Deletion(pr, Question)
  /\ \/ Reject(pr, FALSE)
     \/ /\ posts' = [posts EXCEPT ![p].status = "deleted"]
        /\ invalidateReviewsForPost(p)
        /\ Deleted(pr, award)
     \/ RollBack(pr, award) /\ invalidateReviewsForPost(p)

(* Mutant: the question goes on counting the answer. *)
deleteAnswerUncounted(pr) ==
  LET p == Target(pr) IN
  /\ Deletion(pr, Answer)
  /\ posts' = [posts EXCEPT ![p].status = "deleted"]
  /\ invalidateReviewsForPost(p)
  /\ Deleted(pr, Award(Author[p], -ForCreateAnswer))

(* The points of the creation are taken back even from a user who answered *)
(* his own question and was given none.                                    *)
deleteAnswer(pr) ==
  LET p == Target(pr)
      award == Award(Author[p], -ForCreateAnswer)
  IN
  /\ Deletion(pr, Answer)
  /\ \/ Reject(pr, FALSE)
     \/ /\ posts' = [posts EXCEPT ![p].status = "deleted",
                                  ![Parent[p]].answers = @ - 1]
        /\ invalidateReviewsForPost(p)
        /\ Deleted(pr, award)
     \/ RollBack(pr, award) /\ invalidateReviewsForPost(p)

deleteComment(pr) ==
  LET p == Target(pr) IN
  /\ Deletion(pr, Comment)
  /\ \/ Reject(pr, FALSE)
     \/ /\ posts' = [posts EXCEPT ![p].status = "deleted"]
        /\ invalidateReviewsForPost(p)
        /\ Deleted(pr, NoAward)
     \/ RollBack(pr, NoAward) /\ invalidateReviewsForPost(p)

----------------------------------------------------------------------------
(* The best answer p of a question, chosen by who may edit the question.   *)

SelectBestAnswer(pr, u, p) ==
  /\ p \in Answer /\ GetSingle(Parent[p])
  /\ u = Author[Parent[p]] \/ u \in Moderator
  /\ Accept(pr, "selectBest", u, p)

ReadForSelectBest(pr) ==
  LET p == Target(pr) IN
  Read(pr, "selectBest",
       /\ GetSingle(Parent[p]) /\ View.posts[Parent[p]].best = None
       /\ GetSingle(p), BlankRow)

selectBestAnswer(pr) ==
  LET p == Target(pr)
      award == IF SelfAnswer(p) THEN NoAward
               ELSE AddTo(Award(Author[Parent[p]], ForSelectAnswer),
                          Award(Author[p], ForSelectedAnswer))
  IN
  /\ In(pr, "selectBest", "read")
  /\ \/ Reject(pr, FALSE)
     \/ /\ posts' = [posts EXCEPT ![Parent[p]].best = p]
        /\ Commit(pr, award)
        /\ UNCHANGED <<upVotes, downVotes, reviews, revisions>>
     \/ RollBack(pr, award) /\ UNCHANGED reviews

----------------------------------------------------------------------------
(* Locking and protecting, by moderators: one UPDATE, no transaction.      *)

SetFlag(pr, op, newPosts) ==
  /\ In(pr, op, "read")
  /\ \/ Reject(pr, FALSE)
     \/ /\ posts' = newPosts
        /\ Commit(pr, NoAward)
        /\ UNCHANGED <<upVotes, downVotes, reviews, revisions>>

LockPost(pr, u, p) ==
  u \in Moderator /\ GetSingle(p) /\ p \notin Comment /\ Accept(pr, "lock", u, p)
ReadForLock(pr) == Read(pr, "lock", GetSingle(Target(pr)), BlankRow)
SetLockedAt(pr) == SetFlag(pr, "lock", [posts EXCEPT ![Target(pr)].locked = TRUE])

CancelLockPost(pr, u, p) ==
  /\ u \in Moderator /\ GetSingle(p) /\ p \notin Comment
  /\ View.posts[p].locked
  /\ Accept(pr, "cancelLock", u, p)
ReadForCancelLock(pr) == Read(pr, "cancelLock", GetSingle(Target(pr)), BlankRow)
ClearLockedAt(pr) ==
  SetFlag(pr, "cancelLock", [posts EXCEPT ![Target(pr)].locked = FALSE])

ProtectPost(pr, u, p) ==
  u \in Moderator /\ GetSingle(p) /\ p \in Question /\ Accept(pr, "protect", u, p)
ReadForProtect(pr) == Read(pr, "protect", GetSingle(Target(pr)), BlankRow)
SetProtectedAt(pr) ==
  SetFlag(pr, "protect", [posts EXCEPT ![Target(pr)].protected = TRUE])

CancelProtectPost(pr, u, p) ==
  /\ u \in Moderator /\ GetSingle(p) /\ p \in Question
  /\ View.posts[p].protected
  /\ Accept(pr, "cancelProtect", u, p)
ReadForCancelProtect(pr) ==
  Read(pr, "cancelProtect", GetSingle(Target(pr)), BlankRow)
ClearProtectedAt(pr) ==
  SetFlag(pr, "cancelProtect", [posts EXCEPT ![Target(pr)].protected = FALSE])

----------------------------------------------------------------------------
LifecycleNext ==
  \E pr \in Proc :
    \/ \E p \in Post :
         \/ CreateQuestion(pr, p) \/ CreateAnswer(pr, p) \/ CreateComment(pr, p)
    \/ \E u \in User, p \in Post :
         \/ UpdatePost(pr, u, p) \/ DeletePost(pr, u, p)
         \/ SelectBestAnswer(pr, u, p)
         \/ LockPost(pr, u, p)    \/ CancelLockPost(pr, u, p)
         \/ ProtectPost(pr, u, p) \/ CancelProtectPost(pr, u, p)
    \/ SaveAnswer(pr) \/ SaveComment(pr) \/ ReadForUpdate(pr)
    \/ ReadForDelete(pr) \/ ReadForSelectBest(pr)
    \/ ReadForLock(pr) \/ ReadForCancelLock(pr)
    \/ ReadForProtect(pr) \/ ReadForCancelProtect(pr)
    \/ saveQuestion(pr) \/ saveAnswer(pr) \/ InsertComment(pr)
    \/ CreateSystemReview(pr)
    \/ update(pr) \/ InsertRevision(pr)
    \/ deleteQuestion(pr) \/ deleteAnswer(pr) \/ deleteComment(pr)
    \/ selectBestAnswer(pr)
    \/ SetLockedAt(pr) \/ ClearLockedAt(pr)
    \/ SetProtectedAt(pr) \/ ClearProtectedAt(pr)
=============================================================================
