------------------------------- MODULE Posts -------------------------------
(***************************************************************************)
(* The post endpoints together: votes, the life of a post and its reviews, *)
(* on one set of tables, and what may be expected of them.                 *)
(*                                                                         *)
(* The properties come in two groups.  Those of the first hold when one    *)
(* request is served at a time by a single database; those of the second   *)
(* whatever the number of requests in flight and the lag of the replica.   *)
(***************************************************************************)
EXTENDS PostVotes, PostReviews

Next == VoteNext \/ LifecycleNext \/ ReviewNext \/ Replicate

Spec == Init /\ [][Next]_vars

----------------------------------------------------------------------------
(* What the rows say.                                                      *)

Live(S) == {p \in S : posts[p].status = "live"}
By(u, S) == {p \in S : Author[p] = u}
VotesFor(votes, p) == {v \in votes : v[2] = p}
FlagRows(p) == {u \in User : reviews[Flag(u, p)] # "none"}

(* Votes others cast on the posts of u.                                    *)
VotesEarned(votes, u) == {v \in votes : Author[v[2]] = u /\ v[1] # u}
FlagsReceived(u) ==
  {f \in User \X Post : Author[f[2]] = u /\ reviews[Flag(f[1], f[2])] # "none"}

SelfAnswers == {a \in Answer : SelfAnswer(a)}
Chosen == {a \in Answer : posts[Parent[a]].best = a} \ SelfAnswers

(* The points a user should have, given the rows in the tables.            *)
Deeds(u) ==
    ForCreateQuestion * Cardinality(By(u, Live(Question)))
  + ForCreateAnswer * Cardinality(By(u, Live(Answer \ SelfAnswers)))
  - ForCreateAnswer
    * Cardinality({a \in By(u, SelfAnswers) : posts[a].status = "deleted"})
  + ForSelectAnswer * Cardinality({a \in Chosen : Author[Parent[a]] = u})
  + ForSelectedAnswer * Cardinality(By(u, Chosen))
  + ForVoted * Cardinality(VotesEarned(upVotes, u))
  + ForDownVoted * Cardinality(VotesEarned(downVotes, u))
  + ForFlagged * Cardinality(FlagsReceived(u))

----------------------------------------------------------------------------
(* One request at a time.                                                  *)

(* The counters of a post are those of its rows in Votes: a cancellation   *)
(* takes back exactly what the vote added, also when statements fail.      *)
CountersMatchVotes ==
  \A p \in Post :
    LET up == Cardinality(VotesFor(upVotes, p))
        down == Cardinality(VotesFor(downVotes, p))
    IN /\ posts[p].up = up
       /\ posts[p].down = down
       /\ posts[p].points = up - down
       /\ posts[p].flags = Cardinality(FlagRows(p))

(* AnswerCount of a question counts its live answers.                      *)
AnswersCounted ==
  \A q \in Question :
    posts[q].answers = Cardinality({a \in Live(Answer) : Parent[a] = q})

(* The points of a user are exactly what his posts and the votes on them   *)
(* are worth: no award is given twice, lost or taken back twice.           *)
PointsMatchDeeds == \A u \in User : points[u] = Deeds(u)

(* A question or answer is deleted only when nothing lives under it.       *)
NoOrphans ==
  \A c \in Live(Answer \cup Comment) : posts[Parent[c]].status = "live"

(* The best answer of a live question is a live answer to it.              *)
BestAnswerIsLive ==
  \A q \in Live(Question) :
    posts[q].best # None =>
      posts[q].best \in Live(Answer) /\ Parent[posts[q].best] = q

(* No review of a deleted post is left for the moderators to decide.       *)
DeletedPostHasNoPendingReview ==
  \A p \in Post : posts[p].status = "deleted" =>
    \A k \in ReviewsOf(p) : reviews[k] # "pending"

(* No post has more live comments than the limit.                          *)
CommentLimitKept ==
  \A p \in Question \cup Answer :
    Cardinality({c \in Live(Comment) : Parent[c] = p}) <= CommentLimit

(* Posts hang together: whatever is created, chosen and deleted in what    *)
(* order, each live post has a live parent, the best answer is there and   *)
(* the limit of comments is kept (DeletePost, app/post.go:745).            *)
PostsHangTogether == NoOrphans /\ BestAnswerIsLive /\ CommentLimitKept

(* A deleted post stays deleted, whatever requests overlap: votes, locks   *)
(* and the rest write columns of its row.  An edit, which writes back the  *)
(* whole row it has read, breaks this (store/sqlstore/post_store.go:336).  *)
DeletedStaysDeleted ==
  [][\A p \in Post :
       posts[p].status = "deleted" => posts'[p].status = "deleted"]_vars

(* An edit overwrites the content it has read, so that the revision it     *)
(* saves is the one it replaces.                                           *)
EditKeepsOldContent ==
  [][\A p \in Post :
       posts'[p].content # posts[p].content =>
         \E pr \in Proc : /\ request'[pr].post = p
                          /\ request'[pr].row.content = posts[p].content]_vars

----------------------------------------------------------------------------
(* Any number of requests, any lag.                                        *)

(* Unless statements fail, the points of a user are the sum of his point   *)
(* history: every change of points writes its history row and every        *)
(* history row comes with its change.                                      *)
PointsMatchHistory == ~Faulty => \A u \in User : points[u] = history[u]

(* A flag that was decided is not decided again: the three closing         *)
(* statements each skip rows another one closed.  Only its owner may       *)
(* withdraw it.                                                            *)
Decided(k) == reviews[k] \in {"invalid", "completed", "rejected"}
DecisionsStand ==
  \A k \in ReviewKey : Decided(k) => reviews'[k] \in {reviews[k], "none"}
ReviewsDecidedOnce == [][DecisionsStand]_vars

(* Without edits, which write back counters they read long ago, a post     *)
(* never shows more flags than there are rows.                             *)
FlagCountBounded ==
  \A p \in Post : posts[p].flags <= Cardinality(FlagRows(p))
=============================================================================
