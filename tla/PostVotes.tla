----------------------------- MODULE PostVotes -----------------------------
(***************************************************************************)
(* Voting on posts and flagging them: api/post.go, app/post.go and         *)
(* store/sqlstore/post_store.go.                                           *)
(*                                                                         *)
(* A vote inserts a row into Votes and adjusts the counters of the post    *)
(* and the points of its author; a cancellation deletes the row and takes  *)
(* the adjustment back.  A vote increments the counter in SQL; the         *)
(* cancellation of a vote writes the counter it read, minus one.           *)
(***************************************************************************)
EXTENDS PostStore

(* The root question of a post. *)
Root(p) == IF p \in Question THEN p
           ELSE IF Parent[p] \in Question THEN Parent[p] ELSE Parent[Parent[p]]

(* The history row carries the tags of the question: an answer's or a      *)
(* comment's question must still be there.                                 *)
getTagsForPost(p) == p \in Question \/ GetSingle(Root(p))

(* Mutant: votes on one's own post count as well. *)
VoteAwardToSelf(u, p, n) == Award(Author[p], n)

(* Votes on one's own post move no points and write no history.            *)
VoteAward(u, p, n) == IF u = Author[p] THEN NoAward ELSE Award(Author[p], n)
TagsFound(u, p) == u = Author[p] \/ getTagsForPost(p)

(* What App demands of a vote and of its cancellation alike.               *)
MayVote(p) == GetSingle(p) /\ p \notin Comment /\ ~View.posts[p].locked

Minus1(n) == IF n - 1 < 0 THEN 0 ELSE n - 1

----------------------------------------------------------------------------
(* Up-votes.                                                               *)

UpVotePost(pr, u, p) == MayVote(p) /\ Accept(pr, "upVote", u, p)

ReadForUpVote(pr) ==
  Read(pr, "upVote", GetSingle(request[pr].post), BlankRow)

upvotePost(pr) ==
  LET u == request[pr].user
      p == request[pr].post
      award == VoteAward(u, p, ForVoted)
  IN
  /\ In(pr, "upVote", "read")
  /\ \/ Reject(pr, <<u, p>> \in upVotes \/ ~TagsFound(u, p))
     \/ /\ <<u, p>> \notin upVotes /\ TagsFound(u, p)
        /\ upVotes' = upVotes \cup {<<u, p>>}
        /\ posts' = [posts EXCEPT ![p].up = @ + 1, ![p].points = @ + 1]
        /\ Commit(pr, award)
        /\ UNCHANGED <<downVotes, reviews, revisions>>
     \/ /\ <<u, p>> \notin upVotes /\ TagsFound(u, p)
        /\ RollBack(pr, award)
        /\ UNCHANGED reviews

CancelUpVotePost(pr, u, p) == MayVote(p) /\ Accept(pr, "cancelUpVote", u, p)

(* Mutant: the vote to cancel is not looked up. *)
ReadForCancelUpVoteBlindly(pr) ==
  LET p == request[pr].post IN
  Read(pr, "cancelUpVote", GetSingle(p), View.posts[p])

ReadForCancelUpVote(pr) ==
  LET u == request[pr].user
      p == request[pr].post
  IN Read(pr, "cancelUpVote", <<u, p>> \in View.up /\ GetSingle(p), View.posts[p])

(* Mutant: the counter is decremented in SQL, like the vote increments it. *)
cancelUpvotePostInSql(pr) ==
  LET u == request[pr].user
      p == request[pr].post
  IN
  /\ In(pr, "cancelUpVote", "read") /\ TagsFound(u, p)
  /\ upVotes' = upVotes \ {<<u, p>>}
  /\ posts' = [posts EXCEPT ![p].up = @ - 1, ![p].points = @ - 1]
  /\ Commit(pr, VoteAward(u, p, -ForVoted))
  /\ UNCHANGED <<downVotes, reviews, revisions>>

(* Deleting a row another request has deleted meanwhile is no error.       *)
cancelUpvotePost(pr) ==
  LET u == request[pr].user
      p == request[pr].post
      award == VoteAward(u, p, -ForVoted)
  IN
  /\ In(pr, "cancelUpVote", "read")
  /\ \/ Reject(pr, ~TagsFound(u, p))
     \/ /\ TagsFound(u, p)
        /\ upVotes' = upVotes \ {<<u, p>>}
        /\ posts' = [posts EXCEPT ![p].up = Minus1(request[pr].row.up),
                                  ![p].points = @ - 1]
        /\ Commit(pr, award)
        /\ UNCHANGED <<downVotes, reviews, revisions>>
     \/ /\ TagsFound(u, p)
        /\ RollBack(pr, award)
        /\ UNCHANGED reviews

----------------------------------------------------------------------------
(* Down-votes.                                                             *)

DownVotePost(pr, u, p) == MayVote(p) /\ Accept(pr, "downVote", u, p)

ReadForDownVote(pr) ==
  Read(pr, "downVote", GetSingle(request[pr].post), BlankRow)

downvotePost(pr) ==
  LET u == request[pr].user
      p == request[pr].post
      award == VoteAward(u, p, ForDownVoted)
  IN
  /\ In(pr, "downVote", "read")
  /\ \/ Reject(pr, <<u, p>> \in downVotes \/ ~TagsFound(u, p))
     \/ /\ <<u, p>> \notin downVotes /\ TagsFound(u, p)
        /\ downVotes' = downVotes \cup {<<u, p>>}
        /\ posts' = [posts EXCEPT ![p].down = @ + 1, ![p].points = @ - 1]
        /\ Commit(pr, award)
        /\ UNCHANGED <<upVotes, reviews, revisions>>
     \/ /\ <<u, p>> \notin downVotes /\ TagsFound(u, p)
        /\ RollBack(pr, award)
        /\ UNCHANGED reviews

CancelDownVotePost(pr, u, p) ==
  MayVote(p) /\ Accept(pr, "cancelDownVote", u, p)

ReadForCancelDownVote(pr) ==
  LET u == request[pr].user
      p == request[pr].post
  IN Read(pr, "cancelDownVote", <<u, p>> \in View.down /\ GetSingle(p),
          View.posts[p])

cancelDownvotePost(pr) ==
  LET u == request[pr].user
      p == request[pr].post
      award == VoteAward(u, p, -ForDownVoted)
  IN
  /\ In(pr, "cancelDownVote", "read")
  /\ \/ Reject(pr, ~TagsFound(u, p))
     \/ /\ TagsFound(u, p)
        /\ downVotes' = downVotes \ {<<u, p>>}
        /\ posts' = [posts EXCEPT ![p].down = Minus1(request[pr].row.down),
                                  ![p].points = @ + 1]
        /\ Commit(pr, award)
        /\ UNCHANGED <<upVotes, reviews, revisions>>
     \/ /\ TagsFound(u, p)
        /\ RollBack(pr, award)
        /\ UNCHANGED reviews

----------------------------------------------------------------------------
(* Flags.  Any live post can be flagged, locked or not, by anyone, its     *)
(* author included.                                                        *)

FlagPost(pr, u, p) == GetSingle(p) /\ Accept(pr, "flag", u, p)

ReadForFlag(pr) == Read(pr, "flag", GetSingle(request[pr].post), BlankRow)

flagPost(pr) ==
  LET u == request[pr].user
      p == request[pr].post
      award == Award(Author[p], ForFlagged)
  IN
  /\ In(pr, "flag", "read")
  /\ \/ Reject(pr, reviews[Flag(u, p)] # "none" \/ ~getTagsForPost(p))
     \/ /\ reviews[Flag(u, p)] = "none" /\ getTagsForPost(p)
        /\ reviews' = [reviews EXCEPT ![Flag(u, p)] = "pending"]
        /\ posts' = [posts EXCEPT ![p].flags = @ + 1]
        /\ Commit(pr, award)
        /\ UNCHANGED <<upVotes, downVotes, revisions>>
     \/ /\ reviews[Flag(u, p)] = "none" /\ getTagsForPost(p)
        /\ RollBack(pr, award)
        /\ UNCHANGED reviews

CancelFlagPost(pr, u, p) == GetSingle(p) /\ Accept(pr, "cancelFlag", u, p)

ReadForCancelFlag(pr) ==
  LET u == request[pr].user
      p == request[pr].post
  IN Read(pr, "cancelFlag",
          View.reviews[Flag(u, p)] # "none" /\ GetSingle(p), BlankRow)

(* Mutant: the flag counter is not taken back. *)
cancelFlagPostUncounted(pr) ==
  LET u == request[pr].user
      p == request[pr].post
  IN
  /\ In(pr, "cancelFlag", "read")
  /\ reviews' = [reviews EXCEPT ![Flag(u, p)] = "none"]
  /\ Commit(pr, Award(Author[p], -ForFlagged))
  /\ UNCHANGED <<posts, upVotes, downVotes, revisions>>

cancelFlagPost(pr) ==
  LET u == request[pr].user
      p == request[pr].post
      award == Award(Author[p], -ForFlagged)
  IN
  /\ In(pr, "cancelFlag", "read")
  /\ \/ Reject(pr, ~getTagsForPost(p))
     \/ /\ getTagsForPost(p)
        /\ reviews' = [reviews EXCEPT ![Flag(u, p)] = "none"]
        /\ posts' = [posts EXCEPT ![p].flags = @ - 1]
        /\ Commit(pr, award)
        /\ UNCHANGED <<upVotes, downVotes, revisions>>
     \/ /\ getTagsForPost(p)
        /\ RollBack(pr, award)
        /\ UNCHANGED reviews

----------------------------------------------------------------------------
VoteNext ==
  \E pr \in Proc :
    \/ \E u \in User, p \in Post :
         \/ UpVotePost(pr, u, p)   \/ CancelUpVotePost(pr, u, p)
         \/ DownVotePost(pr, u, p) \/ CancelDownVotePost(pr, u, p)
         \/ FlagPost(pr, u, p)     \/ CancelFlagPost(pr, u, p)
    \/ ReadForUpVote(pr)   \/ ReadForCancelUpVote(pr)
    \/ ReadForDownVote(pr) \/ ReadForCancelDownVote(pr)
    \/ ReadForFlag(pr)     \/ ReadForCancelFlag(pr)
    \/ upvotePost(pr)   \/ cancelUpvotePost(pr)
    \/ downvotePost(pr) \/ cancelDownvotePost(pr)
    \/ flagPost(pr)     \/ cancelFlagPost(pr)
=============================================================================
