------------------------------ MODULE MCPosts ------------------------------
(***************************************************************************)
(* Small instances of Posts: two users, one of them a moderator, who asks  *)
(* question q1; answers a1 by the other user and a2 by the asker; comments *)
(* c1 and c2 under the question.                                           *)
(***************************************************************************)
EXTENDS Posts

CONSTANTS alice, bob, q1, a1, a2, c1, c2

MCAuthor == [p \in Post |-> IF p \in {a1, c1} THEN bob ELSE alice]
MCParent == [p \in Answer \cup Comment |-> q1]

VoteOps == {"upVote", "cancelUpVote", "downVote", "cancelDownVote",
            "flag", "cancelFlag"}
VoteAndLockOps == VoteOps \cup {"lock", "cancelLock"}
LifeOps == {"createQuestion", "createAnswer", "createComment", "update",
            "delete", "selectBest", "protect", "cancelProtect"}
ReviewOps == {"flag", "cancelFlag", "review", "reject", "complete"}
VoteAndReviewOps == VoteAndLockOps \cup ReviewOps \cup {"delete"}
EditAndDelete == {"update", "delete"}
AllButUpdateOps == (VoteAndLockOps \cup LifeOps \cup ReviewOps) \ {"update"}
=============================================================================
