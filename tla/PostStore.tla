----------------------------- MODULE PostStore -----------------------------
(***************************************************************************)
(* The tables the post operations share and the way a request reaches      *)
(* them.                                                                   *)
(*                                                                         *)
(* Every request to the post endpoints runs in a goroutine of its own, on  *)
(* any of several servers, and has the same shape (api/post.go,            *)
(* app/post.go, store/sqlstore/post_store.go):                             *)
(*                                                                         *)
(*   idle    -> checked    the API and App layers read rows and decide     *)
(*                         whether the request may go on;                  *)
(*   checked -> read       the store reads, again and outside any          *)
(*                         transaction, the rows it will compute with;     *)
(*   read    -> idle       one transaction writes Posts, Votes and Users;  *)
(*                         the UserPointHistory row and the review rows    *)
(*                         are written beside it, on another connection.   *)
(*                                                                         *)
(* Reads go to a replica when one is configured.  The transactions take    *)
(* row locks and hold them until they commit, so each is one step.         *)
(*                                                                         *)
(* Scope: public posts, those whose TeamId is the empty string.  A request *)
(* refused for a missing permission, a suspended user or an invalid body   *)
(* writes nothing: here it is a request that is never made.                *)
(***************************************************************************)
EXTENDS Integers, FiniteSets

CONSTANTS
  User,          \* the users
  Moderator,     \* those of them with the moderators' permissions
  Question, Answer, Comment,   \* the ids posts can have, by type
  Author,        \* Author[p]: the user whose request creates post p
  Parent,        \* Parent[p]: the post an answer or a comment belongs to
  Born,          \* the posts that exist at the start
  Proc,          \* the requests in flight at any one time
  Ops,           \* the operations this instance of the system is sent
  HasReplica,    \* is a read replica configured?
  Faulty,        \* may statements fail and servers crash?
  CommentLimit,  \* POST_COMMENT_LIMIT
  MaxRequests,   \* bound of the model: requests accepted in a behaviour
  None           \* no user, no post: the empty string of the code

Post == Question \cup Answer \cup Comment

ASSUME PostStoreAssumption ==
  /\ IsFiniteSet(User) /\ IsFiniteSet(Post)
  /\ Moderator \subseteq User
  /\ Question \cap Answer = {} /\ Question \cap Comment = {}
  /\ Answer \cap Comment = {}
  /\ Author \in [Post -> User]
  /\ Parent \in [Answer \cup Comment -> Question \cup Answer]
  /\ \A a \in Answer : Parent[a] \in Question
  /\ Born \subseteq Post
  /\ HasReplica \in BOOLEAN /\ Faulty \in BOOLEAN
  /\ CommentLimit \in Nat /\ MaxRequests \in Nat
  /\ None \notin User /\ None \notin Post

(* The posts there are at the start hang together.                         *)
ASSUME BornAssumption ==
  /\ \A c \in Born \ Question : Parent[c] \in Born
  /\ \A p \in Question \cup Answer :
       Cardinality({c \in Comment \cap Born : Parent[c] = p}) <= CommentLimit

VARIABLES
  posts,       \* posts[p]: the row of table Posts with Id p
  upVotes,     \* the rows of table Votes of type up_vote, as <<user, post>>
  downVotes,   \* those of type down_vote
  reviews,     \* reviews[k]: the state of the row of type flag, review, system
  points,      \* points[u]: Users.Points
  history,     \* history[u]: the sum of the rows of UserPointHistory of u
  revisions,   \* revisions[p]: the contents saved as old revisions of p
  replica,     \* the tables as the read replica shows them
  request,     \* request[pr]: what the request in slot pr is doing
  served       \* the number of requests accepted so far

tables == <<posts, upVotes, downVotes, reviews, points, history, revisions>>
vars == <<tables, replica, request, served>>

----------------------------------------------------------------------------
(* The tables.                                                             *)

Row == [status : {"none", "live", "deleted"}, locked : BOOLEAN,
        protected : BOOLEAN, up : Nat, down : Nat, points : Int, flags : Int,
        answers : Int, best : Answer \cup {None}, content : Nat]

BlankRow ==
  [status |-> "none", locked |-> FALSE, protected |-> FALSE, up |-> 0,
   down |-> 0, points |-> 0, flags |-> 0, answers |-> 0, best |-> None,
   content |-> 0]

(* Flags are one per user and post.  The row of type review is inserted    *)
(* with the user id of the request's path, which has none, and the row of  *)
(* type system with no user: there is one of each per post.                *)
Flag(u, p) == <<"flag", u, p>>
Review(p) == <<"review", None, p>>
System(p) == <<"system", None, p>>
ReviewKey == {Flag(u, p) : u \in User, p \in Post}
             \cup {Review(p) : p \in Post} \cup {System(p) : p \in Post}

(* "pending": InvalidateAt, CompletedAt and RejectedAt are all zero.       *)
ReviewState == {"none", "pending", "invalid", "completed", "rejected"}
ReviewsOf(p) == {k \in ReviewKey : k[3] = p}

Snapshot == [posts : [Post -> Row], up : SUBSET (User \X Post),
             down : SUBSET (User \X Post), reviews : [ReviewKey -> ReviewState],
             points : [User -> Int]]

(* What a SELECT sees: GetReplica() is the master when the configuration   *)
(* names no replica.                                                       *)
View == IF HasReplica THEN replica
        ELSE [posts |-> posts, up |-> upVotes, down |-> downVotes,
              reviews |-> reviews, points |-> points]

(* SELECT ... WHERE Id = :Id AND DeleteAt = 0 finds a row.                 *)
GetSingle(p) == p \in Post /\ View.posts[p].status = "live"

(* Mutant: only answers are counted. *)
GetAnswersCount(p) == Cardinality({a \in Answer : Parent[a] = p /\ GetSingle(a)})

(* Live answers and comments under p.                                      *)
GetChildPostsCount(p) ==
  Cardinality({c \in Answer \cup Comment : Parent[c] = p /\ GetSingle(c)})

(* Public posts are stored with TeamId '', the query asks for IS NULL: no  *)
(* revision row is ever counted.                                           *)
GetCurrentRevisionForPost(p) == 0 + 1

(* The same query condition: no post of the user is ever counted.          *)
GetPostCount(u) == 0

----------------------------------------------------------------------------
(* Points.                                                                 *)

ForCreateQuestion == 3
ForCreateAnswer   == 3
ForSelectAnswer   == 3
ForSelectedAnswer == 10
ForVoted          == 5
ForDownVoted      == -3
ForFlagged        == -2
MinForProtected   == 10

NoAward == [u \in User |-> 0]
Award(who, n) == [u \in User |-> IF u = who THEN n ELSE 0]
AddTo(f, award) == [u \in User |-> f[u] + award[u]]

(* SaveUserPointHistory ignores the error of its INSERT and runs before    *)
(* the transaction commits: when statements may fail, the rows that are    *)
(* written are those of any set of users.                                  *)
LogAward(award) ==
  \E logged \in IF Faulty THEN SUBSET User ELSE {User} :
    history' = [u \in User |-> history[u] + IF u \in logged THEN award[u] ELSE 0]

----------------------------------------------------------------------------
(* Requests.                                                               *)

(* What a request carries: the row is the one it read, for those that use  *)
(* it later, and the content the one an edit brings.                       *)
InFlight ==
  [phase : {"checked", "read", "committed"}, op : Ops, user : User,
   post : Post, row : Row, content : Nat]

Idle == [phase |-> "idle", op |-> None, user |-> None, post |-> None,
         row |-> BlankRow, content |-> 0]
Request == InFlight \cup {Idle}

In(pr, op, phase) == request[pr].op = op /\ request[pr].phase = phase
Goto(pr, phase) == request' = [request EXCEPT ![pr].phase = phase]
Finish(pr) == request' = [request EXCEPT ![pr] = Idle]

(* The checks of the API and App layers pass.  Once they have, the request *)
(* goes on whatever happens to the rows they looked at.                    *)
Accept(pr, op, u, p) ==
  /\ op \in Ops
  /\ request[pr].phase = "idle"
  /\ served < MaxRequests
  /\ served' = served + 1
  /\ request' = [request EXCEPT ![pr] =
       [phase |-> "checked", op |-> op, user |-> u, post |-> p,
        row |-> BlankRow, content |-> 0]]
  /\ UNCHANGED <<tables, replica>>

(* The store reads what it needs: if it finds it, the request goes on,     *)
(* with the row read if a later step uses it; else an error is returned.   *)
Read(pr, op, found, row) ==
  /\ In(pr, op, "checked")
  /\ request' = [request EXCEPT ![pr] =
       IF found THEN [@ EXCEPT !.phase = "read", !.row = row] ELSE Idle]
  /\ UNCHANGED <<tables, replica, served>>

(* An INSERT hits an existing primary key, a SELECT inside the transaction *)
(* finds nothing, or a statement fails: everything is rolled back, and the *)
(* statements that run beside the transaction have not been reached.       *)
Reject(pr, reason) ==
  /\ reason \/ Faulty
  /\ Finish(pr)
  /\ UNCHANGED <<tables, replica, served>>

(* Mutant: the history row is forgotten. *)
CommitUnlogged(pr, award) ==
  /\ points' = AddTo(points, award)
  /\ Finish(pr)
  /\ UNCHANGED <<history, replica, served>>

(* The transaction commits and the request is answered.                    *)
Commit(pr, award) ==
  /\ points' = AddTo(points, award)
  /\ LogAward(award)
  /\ Finish(pr)
  /\ UNCHANGED <<replica, served>>

(* The commit fails or the server stops before it: the transaction leaves  *)
(* no trace, but what was written beside it stays.                         *)
RollBack(pr, award) ==
  /\ Faulty
  /\ LogAward(award)
  /\ Finish(pr)
  /\ UNCHANGED <<posts, upVotes, downVotes, points, revisions, replica, served>>

(* The replica applies what the master has committed so far.               *)
Replicate ==
  /\ HasReplica
  /\ replica' = [posts |-> posts, up |-> upVotes, down |-> downVotes,
                 reviews |-> reviews, points |-> points]
  /\ UNCHANGED <<tables, request, served>>

----------------------------------------------------------------------------
BornBy(u, S) == {p \in S \cap Born : Author[p] = u}
SelfAnswer(a) == Author[a] = Author[Parent[a]]

Init ==
  /\ posts = [p \in Post |->
       [BlankRow EXCEPT
          !.status = IF p \in Born THEN "live" ELSE "none",
          !.answers = Cardinality({a \in Answer \cap Born : Parent[a] = p})]]
  /\ upVotes = {} /\ downVotes = {}
  /\ reviews = [k \in ReviewKey |->
       IF k[1] = "system" /\ k[3] \in Born THEN "pending" ELSE "none"]
  /\ points = [u \in User |->
       ForCreateQuestion * Cardinality(BornBy(u, Question))
       + ForCreateAnswer
         * Cardinality({a \in BornBy(u, Answer) : ~SelfAnswer(a)})]
  /\ history = points
  /\ revisions = [p \in Post |-> {}]
  /\ replica = [posts |-> posts, up |-> upVotes, down |-> downVotes,
                reviews |-> reviews, points |-> points]
  /\ request = [pr \in Proc |-> Idle]
  /\ served = 0

(* Every table holds what its columns can hold; the vote counters never go  *)
(* below zero, however many requests take back the same vote.              *)
TypeOK ==
  /\ posts \in [Post -> Row]
  /\ upVotes \subseteq User \X Post
  /\ downVotes \subseteq User \X Post
  /\ reviews \in [ReviewKey -> ReviewState]
  /\ points \in [User -> Int]
  /\ history \in [User -> Int]
  /\ revisions \in [Post -> SUBSET Nat]
  /\ replica \in Snapshot
  /\ request \in [Proc -> Request]
  /\ \A pr \in Proc :
       request[pr].phase # "idle" /\ request[pr].op = "selectBest"
         => request[pr].post \in Answer
  /\ served \in Nat
=============================================================================
