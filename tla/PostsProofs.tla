---------------------------- MODULE PostsProofs ----------------------------
(***************************************************************************)
(* Proofs about Posts, for any users, posts, number of requests in flight  *)
(* and lag of the replica; then about requests that are served one at a    *)
(* time, on one database, of which much more holds (TablesKept); and about *)
(* any number of them again while no post is edited (NoEditInv).           *)
(***************************************************************************)
EXTENDS Posts, FiniteSetTheorems, TLAPS

(* The tables and the phases that a step of any kind leaves well typed.    *)

LEMMA BlankRowType == BlankRow \in Row
BY DEF BlankRow, Row

LEMMA IdleType == Idle \in Request
BY DEF Request

(* A request that is past its first checks has a user and a post.          *)
LEMMA InFlightType ==
  ASSUME TypeOK, NEW pr \in Proc, request[pr].phase # "idle"
  PROVE  request[pr] \in InFlight
BY DEF TypeOK, Request, Idle

LEMMA InType ==
  ASSUME TypeOK, NEW pr \in Proc, NEW op, NEW phase, phase # "idle",
         In(pr, op, phase)
  PROVE  /\ request[pr].user \in User
         /\ request[pr].post \in Post
         /\ request[pr].row \in Row
         /\ request[pr].content \in Nat
BY InFlightType DEF In, InFlight

LEMMA ViewType == TypeOK => View \in Snapshot
BY DEF TypeOK, View, Snapshot

LEMMA AuthorType ==
  ASSUME NEW p \in Post
  PROVE  Author[p] \in User
BY PostStoreAssumption

LEMMA AwardType ==
  ASSUME NEW who, NEW n \in Int
  PROVE  Award(who, n) \in [User -> Int]
BY DEF Award

LEMMA NoAwardType == NoAward \in [User -> Int]
BY DEF NoAward

LEMMA VoteAwardType ==
  ASSUME NEW u, NEW p, NEW n \in Int
  PROVE  VoteAward(u, p, n) \in [User -> Int]
BY AwardType, NoAwardType DEF VoteAward

LEMMA AddToType ==
  ASSUME NEW f \in [User -> Int], NEW g \in [User -> Int]
  PROVE  AddTo(f, g) \in [User -> Int]
BY DEF AddTo

LEMMA LogAwardType ==
  ASSUME TypeOK, NEW award \in [User -> Int], LogAward(award)
  PROVE  history' \in [User -> Int]
BY DEF LogAward, TypeOK

LEMMA FinishType ==
  ASSUME TypeOK, NEW pr \in Proc, Finish(pr)
  PROVE  /\ request' \in [Proc -> Request]
         /\ \A q \in Proc :
              request'[q].phase # "idle" /\ request'[q].op = "selectBest"
                => request'[q].post \in Answer
BY IdleType DEF Finish, TypeOK, Idle

LEMMA GotoType ==
  ASSUME TypeOK, NEW pr \in Proc, request[pr].phase # "idle",
         NEW phase \in {"checked", "read", "committed"}, Goto(pr, phase)
  PROVE  /\ request' \in [Proc -> Request]
         /\ \A q \in Proc :
              request'[q].phase # "idle" /\ request'[q].op = "selectBest"
                => request'[q].post \in Answer
<1>1. request[pr] \in InFlight
  BY InFlightType
<1>2. [request[pr] EXCEPT !.phase = phase] \in InFlight
  BY <1>1 DEF InFlight
<1>3. /\ [request[pr] EXCEPT !.phase = phase].op = request[pr].op
      /\ [request[pr] EXCEPT !.phase = phase].post = request[pr].post
  BY <1>1 DEF InFlight
<1>q. QED
  BY <1>2, <1>3 DEF Goto, TypeOK, Request

LEMMA AcceptType ==
  ASSUME TypeOK, NEW pr \in Proc, NEW op, NEW u \in User, NEW p \in Post,
         op = "selectBest" => p \in Answer, Accept(pr, op, u, p)
  PROVE  TypeOK'
<1> DEFINE r == [phase |-> "checked", op |-> op, user |-> u, post |-> p,
                 row |-> BlankRow, content |-> 0]
<1>1. r \in InFlight
  BY BlankRowType DEF Accept, InFlight
<1>2. r.op = op /\ r.post = p
  OBVIOUS
<1>3. request' = [request EXCEPT ![pr] = r]
  BY DEF Accept
<1> HIDE DEF r
<1>4. request' \in [Proc -> Request]
  BY <1>1, <1>3 DEF TypeOK, Request
<1>5. \A q \in Proc :
        request'[q].phase # "idle" /\ request'[q].op = "selectBest"
          => request'[q].post \in Answer
  BY <1>2, <1>3 DEF TypeOK
<1>q. QED
  BY <1>4, <1>5 DEF Accept, TypeOK, tables, Snapshot

LEMMA ReadType ==
  ASSUME TypeOK, NEW pr \in Proc, NEW op, NEW found, NEW row,
         found => row \in Row, Read(pr, op, found, row)
  PROVE  TypeOK'
<1> DEFINE r == [request[pr] EXCEPT !.phase = "read", !.row = row]
<1>1. In(pr, op, "checked") /\ request[pr] \in InFlight
  BY InFlightType DEF Read, In
<1>2. found => r \in InFlight /\ r.op = request[pr].op /\ r.post = request[pr].post
  BY <1>1 DEF InFlight
<1>3. request' = [request EXCEPT ![pr] = IF found THEN r ELSE Idle]
  BY DEF Read
<1> HIDE DEF r
<1>4. request' \in [Proc -> Request]
  BY <1>2, <1>3, IdleType DEF TypeOK, Request
<1>5. \A q \in Proc :
        request'[q].phase # "idle" /\ request'[q].op = "selectBest"
          => request'[q].post \in Answer
  BY <1>1, <1>2, <1>3 DEF TypeOK, Idle, InFlight
<1>q. QED
  BY <1>4, <1>5 DEF Read, TypeOK, tables, Snapshot

LEMMA CommitType ==
  ASSUME TypeOK, NEW pr \in Proc, NEW award \in [User -> Int],
         Commit(pr, award),
         posts' \in [Post -> Row], upVotes' \subseteq User \X Post,
         downVotes' \subseteq User \X Post,
         reviews' \in [ReviewKey -> ReviewState],
         revisions' \in [Post -> SUBSET Nat]
  PROVE  TypeOK'
BY FinishType, AddToType, LogAwardType DEF Commit, TypeOK

LEMMA RejectType ==
  ASSUME TypeOK, NEW pr \in Proc, NEW reason, Reject(pr, reason)
  PROVE  TypeOK'
BY FinishType DEF Reject, TypeOK, tables

LEMMA RollBackType ==
  ASSUME TypeOK, NEW pr \in Proc, NEW award \in [User -> Int],
         RollBack(pr, award), reviews' \in [ReviewKey -> ReviewState]
  PROVE  TypeOK'
BY FinishType, LogAwardType DEF RollBack, TypeOK

----------------------------------------------------------------------------
(* Votes and flags.                                                        *)

LEMMA UpVoteType ==
  ASSUME TypeOK, NEW pr \in Proc, upvotePost(pr)
  PROVE  TypeOK'
<1> DEFINE u == request[pr].user
           p == request[pr].post
           award == VoteAward(u, p, ForVoted)
<1>1. award \in [User -> Int] /\ u \in User /\ p \in Post
  BY VoteAwardType, InType DEF upvotePost, ForVoted
<1>2. CASE Reject(pr, <<u, p>> \in upVotes \/ ~TagsFound(u, p))
  BY <1>2, RejectType
<1>3. CASE /\ upVotes' = upVotes \cup {<<u, p>>}
           /\ posts' = [posts EXCEPT ![p].up = @ + 1, ![p].points = @ + 1]
           /\ Commit(pr, award)
           /\ UNCHANGED <<downVotes, reviews, revisions>>
  <2>1. posts' \in [Post -> Row]
    BY <1>3, <1>1 DEF TypeOK, Row
  <2>q. QED
    BY <2>1, <1>3, <1>1, CommitType DEF TypeOK
<1>4. CASE RollBack(pr, award) /\ UNCHANGED reviews
  BY <1>1, <1>4, RollBackType DEF TypeOK
<1>q. QED
  BY <1>2, <1>3, <1>4 DEF upvotePost

LEMMA CancelUpVoteType ==
  ASSUME TypeOK, NEW pr \in Proc, cancelUpvotePost(pr)
  PROVE  TypeOK'
<1> DEFINE u == request[pr].user
           p == request[pr].post
           award == VoteAward(u, p, -ForVoted)
<1>1. award \in [User -> Int] /\ u \in User /\ p \in Post
  BY VoteAwardType, InType DEF cancelUpvotePost, ForVoted
<1>2. CASE Reject(pr, ~TagsFound(u, p))
  BY <1>2, RejectType
<1>3. CASE /\ upVotes' = upVotes \ {<<u, p>>}
           /\ posts' = [posts EXCEPT ![p].up = Minus1(request[pr].row.up),
                                     ![p].points = @ - 1]
           /\ Commit(pr, award)
           /\ UNCHANGED <<downVotes, reviews, revisions>>
  <2>1. posts' \in [Post -> Row]
    <3>1. request[pr].row \in Row
      BY InType DEF cancelUpvotePost
    <3>q. QED
      BY <3>1, <1>3, <1>1 DEF TypeOK, Row, Minus1
  <2>q. QED
    BY <2>1, <1>3, <1>1, CommitType DEF TypeOK
<1>4. CASE RollBack(pr, award) /\ UNCHANGED reviews
  BY <1>1, <1>4, RollBackType DEF TypeOK
<1>q. QED
  BY <1>2, <1>3, <1>4 DEF cancelUpvotePost

LEMMA DownVoteType ==
  ASSUME TypeOK, NEW pr \in Proc, downvotePost(pr)
  PROVE  TypeOK'
<1> DEFINE u == request[pr].user
           p == request[pr].post
           award == VoteAward(u, p, ForDownVoted)
<1>1. award \in [User -> Int] /\ u \in User /\ p \in Post
  BY VoteAwardType, InType DEF downvotePost, ForDownVoted
<1>2. CASE Reject(pr, <<u, p>> \in downVotes \/ ~TagsFound(u, p))
  BY <1>2, RejectType
<1>3. CASE /\ downVotes' = downVotes \cup {<<u, p>>}
           /\ posts' = [posts EXCEPT ![p].down = @ + 1, ![p].points = @ - 1]
           /\ Commit(pr, award)
           /\ UNCHANGED <<upVotes, reviews, revisions>>
  <2>1. posts' \in [Post -> Row]
    BY <1>3, <1>1 DEF TypeOK, Row
  <2>q. QED
    BY SMTT(60), <2>1, <1>3, <1>1, CommitType DEF TypeOK
<1>4. CASE RollBack(pr, award) /\ UNCHANGED reviews
  BY <1>1, <1>4, RollBackType DEF TypeOK
<1>q. QED
  BY <1>2, <1>3, <1>4 DEF downvotePost

LEMMA CancelDownVoteType ==
  ASSUME TypeOK, NEW pr \in Proc, cancelDownvotePost(pr)
  PROVE  TypeOK'
<1> DEFINE u == request[pr].user
           p == request[pr].post
           award == VoteAward(u, p, -ForDownVoted)
<1>1. award \in [User -> Int] /\ u \in User /\ p \in Post
  BY VoteAwardType, InType DEF cancelDownvotePost, ForDownVoted
<1>2. CASE Reject(pr, ~TagsFound(u, p))
  BY <1>2, RejectType
<1>3. CASE /\ downVotes' = downVotes \ {<<u, p>>}
           /\ posts' = [posts EXCEPT ![p].down = Minus1(request[pr].row.down),
                                     ![p].points = @ + 1]
           /\ Commit(pr, award)
           /\ UNCHANGED <<upVotes, reviews, revisions>>
  <2>1. posts' \in [Post -> Row]
    <3>1. request[pr].row \in Row
      BY InType DEF cancelDownvotePost
    <3>q. QED
      BY SMTT(30), <3>1, <1>3, <1>1 DEF TypeOK, Row, Minus1
  <2>q. QED
    BY <2>1, <1>3, <1>1, CommitType DEF TypeOK
<1>4. CASE RollBack(pr, award) /\ UNCHANGED reviews
  BY <1>1, <1>4, RollBackType DEF TypeOK
<1>q. QED
  BY <1>2, <1>3, <1>4 DEF cancelDownvotePost

LEMMA FlagType ==
  ASSUME TypeOK, NEW pr \in Proc, flagPost(pr)
  PROVE  TypeOK'
<1> DEFINE u == request[pr].user
           p == request[pr].post
           award == Award(Author[p], ForFlagged)
<1>1. award \in [User -> Int] /\ u \in User /\ p \in Post
  BY AwardType, InType DEF flagPost, ForFlagged
<1>2. CASE Reject(pr, reviews[Flag(u, p)] # "none" \/ ~getTagsForPost(p))
  BY <1>2, RejectType
<1>3. CASE /\ reviews' = [reviews EXCEPT ![Flag(u, p)] = "pending"]
           /\ posts' = [posts EXCEPT ![p].flags = @ + 1]
           /\ Commit(pr, award)
           /\ UNCHANGED <<upVotes, downVotes, revisions>>
  <2>1. posts' \in [Post -> Row]
    <3>1. posts \in [Post -> Row]
      BY DEF TypeOK
    <3>2. posts' = [posts EXCEPT ![p].flags = @ + 1]
      BY <1>3
    <3> HIDE DEF p
    <3>q. QED
      BY <3>1, <3>2, <1>1 DEF Row
  <2>2. reviews' \in [ReviewKey -> ReviewState]
    BY <1>3, <1>1 DEF TypeOK, ReviewState
  <2>q. QED
    BY <2>1, <2>2, <1>3, <1>1, CommitType DEF TypeOK
<1>4. CASE RollBack(pr, award) /\ UNCHANGED reviews
  BY <1>1, <1>4, RollBackType DEF TypeOK
<1>q. QED
  BY <1>2, <1>3, <1>4 DEF flagPost

LEMMA CancelFlagType ==
  ASSUME TypeOK, NEW pr \in Proc, cancelFlagPost(pr)
  PROVE  TypeOK'
<1> DEFINE u == request[pr].user
           p == request[pr].post
           award == Award(Author[p], -ForFlagged)
<1>1. award \in [User -> Int] /\ u \in User /\ p \in Post
  BY AwardType, InType DEF cancelFlagPost, ForFlagged
<1>2. CASE Reject(pr, ~getTagsForPost(p))
  BY <1>2, RejectType
<1>3. CASE /\ reviews' = [reviews EXCEPT ![Flag(u, p)] = "none"]
           /\ posts' = [posts EXCEPT ![p].flags = @ - 1]
           /\ Commit(pr, award)
           /\ UNCHANGED <<upVotes, downVotes, revisions>>
  <2>1. posts' \in [Post -> Row]
    <3>1. posts \in [Post -> Row]
      BY DEF TypeOK
    <3>2. posts' = [posts EXCEPT ![p].flags = @ - 1]
      BY <1>3
    <3> HIDE DEF p
    <3>q. QED
      BY <3>1, <3>2, <1>1 DEF Row
  <2>2. reviews' \in [ReviewKey -> ReviewState]
    BY <1>3, <1>1 DEF TypeOK, ReviewState
  <2>q. QED
    BY <2>1, <2>2, <1>3, <1>1, CommitType DEF TypeOK
<1>4. CASE RollBack(pr, award) /\ UNCHANGED reviews
  BY <1>1, <1>4, RollBackType DEF TypeOK
<1>q. QED
  BY <1>2, <1>3, <1>4 DEF cancelFlagPost

LEMMA VoteNextType == TypeOK /\ VoteNext => TypeOK'
<1> SUFFICES ASSUME TypeOK, VoteNext PROVE TypeOK'
  OBVIOUS
<1>1. PICK pr \in Proc :
    \/ \E u \in User, p \in Post :
         \/ UpVotePost(pr, u, p)   \/ CancelUpVotePost(pr, u, p)
         \/ DownVotePost(pr, u, p) \/ CancelDownVotePost(pr, u, p)
         \/ FlagPost(pr, u, p)     \/ CancelFlagPost(pr, u, p)
    \/ ReadForUpVote(pr)   \/ ReadForCancelUpVote(pr)
    \/ ReadForDownVote(pr) \/ ReadForCancelDownVote(pr)
    \/ ReadForFlag(pr)     \/ ReadForCancelFlag(pr)
    \/ upvotePost(pr)   \/ cancelUpvotePost(pr)
    \/ downvotePost(pr) \/ cancelDownvotePost(pr)
    \/ flagPost(pr)     \/ cancelFlagPost(pr)
  BY DEF VoteNext
<1>2. CASE \E u \in User, p \in Post :
         \/ UpVotePost(pr, u, p)   \/ CancelUpVotePost(pr, u, p)
         \/ DownVotePost(pr, u, p) \/ CancelDownVotePost(pr, u, p)
         \/ FlagPost(pr, u, p)     \/ CancelFlagPost(pr, u, p)
  BY <1>2, AcceptType DEF UpVotePost, CancelUpVotePost, DownVotePost,
       CancelDownVotePost, FlagPost, CancelFlagPost
<1>3. CASE ReadForUpVote(pr) \/ ReadForDownVote(pr) \/ ReadForFlag(pr)
           \/ ReadForCancelFlag(pr)
  BY <1>3, ReadType, BlankRowType
     DEF ReadForUpVote, ReadForDownVote, ReadForFlag, ReadForCancelFlag
<1>4. CASE ReadForCancelUpVote(pr) \/ ReadForCancelDownVote(pr)
  <2>1. GetSingle(request[pr].post) => View.posts[request[pr].post] \in Row
    BY ViewType DEF GetSingle, Snapshot
  <2>q. QED
    BY <2>1, <1>4, ReadType DEF ReadForCancelUpVote, ReadForCancelDownVote
<1>q. QED
  BY <1>1, <1>2, <1>3, <1>4, UpVoteType, CancelUpVoteType, DownVoteType,
     CancelDownVoteType, FlagType, CancelFlagType

----------------------------------------------------------------------------
(* The life of a post.                                                     *)

LEMMA AnswersType ==
  ASSUME NEW f \in [Post -> Row], NEW q
  PROVE  /\ [f EXCEPT ![q].answers = @ + 1] \in [Post -> Row]
         /\ [f EXCEPT ![q].answers = @ - 1] \in [Post -> Row]
<1>1. CASE q \in Post
  <2>1. f[q] \in Row /\ f[q].answers \in Int
    BY <1>1 DEF Row
  <2>2. /\ [f[q] EXCEPT !.answers = @ + 1] \in Row
        /\ [f[q] EXCEPT !.answers = @ - 1] \in Row
    BY <2>1 DEF Row
  <2>q. QED
    BY <2>2
<1>2. CASE q \notin Post
  BY <1>2
<1>q. QED
  BY <1>1, <1>2

LEMMA InsertType ==
  ASSUME TypeOK, NEW p \in Post
  PROVE  Insert(p) \in [Post -> Row]
<1>1. [BlankRow EXCEPT !.status = "live"] \in Row
  BY BlankRowType DEF Row
<1>q. QED
  BY <1>1 DEF Insert, TypeOK

LEMMA CommitAndGoOnType ==
  ASSUME TypeOK, NEW pr \in Proc, request[pr].phase # "idle",
         NEW award \in [User -> Int], CommitAndGoOn(pr, award),
         posts' \in [Post -> Row],
         UNCHANGED <<upVotes, downVotes, reviews, revisions>>
  PROVE  TypeOK'
BY GotoType, AddToType, LogAwardType DEF CommitAndGoOn, TypeOK

LEMMA InvalidateReviewsType ==
  ASSUME TypeOK, NEW p
  PROVE  InvalidateReviews(p) \in [ReviewKey -> ReviewState]
BY DEF TypeOK, InvalidateReviews, ReviewState

LEMMA CloseType ==
  ASSUME TypeOK, NEW p, NEW state \in ReviewState
  PROVE  Close(p, state) \in [ReviewKey -> ReviewState]
BY DEF TypeOK, Close

LEMMA DeletedType ==
  ASSUME TypeOK, NEW pr \in Proc, request[pr].phase # "idle",
         NEW award \in [User -> Int], Deleted(pr, award),
         NEW p, invalidateReviewsForPost(p), posts' \in [Post -> Row]
  PROVE  TypeOK'
BY GotoType, FinishType, AddToType, LogAwardType, InvalidateReviewsType
   DEF Deleted, invalidateReviewsForPost, TypeOK

LEMMA SaveQuestionType ==
  ASSUME TypeOK, NEW pr \in Proc, saveQuestion(pr)
  PROVE  TypeOK'
<1> DEFINE award == Award(request[pr].user, ForCreateQuestion)
<1>1. award \in [User -> Int] /\ Target(pr) \in Post /\ request[pr].phase # "idle"
  BY AwardType, InType DEF saveQuestion, ForCreateQuestion, Target, In
<1>2. CASE Reject(pr, FALSE)
  BY <1>2, RejectType
<1>3. CASE /\ posts' = Insert(Target(pr))
           /\ CommitAndGoOn(pr, award)
           /\ UNCHANGED <<upVotes, downVotes, reviews, revisions>>
  BY <1>1, <1>3, InsertType, CommitAndGoOnType
<1>4. CASE RollBack(pr, award) /\ UNCHANGED reviews
  BY <1>1, <1>4, RollBackType DEF TypeOK
<1>q. QED
  BY <1>2, <1>3, <1>4 DEF saveQuestion

LEMMA SaveAnswerType ==
  ASSUME TypeOK, NEW pr \in Proc, saveAnswer(pr)
  PROVE  TypeOK'
<1> DEFINE p == Target(pr)
           award == IF SelfAnswer(p) THEN NoAward
                    ELSE Award(Author[p], ForCreateAnswer)
<1>1. award \in [User -> Int] /\ p \in Post /\ request[pr].phase # "idle"
  BY AwardType, NoAwardType, InType
     DEF saveAnswer, ForCreateAnswer, Target, In
<1>2. CASE Reject(pr, FALSE)
  BY <1>2, RejectType
<1>3. CASE /\ posts' = [Insert(p) EXCEPT ![Parent[p]].answers = @ + 1]
           /\ CommitAndGoOn(pr, award)
           /\ UNCHANGED <<upVotes, downVotes, reviews, revisions>>
  <2>1. Insert(p) \in [Post -> Row]
    BY <1>1, InsertType
  <2>2. posts' = [Insert(p) EXCEPT ![Parent[p]].answers = @ + 1]
    BY <1>3
  <2>3. posts' \in [Post -> Row]
    BY <2>1, <2>2, AnswersType
  <2>q. QED
    BY <1>1, <1>3, <2>3, CommitAndGoOnType
<1>4. CASE RollBack(pr, award) /\ UNCHANGED reviews
  BY <1>1, <1>4, RollBackType DEF TypeOK
<1>q. QED
  BY <1>2, <1>3, <1>4 DEF saveAnswer

LEMMA InsertCommentType ==
  ASSUME TypeOK, NEW pr \in Proc, InsertComment(pr)
  PROVE  TypeOK'
<1>1. Target(pr) \in Post /\ request[pr].phase # "idle"
  BY InType DEF InsertComment, Target, In
<1>q. QED
  BY <1>1, RejectType, InsertType, NoAwardType, CommitAndGoOnType
     DEF InsertComment

LEMMA CreateSystemReviewType ==
  ASSUME TypeOK, NEW pr \in Proc, CreateSystemReview(pr)
  PROVE  TypeOK'
<1>1. reviews' \in [ReviewKey -> ReviewState]
  BY DEF CreateSystemReview, TypeOK, ReviewState
<1>q. QED
  BY <1>1, FinishType DEF CreateSystemReview, TypeOK

LEMMA ReadForUpdateType ==
  ASSUME TypeOK, NEW pr \in Proc, ReadForUpdate(pr)
  PROVE  TypeOK'
<1> DEFINE r == [request[pr] EXCEPT !.phase = "read",
                                    !.row = View.posts[Target(pr)],
                                    !.content = served]
<1>1. In(pr, "update", "checked") /\ request[pr] \in InFlight
  BY InFlightType DEF ReadForUpdate, In
<1>2. GetSingle(Target(pr)) => View.posts[Target(pr)] \in Row
  BY ViewType DEF GetSingle, Snapshot
<1>3. GetSingle(Target(pr)) =>
        r \in InFlight /\ r.op = request[pr].op /\ r.post = request[pr].post
  BY <1>1, <1>2 DEF InFlight, TypeOK
<1>4. request' = [request EXCEPT ![pr] = IF GetSingle(Target(pr)) THEN r ELSE Idle]
  BY DEF ReadForUpdate
<1> HIDE DEF r
<1>5. request' \in [Proc -> Request]
  BY <1>3, <1>4, IdleType DEF TypeOK, Request
<1>6. \A q \in Proc :
        request'[q].phase # "idle" /\ request'[q].op = "selectBest"
          => request'[q].post \in Answer
  BY <1>1, <1>3, <1>4 DEF TypeOK, Idle, InFlight
<1>q. QED
  BY <1>5, <1>6 DEF ReadForUpdate, TypeOK, tables, Snapshot

LEMMA UpdateType ==
  ASSUME TypeOK, NEW pr \in Proc, update(pr)
  PROVE  TypeOK'
<1> DEFINE r == request[pr]
<1>1. r.post \in Post /\ r.row \in Row /\ r.content \in Nat /\ r.phase # "idle"
  BY InType DEF update, In
<1>2. CASE Reject(pr, FALSE)
  BY <1>2, RejectType
<1>3. CASE /\ posts' = [posts EXCEPT ![r.post] = [r.row EXCEPT !.content = r.content]]
           /\ Goto(pr, "committed")
           /\ UNCHANGED <<upVotes, downVotes, reviews, points, history,
                          revisions, replica, served>>
  <2>1. [r.row EXCEPT !.content = r.content] \in Row
    BY <1>1 DEF Row
  <2>2. posts \in [Post -> Row]
    BY DEF TypeOK
  <2> DEFINE p == r.post
             row == [r.row EXCEPT !.content = r.content]
  <2>3. posts' = [posts EXCEPT ![p] = row] /\ row \in Row
    BY <2>1, <1>3
  <2> HIDE DEF p, row
  <2>4. posts' \in [Post -> Row]
    BY <2>2, <2>3
  <2>q. QED
    BY <1>1, <1>3, <2>4, GotoType DEF TypeOK
<1>q. QED
  BY <1>2, <1>3 DEF update

LEMMA InsertRevisionType ==
  ASSUME TypeOK, NEW pr \in Proc, InsertRevision(pr)
  PROVE  TypeOK'
<1>1. request[pr].row.content \in Nat
  BY InType DEF InsertRevision, Row
<1>2. revisions' \in [Post -> SUBSET Nat]
  BY <1>1 DEF InsertRevision, TypeOK
<1>q. QED
  BY <1>2, FinishType DEF InsertRevision, TypeOK

LEMMA ReadForDeleteType ==
  ASSUME TypeOK, NEW pr \in Proc, ReadForDelete(pr)
  PROVE  TypeOK'
BY ReadType, BlankRowType DEF ReadForDelete

LEMMA DeleteQuestionType ==
  ASSUME TypeOK, NEW pr \in Proc, deleteQuestion(pr)
  PROVE  TypeOK'
<1> DEFINE p == Target(pr)
           award == Award(Author[p], -ForCreateQuestion)
<1>1. award \in [User -> Int] /\ p \in Post /\ request[pr].phase # "idle"
  BY AwardType, InType DEF deleteQuestion, Deletion, Target, In, ForCreateQuestion
<1>2. CASE Reject(pr, FALSE)
  BY <1>2, RejectType
<1>3. CASE /\ posts' = [posts EXCEPT ![p].status = "deleted"]
           /\ invalidateReviewsForPost(p)
           /\ Deleted(pr, award)
  <2>1. posts \in [Post -> Row]
    BY DEF TypeOK
  <2>2. posts' = [posts EXCEPT ![p].status = "deleted"]
    BY <1>3
  <2> HIDE DEF p
  <2>3. posts' \in [Post -> Row]
    BY <2>1, <2>2, <1>1 DEF Row
  <2>q. QED
    BY <1>1, <1>3, <2>3, DeletedType
<1>4. CASE RollBack(pr, award) /\ invalidateReviewsForPost(p)
  BY <1>1, <1>4, RollBackType, InvalidateReviewsType DEF invalidateReviewsForPost
<1>q. QED
  BY <1>2, <1>3, <1>4 DEF deleteQuestion

LEMMA DeleteAnswerType ==
  ASSUME TypeOK, NEW pr \in Proc, deleteAnswer(pr)
  PROVE  TypeOK'
<1> DEFINE p == Target(pr)
           award == Award(Author[p], -ForCreateAnswer)
<1>1. award \in [User -> Int] /\ p \in Post /\ request[pr].phase # "idle"
  BY AwardType, InType DEF deleteAnswer, Deletion, Target, In, ForCreateAnswer
<1>2. CASE Reject(pr, FALSE)
  BY <1>2, RejectType
<1>3. CASE /\ posts' = [posts EXCEPT ![p].status = "deleted",
                                     ![Parent[p]].answers = @ - 1]
           /\ invalidateReviewsForPost(p)
           /\ Deleted(pr, award)
  <2>1. posts \in [Post -> Row]
    BY DEF TypeOK
  <2>2. posts' = [posts EXCEPT ![p].status = "deleted",
                                     ![Parent[p]].answers = @ - 1]
    BY <1>3
  <2> DEFINE marked == [posts EXCEPT ![p].status = "deleted"]
             q == Parent[p]
  <2>3. posts' = [marked EXCEPT ![q].answers = @ - 1]
    BY <2>2
  <2> HIDE DEF p, q
  <2>4. marked \in [Post -> Row]
    BY <2>1, <1>1 DEF Row
  <2> HIDE DEF marked
  <2>5. posts' \in [Post -> Row]
    BY <2>3, <2>4, AnswersType
  <2>q. QED
    BY <1>1, <1>3, <2>5, DeletedType
<1>4. CASE RollBack(pr, award) /\ invalidateReviewsForPost(p)
  BY <1>1, <1>4, RollBackType, InvalidateReviewsType DEF invalidateReviewsForPost
<1>q. QED
  BY <1>2, <1>3, <1>4 DEF deleteAnswer

LEMMA DeleteCommentType ==
  ASSUME TypeOK, NEW pr \in Proc, deleteComment(pr)
  PROVE  TypeOK'
<1> DEFINE p == Target(pr)
           award == NoAward
<1>1. award \in [User -> Int] /\ p \in Post /\ request[pr].phase # "idle"
  BY NoAwardType, InType DEF deleteComment, Deletion, Target, In
<1>2. CASE Reject(pr, FALSE)
  BY <1>2, RejectType
<1>3. CASE /\ posts' = [posts EXCEPT ![p].status = "deleted"]
           /\ invalidateReviewsForPost(p)
           /\ Deleted(pr, award)
  <2>1. posts \in [Post -> Row]
    BY DEF TypeOK
  <2>2. posts' = [posts EXCEPT ![p].status = "deleted"]
    BY <1>3
  <2> HIDE DEF p
  <2>3. posts' \in [Post -> Row]
    BY <2>1, <2>2, <1>1 DEF Row
  <2>q. QED
    BY <1>1, <1>3, <2>3, DeletedType
<1>4. CASE RollBack(pr, award) /\ invalidateReviewsForPost(p)
  BY <1>1, <1>4, RollBackType, InvalidateReviewsType DEF invalidateReviewsForPost
<1>q. QED
  BY <1>2, <1>3, <1>4 DEF deleteComment

LEMMA SelectBestAnswerType ==
  ASSUME TypeOK, NEW pr \in Proc, selectBestAnswer(pr)
  PROVE  TypeOK'
<1> DEFINE p == Target(pr)
           award == IF SelfAnswer(p) THEN NoAward
                    ELSE AddTo(Award(Author[Parent[p]], ForSelectAnswer),
                               Award(Author[p], ForSelectedAnswer))
<1>1. award \in [User -> Int]
  BY AwardType, NoAwardType, AddToType DEF ForSelectAnswer, ForSelectedAnswer
<1>2. p \in Answer
  BY DEF selectBestAnswer, In, TypeOK, Target
<1>3. CASE Reject(pr, FALSE)
  BY <1>3, RejectType
<1>4. CASE /\ posts' = [posts EXCEPT ![Parent[p]].best = p]
           /\ Commit(pr, award)
           /\ UNCHANGED <<upVotes, downVotes, reviews, revisions>>
  <2>1. posts \in [Post -> Row]
    BY DEF TypeOK
  <2>2. posts' = [posts EXCEPT ![Parent[p]].best = p]
    BY <1>4
  <2> HIDE DEF p
  <2>3. \A r \in Row : [r EXCEPT !.best = p] \in Row
    BY <1>2 DEF Row
  <2>4. posts' \in [Post -> Row]
    BY <2>1, <2>2, <2>3
  <2>q. QED
    BY <1>1, <1>4, <2>4, CommitType DEF TypeOK
<1>5. CASE RollBack(pr, award) /\ UNCHANGED reviews
  BY <1>1, <1>5, RollBackType DEF TypeOK
<1>q. QED
  BY <1>3, <1>4, <1>5 DEF selectBestAnswer

LEMMA SetFlagType ==
  ASSUME TypeOK, NEW pr \in Proc, NEW op, NEW newPosts \in [Post -> Row],
         SetFlag(pr, op, newPosts)
  PROVE  TypeOK'
BY RejectType, CommitType, NoAwardType DEF SetFlag, TypeOK

LEMMA SetFlagsType ==
  ASSUME TypeOK, NEW pr \in Proc,
         \/ SetLockedAt(pr) \/ ClearLockedAt(pr)
         \/ SetProtectedAt(pr) \/ ClearProtectedAt(pr)
  PROVE  TypeOK'
<1>1. posts \in [Post -> Row]
  BY DEF TypeOK
<1>2. ASSUME NEW p, NEW b \in BOOLEAN
      PROVE  /\ [posts EXCEPT ![p].locked = b] \in [Post -> Row]
             /\ [posts EXCEPT ![p].protected = b] \in [Post -> Row]
  BY ZenonT(60), <1>1 DEF Row
<1>q. QED
  BY <1>2, SetFlagType
     DEF SetLockedAt, ClearLockedAt, SetProtectedAt, ClearProtectedAt

LEMMA LifecycleNextType == TypeOK /\ LifecycleNext => TypeOK'
<1> SUFFICES ASSUME TypeOK, NEW pr \in Proc,
    \/ \E p \in Post :
         \/ CreateQuestion(pr, p) \/ CreateAnswer(pr, p) \/ CreateComment(pr, p)
    \/ \E u \in User, p \in Post :
         \/ UpdatePost(pr, u, p) \/ DeletePost(pr, u, p)
         \/ SelectBestAnswer(pr, u, p)
         \/ LockPost(pr, u, p)    \/ CancelLockPost(pr, u, p)
         \/ ProtectPost(pr, u, p) \/ CancelProtectPost(pr, u, p)
    \/ SaveAnswer(pr) \/ SaveComment(pr) \/ ReadForUpdate(pr)
    \/ ReadForDelete(pr) \/ ReadForSelectBest(pr)
    \/ ReadForLock(pr) \/ ReadForCancelLock(pr)
    \/ ReadForProtect(pr) \/ ReadForCancelProtect(pr)
    \/ saveQuestion(pr) \/ saveAnswer(pr) \/ InsertComment(pr)
    \/ CreateSystemReview(pr)
    \/ update(pr) \/ InsertRevision(pr)
    \/ deleteQuestion(pr) \/ deleteAnswer(pr) \/ deleteComment(pr)
    \/ selectBestAnswer(pr)
    \/ SetLockedAt(pr) \/ ClearLockedAt(pr)
    \/ SetProtectedAt(pr) \/ ClearProtectedAt(pr)
    PROVE TypeOK'
  BY DEF LifecycleNext
<1>1. CASE \E p \in Post : CreateQuestion(pr, p) \/ CreateAnswer(pr, p)
                          \/ CreateComment(pr, p)
  BY <1>1, AcceptType, AuthorType DEF CreateQuestion, CreateAnswer, CreateComment
<1>2. CASE \E u \in User, p \in Post :
         \/ UpdatePost(pr, u, p) \/ DeletePost(pr, u, p)
         \/ SelectBestAnswer(pr, u, p)
         \/ LockPost(pr, u, p)    \/ CancelLockPost(pr, u, p)
         \/ ProtectPost(pr, u, p) \/ CancelProtectPost(pr, u, p)
  BY <1>2, AcceptType DEF UpdatePost, DeletePost, SelectBestAnswer, LockPost,
       CancelLockPost, ProtectPost, CancelProtectPost
<1>3. CASE \/ SaveAnswer(pr) \/ SaveComment(pr) \/ ReadForSelectBest(pr)
           \/ ReadForLock(pr) \/ ReadForCancelLock(pr)
           \/ ReadForProtect(pr) \/ ReadForCancelProtect(pr)
  BY <1>3, ReadType, BlankRowType
     DEF SaveAnswer, SaveComment, ReadForSelectBest, ReadForLock,
         ReadForCancelLock, ReadForProtect, ReadForCancelProtect
<1>q. QED
  BY <1>1, <1>2, <1>3, ReadForUpdateType, ReadForDeleteType, SaveQuestionType,
     SaveAnswerType, InsertCommentType, CreateSystemReviewType, UpdateType,
     InsertRevisionType, DeleteQuestionType, DeleteAnswerType,
     DeleteCommentType, SelectBestAnswerType, SetFlagsType

----------------------------------------------------------------------------
(* Reviews.                                                                *)

LEMMA ReviewNextType == TypeOK /\ ReviewNext => TypeOK'
<1> SUFFICES ASSUME TypeOK, NEW pr \in Proc,
      \/ \E u \in User, p \in Post :
           \/ CreateReviewVote(pr, u, p)
           \/ RejectReviewsForPost(pr, u, p)
           \/ CompleteReviewsForPost(pr, u, p)
      \/ InsertReview(pr) \/ RejectReviews(pr) \/ CompleteReviews(pr)
    PROVE TypeOK'
  BY DEF ReviewNext
<1>1. CASE \E u \in User, p \in Post :
           \/ CreateReviewVote(pr, u, p)
           \/ RejectReviewsForPost(pr, u, p)
           \/ CompleteReviewsForPost(pr, u, p)
  BY <1>1, AcceptType
     DEF CreateReviewVote, RejectReviewsForPost, CompleteReviewsForPost
<1>2. CASE InsertReview(pr)
  <2>1. CASE Reject(pr, reviews[Review(Target(pr))] # "none")
    BY <2>1, RejectType
  <2>2. CASE /\ reviews' = [reviews EXCEPT ![Review(Target(pr))] = "pending"]
             /\ Finish(pr)
             /\ UNCHANGED <<posts, upVotes, downVotes, points, history,
                            revisions, replica, served>>
    <3>1. reviews' \in [ReviewKey -> ReviewState]
      BY <2>2 DEF TypeOK, ReviewState
    <3>q. QED
      BY <3>1, <2>2, FinishType DEF TypeOK
  <2>q. QED
    BY <1>2, <2>1, <2>2 DEF InsertReview
<1>3. CASE RejectReviews(pr) \/ CompleteReviews(pr)
  <2>1. /\ Close(Target(pr), "rejected") \in [ReviewKey -> ReviewState]
        /\ Close(Target(pr), "completed") \in [ReviewKey -> ReviewState]
    BY CloseType DEF ReviewState
  <2>2. CASE Reject(pr, FALSE)
    BY <2>2, RejectType
  <2>3. CASE ~Reject(pr, FALSE)
    BY <1>3, <2>1, <2>3, FinishType DEF RejectReviews, CompleteReviews, TypeOK
  <2>q. QED
    BY <2>2, <2>3
<1>q. QED
  BY <1>1, <1>2, <1>3

----------------------------------------------------------------------------
(* Type correctness.                                                       *)

LEMMA InitType == Init => TypeOK
<1> SUFFICES ASSUME Init PROVE TypeOK
  OBVIOUS
<1>1. ASSUME NEW S, S \subseteq Post
      PROVE  Cardinality(S) \in Int
  BY <1>1, PostStoreAssumption, FS_Subset, FS_CardinalityType
<1>2. posts \in [Post -> Row]
  <2>1. ASSUME NEW p \in Post PROVE posts[p] \in Row
    <3>1. Cardinality({a \in Answer \cap Born : Parent[a] = p}) \in Int
      BY <1>1, PostStoreAssumption
    <3> DEFINE n == Cardinality({a \in Answer \cap Born : Parent[a] = p})
               status == IF p \in Born THEN "live" ELSE "none"
    <3>2. posts[p] = [BlankRow EXCEPT !.status = status, !.answers = n]
      BY DEF Init
    <3>3. status \in {"none", "live", "deleted"} /\ n \in Int
      BY <3>1
    <3> HIDE DEF n, status
    <3>q. QED
      BY <3>2, <3>3, BlankRowType DEF Row
  <2>q. QED
    BY <2>1 DEF Init
<1>3. points \in [User -> Int]
  <2>1. ASSUME NEW u \in User PROVE points[u] \in Int
    <3>1. /\ Cardinality(BornBy(u, Question)) \in Int
          /\ Cardinality({a \in BornBy(u, Answer) : ~SelfAnswer(a)}) \in Int
      BY <1>1, PostStoreAssumption DEF BornBy
    <3> DEFINE m == Cardinality(BornBy(u, Question))
               n == Cardinality({a \in BornBy(u, Answer) : ~SelfAnswer(a)})
    <3>2. points[u] = ForCreateQuestion * m + ForCreateAnswer * n
      BY DEF Init
    <3>3. m \in Int /\ n \in Int
      BY <3>1
    <3> HIDE DEF m, n
    <3>q. QED
      BY <3>2, <3>3 DEF ForCreateQuestion, ForCreateAnswer
  <2>q. QED
    BY <2>1 DEF Init
<1>4. reviews \in [ReviewKey -> ReviewState]
  BY DEF Init, ReviewState
<1>5. replica \in Snapshot
  BY <1>2, <1>3, <1>4 DEF Init, Snapshot
<1>6. /\ request \in [Proc -> Request]
      /\ \A pr \in Proc :
           request[pr].phase # "idle" /\ request[pr].op = "selectBest"
             => request[pr].post \in Answer
  BY IdleType DEF Init, Idle
<1>q. QED
  BY <1>2, <1>3, <1>4, <1>5, <1>6 DEF Init, TypeOK

LEMMA ReplicateType == TypeOK /\ Replicate => TypeOK'
BY DEF TypeOK, Replicate, Snapshot, tables

LEMMA StutterType == TypeOK /\ UNCHANGED vars => TypeOK'
BY DEF TypeOK, vars, tables

(* The tables are well typed in every reachable state, for any instance;   *)
(* in particular no interleaving of votes and cancellations, whatever rows *)
(* they read, takes a vote counter below zero.                             *)
THEOREM TypeCorrect == Spec => []TypeOK
<1>1. TypeOK /\ [Next]_vars => TypeOK'
  BY VoteNextType, LifecycleNextType, ReviewNextType, ReplicateType, StutterType
     DEF Next
<1>q. QED
  BY InitType, <1>1, PTL DEF Spec

----------------------------------------------------------------------------
(* The points and their history.  No step looks at the balance, so the     *)
(* invariant is inductive as it stands: a step writes both or neither,     *)
(* unless statements fail.                                                 *)

LEMMA BooksTogether ==
  ASSUME PointsMatchHistory, NEW award, points' = AddTo(points, award),
         LogAward(award)
  PROVE  PointsMatchHistory'
BY DEF PointsMatchHistory, AddTo, LogAward

LEMMA BooksUntouched ==
  ASSUME PointsMatchHistory, UNCHANGED <<points, history>>
  PROVE  PointsMatchHistory'
BY DEF PointsMatchHistory

LEMMA BooksOnFailure == ASSUME Faulty PROVE PointsMatchHistory'
BY DEF PointsMatchHistory

LEMMA RequestBooks ==
  ASSUME PointsMatchHistory, NEW pr
  PROVE  /\ \A op, u, p : Accept(pr, op, u, p) => PointsMatchHistory'
         /\ \A op, found, row : Read(pr, op, found, row) => PointsMatchHistory'
         /\ \A reason : Reject(pr, reason) => PointsMatchHistory'
         /\ \A award : Commit(pr, award) => PointsMatchHistory'
         /\ \A award : RollBack(pr, award) => PointsMatchHistory'
<1>1. \A op, u, p : Accept(pr, op, u, p) => PointsMatchHistory'
  BY BooksUntouched DEF Accept, tables
<1>2. \A op, found, row : Read(pr, op, found, row) => PointsMatchHistory'
  BY BooksUntouched DEF Read, tables
<1>3. \A reason : Reject(pr, reason) => PointsMatchHistory'
  BY BooksUntouched DEF Reject, tables
<1>4. \A award : Commit(pr, award) => PointsMatchHistory'
  BY BooksTogether DEF Commit
<1>5. \A award : RollBack(pr, award) => PointsMatchHistory'
  BY BooksOnFailure DEF RollBack
<1>q. QED
  BY <1>1, <1>2, <1>3, <1>4, <1>5

LEMMA VoteBooks == PointsMatchHistory /\ VoteNext => PointsMatchHistory'
<1> SUFFICES ASSUME PointsMatchHistory, NEW pr \in Proc,
    \/ \E u \in User, p \in Post :
         \/ UpVotePost(pr, u, p)   \/ CancelUpVotePost(pr, u, p)
         \/ DownVotePost(pr, u, p) \/ CancelDownVotePost(pr, u, p)
         \/ FlagPost(pr, u, p)     \/ CancelFlagPost(pr, u, p)
    \/ ReadForUpVote(pr)   \/ ReadForCancelUpVote(pr)
    \/ ReadForDownVote(pr) \/ ReadForCancelDownVote(pr)
    \/ ReadForFlag(pr)     \/ ReadForCancelFlag(pr)
    \/ upvotePost(pr)   \/ cancelUpvotePost(pr)
    \/ downvotePost(pr) \/ cancelDownvotePost(pr)
    \/ flagPost(pr)     \/ cancelFlagPost(pr)
    PROVE PointsMatchHistory'
  BY DEF VoteNext
<1>1. CASE \E u \in User, p \in Post :
         \/ UpVotePost(pr, u, p)   \/ CancelUpVotePost(pr, u, p)
         \/ DownVotePost(pr, u, p) \/ CancelDownVotePost(pr, u, p)
         \/ FlagPost(pr, u, p)     \/ CancelFlagPost(pr, u, p)
  BY <1>1, RequestBooks DEF UpVotePost, CancelUpVotePost, DownVotePost,
       CancelDownVotePost, FlagPost, CancelFlagPost
<1>2. CASE \/ ReadForUpVote(pr)   \/ ReadForCancelUpVote(pr)
           \/ ReadForDownVote(pr) \/ ReadForCancelDownVote(pr)
           \/ ReadForFlag(pr)     \/ ReadForCancelFlag(pr)
  BY <1>2, RequestBooks DEF ReadForUpVote, ReadForCancelUpVote,
       ReadForDownVote, ReadForCancelDownVote, ReadForFlag, ReadForCancelFlag
<1>3. CASE upvotePost(pr) \/ cancelUpvotePost(pr)
  BY <1>3, RequestBooks DEF upvotePost, cancelUpvotePost
<1>4. CASE downvotePost(pr) \/ cancelDownvotePost(pr)
  BY <1>4, RequestBooks DEF downvotePost, cancelDownvotePost
<1>5. CASE flagPost(pr) \/ cancelFlagPost(pr)
  BY <1>5, RequestBooks DEF flagPost, cancelFlagPost
<1>q. QED
  BY <1>1, <1>2, <1>3, <1>4, <1>5

LEMMA LifecycleBooks == PointsMatchHistory /\ LifecycleNext => PointsMatchHistory'
<1> SUFFICES ASSUME PointsMatchHistory, NEW pr \in Proc,
    \/ \E p \in Post :
         \/ CreateQuestion(pr, p) \/ CreateAnswer(pr, p) \/ CreateComment(pr, p)
    \/ \E u \in User, p \in Post :
         \/ UpdatePost(pr, u, p) \/ DeletePost(pr, u, p)
         \/ SelectBestAnswer(pr, u, p)
         \/ LockPost(pr, u, p)    \/ CancelLockPost(pr, u, p)
         \/ ProtectPost(pr, u, p) \/ CancelProtectPost(pr, u, p)
    \/ SaveAnswer(pr) \/ SaveComment(pr) \/ ReadForUpdate(pr)
    \/ ReadForDelete(pr) \/ ReadForSelectBest(pr)
    \/ ReadForLock(pr) \/ ReadForCancelLock(pr)
    \/ ReadForProtect(pr) \/ ReadForCancelProtect(pr)
    \/ saveQuestion(pr) \/ saveAnswer(pr) \/ InsertComment(pr)
    \/ CreateSystemReview(pr)
    \/ update(pr) \/ InsertRevision(pr)
    \/ deleteQuestion(pr) \/ deleteAnswer(pr) \/ deleteComment(pr)
    \/ selectBestAnswer(pr)
    \/ SetLockedAt(pr) \/ ClearLockedAt(pr)
    \/ SetProtectedAt(pr) \/ ClearProtectedAt(pr)
    PROVE PointsMatchHistory'
  BY DEF LifecycleNext
<1>1. CASE \E p \in Post : CreateQuestion(pr, p) \/ CreateAnswer(pr, p)
                          \/ CreateComment(pr, p)
  BY <1>1, RequestBooks DEF CreateQuestion, CreateAnswer, CreateComment
<1>2. CASE \E u \in User, p \in Post :
         \/ UpdatePost(pr, u, p) \/ DeletePost(pr, u, p)
         \/ SelectBestAnswer(pr, u, p)
         \/ LockPost(pr, u, p)    \/ CancelLockPost(pr, u, p)
         \/ ProtectPost(pr, u, p) \/ CancelProtectPost(pr, u, p)
  BY <1>2, RequestBooks DEF UpdatePost, DeletePost, SelectBestAnswer, LockPost,
       CancelLockPost, ProtectPost, CancelProtectPost
<1>3. CASE \/ SaveAnswer(pr) \/ SaveComment(pr)
           \/ ReadForDelete(pr) \/ ReadForSelectBest(pr)
           \/ ReadForLock(pr) \/ ReadForCancelLock(pr)
           \/ ReadForProtect(pr) \/ ReadForCancelProtect(pr)
  BY <1>3, RequestBooks
     DEF SaveAnswer, SaveComment, ReadForDelete, ReadForSelectBest, ReadForLock,
         ReadForCancelLock, ReadForProtect, ReadForCancelProtect
<1>4. CASE ReadForUpdate(pr)
  BY <1>4, BooksUntouched DEF ReadForUpdate, tables
<1>5. CASE saveQuestion(pr) \/ saveAnswer(pr) \/ InsertComment(pr)
  BY <1>5, RequestBooks, BooksTogether
     DEF saveQuestion, saveAnswer, InsertComment, CommitAndGoOn
<1>6. CASE CreateSystemReview(pr) \/ update(pr) \/ InsertRevision(pr)
  BY <1>6, RequestBooks, BooksUntouched
     DEF CreateSystemReview, update, InsertRevision
<1>7. CASE deleteQuestion(pr) \/ deleteAnswer(pr) \/ deleteComment(pr)
  BY <1>7, RequestBooks, BooksTogether
     DEF deleteQuestion, deleteAnswer, deleteComment, Deleted
<1>8. CASE selectBestAnswer(pr)
  BY <1>8, RequestBooks DEF selectBestAnswer
<1>9. CASE \/ SetLockedAt(pr) \/ ClearLockedAt(pr)
           \/ SetProtectedAt(pr) \/ ClearProtectedAt(pr)
  BY <1>9, RequestBooks
     DEF SetLockedAt, ClearLockedAt, SetProtectedAt, ClearProtectedAt, SetFlag
<1>q. QED
  BY <1>1, <1>2, <1>3, <1>4, <1>5, <1>6, <1>7, <1>8, <1>9

LEMMA ReviewBooks == PointsMatchHistory /\ ReviewNext => PointsMatchHistory'
BY RequestBooks, BooksUntouched
   DEF ReviewNext, CreateReviewVote, RejectReviewsForPost,
       CompleteReviewsForPost, InsertReview, RejectReviews, CompleteReviews

(* Where no statement fails, the points of every user are the sum of his   *)
(* point history, whatever requests interleave and whatever the replica    *)
(* shows them: upvotePost, saveAnswer and the others write both.           *)
THEOREM PointsAreTheirHistory == Spec => []PointsMatchHistory
<1>1. Init => PointsMatchHistory
  BY DEF Init, PointsMatchHistory
<1>2. PointsMatchHistory /\ [Next]_vars => PointsMatchHistory'
  <2>1. PointsMatchHistory /\ (Replicate \/ UNCHANGED vars) => PointsMatchHistory'
    BY BooksUntouched DEF Replicate, vars, tables
  <2>q. QED
    BY <2>1, VoteBooks, LifecycleBooks, ReviewBooks DEF Next
<1>q. QED
  BY <1>1, <1>2, PTL DEF Spec

----------------------------------------------------------------------------
(* Reviews are decided once.                                               *)

LEMMA SameReviewsStand == UNCHANGED reviews => DecisionsStand
BY DEF DecisionsStand

LEMMA InvalidateStands ==
  ASSUME NEW p, invalidateReviewsForPost(p)
  PROVE  DecisionsStand
BY DEF invalidateReviewsForPost, InvalidateReviews, DecisionsStand, Decided

LEMMA CloseStands ==
  ASSUME NEW p, NEW state, reviews' = Close(p, state)
  PROVE  DecisionsStand
BY DEF Close, DecisionsStand, Decided

(* A row that is written alone is either undecided or withdrawn.           *)
LEMMA WriteStands ==
  ASSUME TypeOK, NEW k, NEW state,
         k \in ReviewKey => reviews[k] = "none" \/ state \in {reviews[k], "none"},
         reviews' = [reviews EXCEPT ![k] = state]
  PROVE  DecisionsStand
BY DEF TypeOK, DecisionsStand, Decided

LEMMA RequestStands ==
  ASSUME NEW pr
  PROVE  /\ \A op, u, p : Accept(pr, op, u, p) => DecisionsStand
         /\ \A op, found, row : Read(pr, op, found, row) => DecisionsStand
         /\ \A reason : Reject(pr, reason) => DecisionsStand
BY SameReviewsStand DEF Accept, Read, Reject, tables

LEMMA VoteStands == TypeOK /\ VoteNext => DecisionsStand
<1> SUFFICES ASSUME TypeOK, NEW pr \in Proc,
    \/ \E u \in User, p \in Post :
         \/ UpVotePost(pr, u, p)   \/ CancelUpVotePost(pr, u, p)
         \/ DownVotePost(pr, u, p) \/ CancelDownVotePost(pr, u, p)
         \/ FlagPost(pr, u, p)     \/ CancelFlagPost(pr, u, p)
    \/ ReadForUpVote(pr)   \/ ReadForCancelUpVote(pr)
    \/ ReadForDownVote(pr) \/ ReadForCancelDownVote(pr)
    \/ ReadForFlag(pr)     \/ ReadForCancelFlag(pr)
    \/ upvotePost(pr)   \/ cancelUpvotePost(pr)
    \/ downvotePost(pr) \/ cancelDownvotePost(pr)
    \/ flagPost(pr)     \/ cancelFlagPost(pr)
    PROVE DecisionsStand
  BY DEF VoteNext
<1>1. CASE \E u \in User, p \in Post :
         \/ UpVotePost(pr, u, p)   \/ CancelUpVotePost(pr, u, p)
         \/ DownVotePost(pr, u, p) \/ CancelDownVotePost(pr, u, p)
         \/ FlagPost(pr, u, p)     \/ CancelFlagPost(pr, u, p)
  BY <1>1, RequestStands DEF UpVotePost, CancelUpVotePost, DownVotePost,
       CancelDownVotePost, FlagPost, CancelFlagPost
<1>2. CASE \/ ReadForUpVote(pr)   \/ ReadForCancelUpVote(pr)
           \/ ReadForDownVote(pr) \/ ReadForCancelDownVote(pr)
           \/ ReadForFlag(pr)     \/ ReadForCancelFlag(pr)
  BY <1>2, RequestStands DEF ReadForUpVote, ReadForCancelUpVote,
       ReadForDownVote, ReadForCancelDownVote, ReadForFlag, ReadForCancelFlag
<1>3. CASE \/ upvotePost(pr) \/ cancelUpvotePost(pr)
           \/ downvotePost(pr) \/ cancelDownvotePost(pr)
  BY <1>3, RequestStands, SameReviewsStand
     DEF upvotePost, cancelUpvotePost, downvotePost, cancelDownvotePost
<1>4. CASE flagPost(pr)
  BY <1>4, RequestStands, SameReviewsStand, WriteStands DEF flagPost
<1>5. CASE cancelFlagPost(pr)
  BY <1>5, RequestStands, SameReviewsStand, WriteStands DEF cancelFlagPost
<1>q. QED
  BY <1>1, <1>2, <1>3, <1>4, <1>5

LEMMA LifecycleStands == TypeOK /\ LifecycleNext => DecisionsStand
<1> SUFFICES ASSUME TypeOK, NEW pr \in Proc,
    \/ \E p \in Post :
         \/ CreateQuestion(pr, p) \/ CreateAnswer(pr, p) \/ CreateComment(pr, p)
    \/ \E u \in User, p \in Post :
         \/ UpdatePost(pr, u, p) \/ DeletePost(pr, u, p)
         \/ SelectBestAnswer(pr, u, p)
         \/ LockPost(pr, u, p)    \/ CancelLockPost(pr, u, p)
         \/ ProtectPost(pr, u, p) \/ CancelProtectPost(pr, u, p)
    \/ SaveAnswer(pr) \/ SaveComment(pr) \/ ReadForUpdate(pr)
    \/ ReadForDelete(pr) \/ ReadForSelectBest(pr)
    \/ ReadForLock(pr) \/ ReadForCancelLock(pr)
    \/ ReadForProtect(pr) \/ ReadForCancelProtect(pr)
    \/ saveQuestion(pr) \/ saveAnswer(pr) \/ InsertComment(pr)
    \/ CreateSystemReview(pr)
    \/ update(pr) \/ InsertRevision(pr)
    \/ deleteQuestion(pr) \/ deleteAnswer(pr) \/ deleteComment(pr)
    \/ selectBestAnswer(pr)
    \/ SetLockedAt(pr) \/ ClearLockedAt(pr)
    \/ SetProtectedAt(pr) \/ ClearProtectedAt(pr)
    PROVE DecisionsStand
  BY DEF LifecycleNext
<1>1. CASE \E p \in Post : CreateQuestion(pr, p) \/ CreateAnswer(pr, p)
                          \/ CreateComment(pr, p)
  BY <1>1, RequestStands DEF CreateQuestion, CreateAnswer, CreateComment
<1>2. CASE \E u \in User, p \in Post :
         \/ UpdatePost(pr, u, p) \/ DeletePost(pr, u, p)
         \/ SelectBestAnswer(pr, u, p)
         \/ LockPost(pr, u, p)    \/ CancelLockPost(pr, u, p)
         \/ ProtectPost(pr, u, p) \/ CancelProtectPost(pr, u, p)
  BY <1>2, RequestStands DEF UpdatePost, DeletePost, SelectBestAnswer, LockPost,
       CancelLockPost, ProtectPost, CancelProtectPost
<1>3. CASE \/ SaveAnswer(pr) \/ SaveComment(pr)
           \/ ReadForDelete(pr) \/ ReadForSelectBest(pr)
           \/ ReadForLock(pr) \/ ReadForCancelLock(pr)
           \/ ReadForProtect(pr) \/ ReadForCancelProtect(pr)
  BY <1>3, RequestStands
     DEF SaveAnswer, SaveComment, ReadForDelete, ReadForSelectBest, ReadForLock,
         ReadForCancelLock, ReadForProtect, ReadForCancelProtect
<1>4. CASE ReadForUpdate(pr) \/ update(pr) \/ InsertRevision(pr)
  BY <1>4, RequestStands, SameReviewsStand
     DEF ReadForUpdate, update, InsertRevision, tables
<1>5. CASE saveQuestion(pr) \/ saveAnswer(pr) \/ InsertComment(pr)
  BY <1>5, RequestStands, SameReviewsStand
     DEF saveQuestion, saveAnswer, InsertComment
<1>6. CASE CreateSystemReview(pr)
  <2> DEFINE k == System(Target(pr))
             state == IF reviews[k] = "none" THEN "pending" ELSE reviews[k]
  <2>1. UNCHANGED reviews \/ reviews' = [reviews EXCEPT ![k] = state]
    BY <1>6 DEF CreateSystemReview
  <2>q. QED
    BY <2>1, WriteStands, SameReviewsStand
<1>7. CASE deleteQuestion(pr) \/ deleteAnswer(pr) \/ deleteComment(pr)
  BY <1>7, RequestStands, InvalidateStands
     DEF deleteQuestion, deleteAnswer, deleteComment
<1>8. CASE selectBestAnswer(pr)
  BY <1>8, RequestStands, SameReviewsStand DEF selectBestAnswer
<1>9. CASE \/ SetLockedAt(pr) \/ ClearLockedAt(pr)
           \/ SetProtectedAt(pr) \/ ClearProtectedAt(pr)
  BY <1>9, RequestStands, SameReviewsStand
     DEF SetLockedAt, ClearLockedAt, SetProtectedAt, ClearProtectedAt, SetFlag
<1>q. QED
  BY <1>1, <1>2, <1>3, <1>4, <1>5, <1>6, <1>7, <1>8, <1>9

LEMMA ReviewStands == TypeOK /\ ReviewNext => DecisionsStand
<1> SUFFICES ASSUME TypeOK, NEW pr \in Proc,
      \/ \E u \in User, p \in Post :
           \/ CreateReviewVote(pr, u, p)
           \/ RejectReviewsForPost(pr, u, p)
           \/ CompleteReviewsForPost(pr, u, p)
      \/ InsertReview(pr) \/ RejectReviews(pr) \/ CompleteReviews(pr)
    PROVE DecisionsStand
  BY DEF ReviewNext
<1>1. CASE \E u \in User, p \in Post :
           \/ CreateReviewVote(pr, u, p)
           \/ RejectReviewsForPost(pr, u, p)
           \/ CompleteReviewsForPost(pr, u, p)
  BY <1>1, RequestStands
     DEF CreateReviewVote, RejectReviewsForPost, CompleteReviewsForPost
<1>2. CASE InsertReview(pr)
  BY <1>2, RequestStands, WriteStands DEF InsertReview
<1>3. CASE RejectReviews(pr) \/ CompleteReviews(pr)
  BY <1>3, RequestStands, CloseStands DEF RejectReviews, CompleteReviews
<1>q. QED
  BY <1>1, <1>2, <1>3

(* A review is decided once, whatever requests race for it: the WHERE      *)
(* clauses of invalidateReviewsForPost, RejectReviewsForPost and           *)
(* CompleteReviewsForPost are evaluated on the master's rows.              *)
THEOREM DecisionsAreFinal == Spec => ReviewsDecidedOnce
<1>1. TypeOK /\ [Next]_vars => [DecisionsStand]_vars
  BY VoteStands, LifecycleStands, ReviewStands, SameReviewsStand
     DEF Next, Replicate, vars, tables
<1>q. QED
  BY <1>1, TypeCorrect, PTL DEF Spec, ReviewsDecidedOnce

----------------------------------------------------------------------------
(* One request at a time, on one database.  First what the sets that are   *)
(* counted gain and lose.                                                  *)

LEMMA OneMore ==
  ASSUME NEW S, IsFiniteSet(S), NEW x, x \notin S
  PROVE  IsFiniteSet(S \cup {x}) /\ Cardinality(S \cup {x}) = Cardinality(S) + 1
BY FS_AddElement

LEMMA OneLess ==
  ASSUME NEW S, IsFiniteSet(S), NEW x \in S
  PROVE  Cardinality(S \ {x}) = Cardinality(S) - 1
BY FS_RemoveElement

LEMMA Kinds ==
  /\ Question \subseteq Post /\ Answer \subseteq Post /\ Comment \subseteq Post
  /\ Question \cap Answer = {} /\ Question \cap Comment = {} /\ Answer \cap Comment = {}
  /\ \A c \in Answer \cup Comment : Parent[c] \in Question \cup Answer /\ Parent[c] \in Post
  /\ \A a \in Answer : Parent[a] \in Question
  /\ \A p \in Post : Author[p] \in User
  /\ None \notin Post
BY PostStoreAssumption DEF Post

LEMMA Finite ==
  /\ IsFiniteSet(User) /\ IsFiniteSet(User \X Post)
  /\ \A S \in SUBSET Post : IsFiniteSet(S) /\ Cardinality(S) \in Nat
  /\ \A S \in SUBSET User : IsFiniteSet(S) /\ Cardinality(S) \in Nat
  /\ \A S \in SUBSET (User \X Post) : IsFiniteSet(S) /\ Cardinality(S) \in Nat
BY PostStoreAssumption, FS_Subset, FS_Product, FS_CardinalityType

LEMMA RowsAre ==
  ASSUME TypeOK
  PROVE  /\ posts \in [Post -> Row]
         /\ \A p \in Post :
              /\ posts[p].status \in {"none", "live", "deleted"}
              /\ posts[p].up \in Nat /\ posts[p].down \in Nat
              /\ posts[p].points \in Int /\ posts[p].flags \in Int /\ posts[p].answers \in Int
              /\ posts[p].best \in Answer \cup {None} /\ posts[p].content \in Nat
BY DEF TypeOK, Row

LEMMA BlankRowIs ==
  /\ BlankRow.status = "none" /\ BlankRow.up = 0 /\ BlankRow.down = 0
  /\ BlankRow.points = 0 /\ BlankRow.flags = 0 /\ BlankRow.answers = 0
  /\ BlankRow.best = None /\ BlankRow.content = 0
BY DEF BlankRow

LEMMA TheRequest ==
  ASSUME TypeOK, NEW pr \in Proc, request[pr].phase # "idle"
  PROVE  /\ request[pr].user \in User /\ request[pr].post \in Post /\ request[pr].row \in Row
         /\ request[pr].phase \in {"checked", "read", "committed"}
         /\ request[pr].op = "selectBest" => request[pr].post \in Answer
         /\ request[pr].op \in Ops
<1>1. request[pr] \in InFlight
  BY InFlightType
<1> QED BY <1>1 DEF InFlight, TypeOK

LEMMA ViewIs ==
  ASSUME ~HasReplica
  PROVE  /\ View.posts = posts /\ View.up = upVotes /\ View.down = downVotes
         /\ View.reviews = reviews
         /\ \A p : GetSingle(p) <=> p \in Post /\ posts[p].status = "live"
BY DEF View, GetSingle

LEMMA FlagsDiffer ==
  /\ \A u, v \in User, p, q \in Post : Flag(u, p) = Flag(v, q) <=> u = v /\ p = q
  /\ \A u \in User, p, q \in Post : Flag(u, p) # Review(q) /\ Flag(u, p) # System(q)
  /\ \A u \in User, p \in Post : /\ Flag(u, p) \in ReviewKey /\ Review(p) \in ReviewKey
                                 /\ System(p) \in ReviewKey
                                 /\ Flag(u, p)[3] = p /\ Review(p)[3] = p /\ System(p)[3] = p
  /\ \A k \in ReviewKey : k[3] \in Post
BY DEF Flag, Review, System, ReviewKey

LEMMA VotesForFinite ==
  ASSUME NEW votes \in SUBSET (User \X Post), NEW p
  PROVE  IsFiniteSet(VotesFor(votes, p)) /\ Cardinality(VotesFor(votes, p)) \in Nat
BY Finite DEF VotesFor

LEMMA VoteAdded ==
  ASSUME NEW votes \in SUBSET (User \X Post), NEW u \in User, NEW p \in Post, <<u, p>> \notin votes,
         NEW q
  PROVE  Cardinality(VotesFor(votes \cup {<<u, p>>}, q))
           = Cardinality(VotesFor(votes, q)) + IF q = p THEN 1 ELSE 0
<1>1. CASE q = p
  <2>1. /\ VotesFor(votes \cup {<<u, p>>}, q) = VotesFor(votes, q) \cup {<<u, p>>}
        /\ <<u, p>> \notin VotesFor(votes, q)
    BY <1>1 DEF VotesFor
  <2> QED BY <1>1, <2>1, OneMore, VotesForFinite
<1>2. CASE q # p
  <2>1. VotesFor(votes \cup {<<u, p>>}, q) = VotesFor(votes, q)
    BY <1>2 DEF VotesFor
  <2> QED BY <1>2, <2>1, VotesForFinite
<1> QED BY <1>1, <1>2

LEMMA VoteTaken ==
  ASSUME NEW votes \in SUBSET (User \X Post), NEW u \in User, NEW p \in Post, <<u, p>> \in votes,
         NEW q
  PROVE  Cardinality(VotesFor(votes \ {<<u, p>>}, q))
           = Cardinality(VotesFor(votes, q)) - IF q = p THEN 1 ELSE 0
<1>1. CASE q = p
  <2>1. /\ VotesFor(votes \ {<<u, p>>}, q) = VotesFor(votes, q) \ {<<u, p>>}
        /\ <<u, p>> \in VotesFor(votes, q)
    BY <1>1 DEF VotesFor
  <2> QED BY <1>1, <2>1, OneLess, VotesForFinite
<1>2. CASE q # p
  <2>1. VotesFor(votes \ {<<u, p>>}, q) = VotesFor(votes, q)
    BY <1>2 DEF VotesFor
  <2> QED BY <1>2, <2>1, VotesForFinite
<1> QED BY <1>1, <1>2

LEMMA EarnedFinite ==
  ASSUME NEW votes \in SUBSET (User \X Post), NEW a
  PROVE  IsFiniteSet(VotesEarned(votes, a)) /\ Cardinality(VotesEarned(votes, a)) \in Nat
BY Finite DEF VotesEarned

LEMMA EarnedAdded ==
  ASSUME NEW votes \in SUBSET (User \X Post), NEW u \in User, NEW p \in Post, <<u, p>> \notin votes,
         NEW a
  PROVE  Cardinality(VotesEarned(votes \cup {<<u, p>>}, a))
           = Cardinality(VotesEarned(votes, a)) + IF a = Author[p] /\ u # a THEN 1 ELSE 0
<1>1. CASE a = Author[p] /\ u # a
  <2>1. /\ VotesEarned(votes \cup {<<u, p>>}, a) = VotesEarned(votes, a) \cup {<<u, p>>}
        /\ <<u, p>> \notin VotesEarned(votes, a)
    BY <1>1 DEF VotesEarned
  <2> QED BY <1>1, <2>1, OneMore, EarnedFinite
<1>2. CASE ~(a = Author[p] /\ u # a)
  <2>1. VotesEarned(votes \cup {<<u, p>>}, a) = VotesEarned(votes, a)
    BY <1>2 DEF VotesEarned
  <2> QED BY <1>2, <2>1, EarnedFinite
<1> QED BY <1>1, <1>2

LEMMA EarnedTaken ==
  ASSUME NEW votes \in SUBSET (User \X Post), NEW u \in User, NEW p \in Post, <<u, p>> \in votes,
         NEW a
  PROVE  Cardinality(VotesEarned(votes \ {<<u, p>>}, a))
           = Cardinality(VotesEarned(votes, a)) - IF a = Author[p] /\ u # a THEN 1 ELSE 0
<1>1. CASE a = Author[p] /\ u # a
  <2>1. /\ VotesEarned(votes \ {<<u, p>>}, a) = VotesEarned(votes, a) \ {<<u, p>>}
        /\ <<u, p>> \in VotesEarned(votes, a)
    BY <1>1 DEF VotesEarned
  <2> QED BY <1>1, <2>1, OneLess, EarnedFinite
<1>2. CASE ~(a = Author[p] /\ u # a)
  <2>1. VotesEarned(votes \ {<<u, p>>}, a) = VotesEarned(votes, a)
    BY <1>2 DEF VotesEarned
  <2> QED BY <1>2, <2>1, EarnedFinite
<1> QED BY <1>1, <1>2

----------------------------------------------------------------------------
(* The invariant: the tables, whatever the request is doing.               *)

(* A post that is not there yet has an empty row and nothing under it.     *)
Blank(p) ==
  /\ posts[p] = BlankRow
  /\ \A u \in User : /\ <<u, p>> \notin upVotes /\ <<u, p>> \notin downVotes
                     /\ reviews[Flag(u, p)] = "none"
Untouched ==
  /\ \A p \in Post : posts[p].status = "none" => Blank(p)
  /\ \A c \in Answer \cup Comment :
       posts[c].status # "none" => posts[Parent[c]].status # "none"

Under(S, p) == {c \in Live(S) : Parent[c] = p}

Hang == "complete" \notin Ops => NoOrphans /\ BestAnswerIsLive

TablesKept ==
  /\ Untouched /\ CountersMatchVotes /\ AnswersCounted /\ PointsMatchDeeds
  /\ DeletedPostHasNoPendingReview /\ CommentLimitKept /\ Hang

(* What a request knows of the tables is still so when it writes.          *)
Creations == {"createQuestion", "createAnswer", "createComment"}

KnowsNew(r) ==
  /\ r.op = "createQuestion" => r.post \in Question /\ r.user = Author[r.post]
  /\ r.op = "createAnswer" => r.post \in Answer
  /\ r.op = "createComment" => r.post \in Comment
  /\ r.op \in Creations =>
       posts[r.post].status = IF r.phase = "committed" THEN "live" ELSE "none"
  /\ r.op \in {"createAnswer", "createComment"} => posts[Parent[r.post]].status = "live"
  /\ r.op = "createComment" /\ r.phase = "read" =>
       Cardinality(Under(Comment, Parent[r.post])) < CommentLimit
KnowsPost(r) ==
  /\ r.phase = "read" /\ r.op \notin Creations => posts[r.post].status = "live"
  /\ r.op \in {"review", "reject"} => posts[r.post].status = "live"
  /\ r.op \in {"update", "cancelUpVote", "cancelDownVote"} /\ r.phase = "read" =>
       r.row = posts[r.post]
  /\ r.op = "selectBest" /\ r.phase = "read" =>
       posts[Parent[r.post]].status = "live" /\ posts[Parent[r.post]].best = None
KnowsVote(r) ==
  r.phase = "read" =>
    /\ r.op = "cancelUpVote" => <<r.user, r.post>> \in upVotes
    /\ r.op = "cancelDownVote" => <<r.user, r.post>> \in downVotes
    /\ r.op = "cancelFlag" => reviews[Flag(r.user, r.post)] # "none"
KnowsLeaf(r) ==
  /\ r.op \in Deletes /\ r.phase = "read" /\ r.post \in Answer =>
       posts[Parent[r.post]].status = "live"
  /\ r.op = "delete" => /\ Under(Answer \cup Comment, r.post) = {}
                        /\ r.post \in Answer => posts[Parent[r.post]].best # r.post
Knows(r) ==
  r.phase # "idle" => KnowsNew(r) /\ KnowsPost(r) /\ KnowsVote(r) /\ KnowsLeaf(r)

PostInv(pr) == TypeOK /\ TablesKept /\ Knows(request[pr])

----------------------------------------------------------------------------
(* What the parts of the tables that are compared hang on.                 *)
SameStatus == \A p \in Post : posts'[p].status = posts[p].status
SameBest == \A p \in Post : posts'[p].best = posts[p].best
SameAnswers == \A p \in Post : posts'[p].answers = posts[p].answers
SameCounters == \A p \in Post :
  /\ posts'[p].up = posts[p].up /\ posts'[p].down = posts[p].down
  /\ posts'[p].points = posts[p].points /\ posts'[p].flags = posts[p].flags
SameFlags == \A u \in User, p \in Post :
  reviews'[Flag(u, p)] = "none" <=> reviews[Flag(u, p)] = "none"
SameVotes == UNCHANGED <<upVotes, downVotes>>

LEMMA LiveSame == ASSUME SameStatus, NEW S \in SUBSET Post PROVE Live(S)' = Live(S)
BY DEF Live, SameStatus

LEMMA LiveIs == ASSUME NEW S \in SUBSET Post PROVE Live(S) \in SUBSET Post /\ Live(S) \subseteq S
BY DEF Live

LEMMA FlagsSame ==
  ASSUME SameFlags
  PROVE  /\ \A p \in Post : FlagRows(p)' = FlagRows(p)
         /\ \A a : FlagsReceived(a)' = FlagsReceived(a)
BY DEF SameFlags, FlagRows, FlagsReceived

LEMMA CountersSame ==
  ASSUME CountersMatchVotes, SameCounters, SameVotes, SameFlags
  PROVE  CountersMatchVotes'
<1>1. \A p \in Post : FlagRows(p)' = FlagRows(p)
  BY FlagsSame
<1>2. \A p : VotesFor(upVotes, p)' = VotesFor(upVotes, p) /\ VotesFor(downVotes, p)' = VotesFor(downVotes, p)
  BY DEF SameVotes, VotesFor
<1> QED BY <1>1, <1>2 DEF CountersMatchVotes, SameCounters

LEMMA AnswersSame ==
  ASSUME AnswersCounted, SameAnswers, SameStatus
  PROVE  AnswersCounted'
<1>1. Live(Answer)' = Live(Answer)
  BY LiveSame, Kinds
<1> QED BY <1>1, Kinds DEF AnswersCounted, SameAnswers

LEMMA HangSame ==
  ASSUME Hang, SameStatus, SameBest
  PROVE  Hang'
<1>1. /\ Live(Answer \cup Comment)' = Live(Answer \cup Comment)
      /\ Live(Question)' = Live(Question) /\ Live(Answer)' = Live(Answer)
  BY LiveSame, Kinds
<1>2. \A c \in Live(Answer \cup Comment) : Parent[c] \in Post
  BY Kinds DEF Live
<1>3. \A q \in Live(Question) : q \in Post
  BY Kinds DEF Live
<1> QED BY <1>1, <1>2, <1>3 DEF Hang, NoOrphans, BestAnswerIsLive, SameStatus, SameBest

LEMMA LimitSame ==
  ASSUME CommentLimitKept, SameStatus
  PROVE  CommentLimitKept'
<1>1. Live(Comment)' = Live(Comment)
  BY LiveSame, Kinds
<1> QED BY <1>1 DEF CommentLimitKept

(* Whatever is pending about a deleted post was so before.                 *)
LEMMA NoneReopened ==
  ASSUME DeletedPostHasNoPendingReview,
         \A p \in Post : posts'[p].status = "deleted" =>
           \/ posts[p].status = "deleted"
                /\ \A k \in ReviewsOf(p) : reviews'[k] = "pending" => reviews[k] = "pending"
           \/ \A k \in ReviewsOf(p) : reviews'[k] # "pending"
  PROVE  DeletedPostHasNoPendingReview'
BY DEF DeletedPostHasNoPendingReview, ReviewsOf

(* The points, term by term.                                               *)
LifeWorth(u) ==
  ForCreateQuestion * Cardinality(By(u, Live(Question)))
  + ForCreateAnswer * Cardinality(By(u, Live(Answer \ SelfAnswers)))
  - ForCreateAnswer * Cardinality({a \in By(u, SelfAnswers) : posts[a].status = "deleted"})
ChoiceWorth(u) ==
  ForSelectAnswer * Cardinality({a \in Chosen : Author[Parent[a]] = u})
  + ForSelectedAnswer * Cardinality(By(u, Chosen))
VoteWorth(u) ==
  ForVoted * Cardinality(VotesEarned(upVotes, u))
  + ForDownVoted * Cardinality(VotesEarned(downVotes, u))
FlagWorth(u) == ForFlagged * Cardinality(FlagsReceived(u))

LEMMA TermsAre ==
  /\ \A u : /\ By(u, Live(Question)) \in SUBSET Post
            /\ By(u, Live(Answer \ SelfAnswers)) \in SUBSET Post
            /\ {a \in By(u, SelfAnswers) : posts[a].status = "deleted"} \in SUBSET Post
            /\ {a \in Chosen : Author[Parent[a]] = u} \in SUBSET Post
            /\ By(u, Chosen) \in SUBSET Post
            /\ FlagsReceived(u) \in SUBSET (User \X Post)
BY Kinds DEF By, Live, SelfAnswers, Chosen, FlagsReceived

LEMMA DeedsAre ==
  ASSUME TypeOK, NEW u
  PROVE  /\ Deeds(u) = LifeWorth(u) + ChoiceWorth(u) + VoteWorth(u) + FlagWorth(u)
         /\ LifeWorth(u) \in Int /\ ChoiceWorth(u) \in Int
         /\ VoteWorth(u) \in Int /\ FlagWorth(u) \in Int
<1>1. /\ Cardinality(By(u, Live(Question))) \in Nat
      /\ Cardinality(By(u, Live(Answer \ SelfAnswers))) \in Nat
      /\ Cardinality({a \in By(u, SelfAnswers) : posts[a].status = "deleted"}) \in Nat
      /\ Cardinality({a \in Chosen : Author[Parent[a]] = u}) \in Nat
      /\ Cardinality(By(u, Chosen)) \in Nat
      /\ Cardinality(FlagsReceived(u)) \in Nat
  BY TermsAre, Finite
<1>2. /\ Cardinality(VotesEarned(upVotes, u)) \in Nat
      /\ Cardinality(VotesEarned(downVotes, u)) \in Nat
  BY EarnedFinite DEF TypeOK
<1> QED
  BY <1>1, <1>2
     DEF Deeds, LifeWorth, ChoiceWorth, VoteWorth, FlagWorth, ForCreateQuestion, ForCreateAnswer,
         ForSelectAnswer, ForSelectedAnswer, ForVoted, ForDownVoted, ForFlagged

DeedsByTerms == \A u :
  /\ Deeds(u) = LifeWorth(u) + ChoiceWorth(u) + VoteWorth(u) + FlagWorth(u)
  /\ LifeWorth(u) \in Int /\ ChoiceWorth(u) \in Int
  /\ VoteWorth(u) \in Int /\ FlagWorth(u) \in Int

LEMMA DeedsThen == TypeOK' => DeedsByTerms'
<1>1. TypeOK => DeedsByTerms
  BY DeedsAre DEF DeedsByTerms
<1> QED BY <1>1, PTL

LEMMA LifeSame == ASSUME SameStatus, NEW u PROVE LifeWorth(u)' = LifeWorth(u)
<1>1. Live(Question)' = Live(Question) /\ Live(Answer \ SelfAnswers)' = Live(Answer \ SelfAnswers)
  BY LiveSame, Kinds DEF SelfAnswers
<1>2. {a \in By(u, SelfAnswers) : posts[a].status = "deleted"}'
        = {a \in By(u, SelfAnswers) : posts[a].status = "deleted"}
  BY Kinds DEF By, SelfAnswers, SameStatus
<1> QED BY <1>1, <1>2 DEF LifeWorth, By

LEMMA ChoiceSame == ASSUME SameBest, NEW u PROVE ChoiceWorth(u)' = ChoiceWorth(u)
<1>1. Chosen' = Chosen
  BY Kinds DEF Chosen, SelfAnswers, SameBest
<1> QED BY <1>1 DEF ChoiceWorth, By

LEMMA VotesSame == ASSUME SameVotes, NEW u PROVE VoteWorth(u)' = VoteWorth(u)
BY DEF SameVotes, VoteWorth, VotesEarned

LEMMA FlagWorthSame == ASSUME SameFlags, NEW u PROVE FlagWorth(u)' = FlagWorth(u)
BY FlagsSame DEF FlagWorth

LEMMA PointsSame ==
  ASSUME TypeOK, TypeOK', PointsMatchDeeds, UNCHANGED points,
         SameStatus, SameBest, SameVotes, SameFlags
  PROVE  PointsMatchDeeds'
<1>1. ASSUME NEW u \in User PROVE Deeds(u)' = Deeds(u)
  BY DeedsAre, DeedsThen, LifeSame, ChoiceSame, VotesSame, FlagWorthSame DEF DeedsByTerms
<1> QED BY <1>1 DEF PointsMatchDeeds

----------------------------------------------------------------------------
(* What keeps the tables together: first what changes no status.           *)
StillDecided == \A p \in Post : posts[p].status = "deleted" =>
  \A k \in ReviewsOf(p) : reviews'[k] = "pending" => reviews[k] = "pending"

LEMMA TablesMove ==
  ASSUME TypeOK, TypeOK', TablesKept, SameStatus, SameBest, SameAnswers, StillDecided,
         Untouched', CountersMatchVotes', PointsMatchDeeds'
  PROVE  TablesKept'
<1>1. DeletedPostHasNoPendingReview'
  BY NoneReopened DEF TablesKept, SameStatus, StillDecided
<1> QED BY <1>1, AnswersSame, HangSame, LimitSame DEF TablesKept

LEMMA UntouchedSame ==
  ASSUME Untouched, SameStatus, SameFlags,
         \A p \in Post : posts[p].status = "none" => posts'[p] = posts[p],
         \A u \in User, p \in Post : posts[p].status = "none" =>
           /\ <<u, p>> \in upVotes' => <<u, p>> \in upVotes
           /\ <<u, p>> \in downVotes' => <<u, p>> \in downVotes
  PROVE  Untouched'
BY Kinds DEF Untouched, Blank, SameStatus, SameFlags

LEMMA TablesStay ==
  ASSUME TypeOK, TypeOK', TablesKept, SameStatus, SameBest, SameAnswers, SameCounters, SameVotes,
         SameFlags, StillDecided, UNCHANGED points,
         \A p \in Post : posts[p].status = "none" => posts'[p] = posts[p]
  PROVE  TablesKept'
<1>1. Untouched'
  BY UntouchedSame DEF TablesKept, SameVotes
<1> QED BY <1>1, TablesMove, CountersSame, PointsSame DEF TablesKept

LEMMA TablesSame ==
  ASSUME TypeOK, TypeOK', TablesKept, UNCHANGED <<posts, upVotes, downVotes, reviews, points>>
  PROVE  TablesKept'
BY TablesStay DEF SameStatus, SameBest, SameAnswers, SameCounters, SameVotes, SameFlags, StillDecided

LEMMA PointsChange ==
  ASSUME TypeOK, TypeOK', PointsMatchDeeds, NEW award \in [User -> Int],
         points' = AddTo(points, award), \A u \in User : Deeds(u)' = Deeds(u) + award[u]
  PROVE  PointsMatchDeeds'
BY DEF PointsMatchDeeds, AddTo

LEMMA AwardIs ==
  /\ \A who, u \in User, n \in Int : Award(who, n)[u] = IF u = who THEN n ELSE 0
  /\ \A v, u \in User, p \in Post, n \in Int :
       VoteAward(v, p, n)[u] = IF u = Author[p] /\ v # u THEN n ELSE 0
  /\ \A u \in User : NoAward[u] = 0
BY DEF Award, VoteAward, NoAward

(* A vote is added, or taken back.                                         *)
VoteOn(p) ==
  /\ posts[p].status = "live" /\ \A q \in Post \ {p} : posts'[q] = posts[q]
  /\ posts'[p].status = posts[p].status /\ posts'[p].best = posts[p].best
  /\ posts'[p].answers = posts[p].answers /\ posts'[p].flags = posts[p].flags

LEMMA VoteMoves ==
  ASSUME TypeOK, TypeOK', TablesKept, UNCHANGED reviews, NEW p \in Post, VoteOn(p),
         CountersMatchVotes',
         NEW award \in [User -> Int], points' = AddTo(points, award),
         \A u \in User : VoteWorth(u)' = VoteWorth(u) + award[u],
         \A u \in User, q \in Post : q # p =>
           /\ <<u, q>> \in upVotes' => <<u, q>> \in upVotes
           /\ <<u, q>> \in downVotes' => <<u, q>> \in downVotes
  PROVE  TablesKept'
<1>1. SameStatus /\ SameBest /\ SameAnswers /\ SameFlags /\ StillDecided
  BY DEF SameStatus, SameBest, SameAnswers, SameFlags, StillDecided, VoteOn
<1>2. Untouched'
  BY <1>1, UntouchedSame DEF TablesKept, VoteOn
<1>3. ASSUME NEW u \in User PROVE Deeds(u)' = Deeds(u) + award[u]
  BY <1>1, DeedsAre, DeedsThen, LifeSame, ChoiceSame, FlagWorthSame DEF DeedsByTerms
<1>4. PointsMatchDeeds'
  BY <1>3, PointsChange DEF TablesKept
<1> QED BY <1>1, <1>2, <1>4, TablesMove

(* The votes of the next state, as they are counted.                       *)
LEMMA ThenCounted ==
  ASSUME TypeOK, TypeOK', NEW a
  PROVE  /\ VotesFor(upVotes, a)' = VotesFor(upVotes', a)
         /\ VotesFor(downVotes, a)' = VotesFor(downVotes', a)
         /\ VoteWorth(a) = 5 * Cardinality(VotesEarned(upVotes, a))
                           - 3 * Cardinality(VotesEarned(downVotes, a))
         /\ VoteWorth(a)' = 5 * Cardinality(VotesEarned(upVotes', a))
                            - 3 * Cardinality(VotesEarned(downVotes', a))
         /\ Cardinality(VotesEarned(upVotes, a)) \in Nat
         /\ Cardinality(VotesEarned(downVotes, a)) \in Nat
         /\ Cardinality(VotesFor(upVotes, a)) \in Nat
         /\ Cardinality(VotesFor(downVotes, a)) \in Nat
<1>1. /\ VotesEarned(upVotes, a)' = VotesEarned(upVotes', a)
      /\ VotesEarned(downVotes, a)' = VotesEarned(downVotes', a)
      /\ VotesFor(upVotes, a)' = VotesFor(upVotes', a)
      /\ VotesFor(downVotes, a)' = VotesFor(downVotes', a)
  BY DEF VotesEarned, VotesFor
<1>2. /\ upVotes \in SUBSET (User \X Post) /\ downVotes \in SUBSET (User \X Post)
      /\ upVotes' \in SUBSET (User \X Post) /\ downVotes' \in SUBSET (User \X Post)
  BY DEF TypeOK
<1>3. /\ Cardinality(VotesEarned(upVotes, a)) \in Nat
      /\ Cardinality(VotesEarned(downVotes, a)) \in Nat
      /\ Cardinality(VotesEarned(upVotes', a)) \in Nat
      /\ Cardinality(VotesEarned(downVotes', a)) \in Nat
      /\ Cardinality(VotesFor(upVotes, a)) \in Nat
      /\ Cardinality(VotesFor(downVotes, a)) \in Nat
  BY <1>2, EarnedFinite, VotesForFinite
<1> QED BY <1>1, <1>3 DEF VoteWorth, ForVoted, ForDownVoted

(* The counters of p follow its rows, and those of no other post move.     *)
LEMMA CountersMove ==
  ASSUME TypeOK, TypeOK', CountersMatchVotes, NEW p \in Post,
         posts'[p].up = Cardinality(VotesFor(upVotes', p)),
         posts'[p].down = Cardinality(VotesFor(downVotes', p)),
         posts'[p].points = Cardinality(VotesFor(upVotes', p)) - Cardinality(VotesFor(downVotes', p)),
         posts'[p].flags = Cardinality(FlagRows(p)'),
         \A q \in Post : q # p =>
           /\ posts'[q] = posts[q] /\ FlagRows(q)' = FlagRows(q)
           /\ Cardinality(VotesFor(upVotes', q)) = Cardinality(VotesFor(upVotes, q))
           /\ Cardinality(VotesFor(downVotes', q)) = Cardinality(VotesFor(downVotes, q))
  PROVE  CountersMatchVotes'
<1> SUFFICES ASSUME NEW q \in Post
             PROVE  /\ posts'[q].up = Cardinality(VotesFor(upVotes, q)')
                    /\ posts'[q].down = Cardinality(VotesFor(downVotes, q)')
                    /\ posts'[q].points = Cardinality(VotesFor(upVotes, q)')
                                            - Cardinality(VotesFor(downVotes, q)')
                    /\ posts'[q].flags = Cardinality(FlagRows(q)')
  BY DEF CountersMatchVotes
<1>1. VotesFor(upVotes, q)' = VotesFor(upVotes', q) /\ VotesFor(downVotes, q)' = VotesFor(downVotes', q)
  BY ThenCounted
<1>2. CASE q = p
  BY <1>1, <1>2
<1>3. CASE q # p
  <2>1. /\ posts[q].up = Cardinality(VotesFor(upVotes, q))
        /\ posts[q].down = Cardinality(VotesFor(downVotes, q))
        /\ posts[q].points = Cardinality(VotesFor(upVotes, q)) - Cardinality(VotesFor(downVotes, q))
        /\ posts[q].flags = Cardinality(FlagRows(q))
    BY DEF CountersMatchVotes
  <2> QED BY <1>1, <1>3, <2>1
<1> QED BY <1>2, <1>3

LEMMA CountersAt ==
  ASSUME TypeOK, CountersMatchVotes, NEW p \in Post
  PROVE  /\ posts[p].up = Cardinality(VotesFor(upVotes, p))
         /\ posts[p].down = Cardinality(VotesFor(downVotes, p))
         /\ posts[p].points = posts[p].up - posts[p].down
         /\ posts[p].flags = Cardinality(FlagRows(p))
         /\ posts[p].up \in Nat /\ posts[p].down \in Nat
BY RowsAre DEF CountersMatchVotes

(* A request of user u adds or takes back his vote on p: the rows for p     *)
(* change by i and j, and so do the counters.                              *)
VotesShift(p, i, j) == \A q \in Post :
  /\ Cardinality(VotesFor(upVotes', q)) = Cardinality(VotesFor(upVotes, q)) + IF q = p THEN i ELSE 0
  /\ Cardinality(VotesFor(downVotes', q)) = Cardinality(VotesFor(downVotes, q)) + IF q = p THEN j ELSE 0
EarnedShift(u, p, i, j) == \A a \in User :
  /\ Cardinality(VotesEarned(upVotes', a))
       = Cardinality(VotesEarned(upVotes, a)) + IF a = Author[p] /\ u # a THEN i ELSE 0
  /\ Cardinality(VotesEarned(downVotes', a))
       = Cardinality(VotesEarned(downVotes, a)) + IF a = Author[p] /\ u # a THEN j ELSE 0

LEMMA AVoteMoves ==
  ASSUME TypeOK, TypeOK', TablesKept, UNCHANGED reviews, NEW u \in User, NEW p \in Post, VoteOn(p),
         NEW i \in Int, NEW j \in Int, VotesShift(p, i, j), EarnedShift(u, p, i, j),
         posts'[p].up = posts[p].up + i, posts'[p].down = posts[p].down + j,
         posts'[p].points = posts[p].points + i - j,
         points' = AddTo(points, VoteAward(u, p, 5 * i - 3 * j)),
         \A v \in User, q \in Post : q # p =>
           /\ <<v, q>> \in upVotes' => <<v, q>> \in upVotes
           /\ <<v, q>> \in downVotes' => <<v, q>> \in downVotes
  PROVE  TablesKept'
<1>1. CountersMatchVotes'
  <2>1. /\ posts[p].up = Cardinality(VotesFor(upVotes, p))
        /\ posts[p].down = Cardinality(VotesFor(downVotes, p))
        /\ posts[p].points = posts[p].up - posts[p].down
        /\ posts[p].flags = Cardinality(FlagRows(p))
        /\ posts[p].up \in Nat /\ posts[p].down \in Nat
    BY CountersAt DEF TablesKept
  <2>2. \A q : FlagRows(q)' = FlagRows(q)
    BY DEF FlagRows
  <2>3. /\ Cardinality(VotesFor(upVotes', p)) = posts[p].up + i
        /\ Cardinality(VotesFor(downVotes', p)) = posts[p].down + j
    BY <2>1 DEF VotesShift
  <2>4. ASSUME NEW q \in Post, q # p
        PROVE  /\ Cardinality(VotesFor(upVotes', q)) = Cardinality(VotesFor(upVotes, q))
               /\ Cardinality(VotesFor(downVotes', q)) = Cardinality(VotesFor(downVotes, q))
    <3>1. /\ Cardinality(VotesFor(upVotes', q)) = Cardinality(VotesFor(upVotes, q)) + 0
          /\ Cardinality(VotesFor(downVotes', q)) = Cardinality(VotesFor(downVotes, q)) + 0
      BY <2>4 DEF VotesShift
    <3>2. /\ Cardinality(VotesFor(upVotes, q)) \in Nat
          /\ Cardinality(VotesFor(downVotes, q)) \in Nat
      BY ThenCounted
    <3> QED BY <3>1, <3>2
  <2>5. \A q \in Post : q # p =>
          /\ posts'[q] = posts[q] /\ FlagRows(q)' = FlagRows(q)
          /\ Cardinality(VotesFor(upVotes', q)) = Cardinality(VotesFor(upVotes, q))
          /\ Cardinality(VotesFor(downVotes', q)) = Cardinality(VotesFor(downVotes, q))
    BY <2>2, <2>4 DEF VoteOn
  <2>6. /\ posts'[p].up = Cardinality(VotesFor(upVotes', p))
        /\ posts'[p].down = Cardinality(VotesFor(downVotes', p))
    BY <2>3
  <2>7. posts'[p].points = Cardinality(VotesFor(upVotes', p)) - Cardinality(VotesFor(downVotes', p))
    BY <2>1, <2>3
  <2>8. posts'[p].flags = Cardinality(FlagRows(p)')
    BY <2>1, <2>2 DEF VoteOn
  <2> QED BY <2>5, <2>6, <2>7, <2>8, CountersMove DEF TablesKept
<1>2. \A a \in User : VoteAward(u, p, 5 * i - 3 * j)[a]
                      = IF a = Author[p] /\ u # a THEN 5 * i - 3 * j ELSE 0
  <2>1. 5 * i - 3 * j \in Int
    OBVIOUS
  <2> QED BY <2>1, AwardIs
<1>3. ASSUME NEW a \in User PROVE VoteWorth(a)' = VoteWorth(a) + VoteAward(u, p, 5 * i - 3 * j)[a]
  <2> DEFINE A == Cardinality(VotesEarned(upVotes, a))
             B == Cardinality(VotesEarned(downVotes, a))
             AA == Cardinality(VotesEarned(upVotes', a))
             BB == Cardinality(VotesEarned(downVotes', a))
  <2>1. /\ VoteWorth(a)' = 5 * AA - 3 * BB /\ VoteWorth(a) = 5 * A - 3 * B
        /\ A \in Nat /\ B \in Nat
    BY ThenCounted
  <2>2. /\ AA = A + IF a = Author[p] /\ u # a THEN i ELSE 0
        /\ BB = B + IF a = Author[p] /\ u # a THEN j ELSE 0
    BY DEF EarnedShift
  <2>3. VoteAward(u, p, 5 * i - 3 * j)[a] = IF a = Author[p] /\ u # a THEN 5 * i - 3 * j ELSE 0
    BY <1>2
  <2> HIDE DEF A, B, AA, BB
  <2> QED BY <2>1, <2>2, <2>3
<1>4. VoteAward(u, p, 5 * i - 3 * j) \in [User -> Int]
  <2>1. 5 * i - 3 * j \in Int
    OBVIOUS
  <2> QED BY <2>1, VoteAwardType
<1> QED BY <1>1, <1>3, <1>4, VoteMoves

LEMMA UpVoteMoves ==
  ASSUME TypeOK, TypeOK', TablesKept, NEW u \in User, NEW p \in Post, posts[p].status = "live",
         <<u, p>> \notin upVotes, upVotes' = upVotes \cup {<<u, p>>},
         posts' = [posts EXCEPT ![p].up = @ + 1, ![p].points = @ + 1],
         points' = AddTo(points, VoteAward(u, p, ForVoted)), UNCHANGED <<downVotes, reviews>>
  PROVE  TablesKept'
<1>1. upVotes \in SUBSET (User \X Post)
  BY DEF TypeOK
<1>2. VotesShift(p, 1, 0)
  <2> SUFFICES ASSUME NEW q \in Post
               PROVE  /\ Cardinality(VotesFor(upVotes', q))
                           = Cardinality(VotesFor(upVotes, q)) + IF q = p THEN 1 ELSE 0
                      /\ Cardinality(VotesFor(downVotes', q))
                           = Cardinality(VotesFor(downVotes, q)) + IF q = p THEN 0 ELSE 0
    BY DEF VotesShift
  <2>1. /\ Cardinality(VotesFor(upVotes, q)) \in Nat /\ Cardinality(VotesFor(downVotes, q)) \in Nat
    BY ThenCounted
  <2>2. Cardinality(VotesFor(upVotes', q))
          = Cardinality(VotesFor(upVotes, q)) + IF q = p THEN 1 ELSE 0
    BY <1>1, VoteAdded
  <2>3. Cardinality(VotesFor(downVotes', q)) = Cardinality(VotesFor(downVotes, q))
    OBVIOUS
  <2> QED BY <2>1, <2>2, <2>3
<1>3. EarnedShift(u, p, 1, 0)
  <2> SUFFICES ASSUME NEW a \in User
               PROVE  /\ Cardinality(VotesEarned(upVotes', a)) = Cardinality(VotesEarned(upVotes, a))
                                                 + IF a = Author[p] /\ u # a THEN 1 ELSE 0
                      /\ Cardinality(VotesEarned(downVotes', a)) = Cardinality(VotesEarned(downVotes, a))
                                                 + IF a = Author[p] /\ u # a THEN 0 ELSE 0
    BY DEF EarnedShift
  <2>1. /\ Cardinality(VotesEarned(upVotes, a)) \in Nat
        /\ Cardinality(VotesEarned(downVotes, a)) \in Nat
    BY ThenCounted
  <2>2. Cardinality(VotesEarned(upVotes', a)) = Cardinality(VotesEarned(upVotes, a))
          + IF a = Author[p] /\ u # a THEN 1 ELSE 0
    BY <1>1, EarnedAdded
  <2>3. Cardinality(VotesEarned(downVotes', a)) = Cardinality(VotesEarned(downVotes, a))
    OBVIOUS
  <2> QED BY <2>1, <2>2, <2>3
<1>5. /\ VoteOn(p) /\ posts'[p].up = posts[p].up + 1 /\ posts'[p].down = posts[p].down + 0
      /\ posts'[p].points = posts[p].points + 1 - 0
  BY RowsAre DEF VoteOn, Row
<1>6. VoteAward(u, p, ForVoted) = VoteAward(u, p, 5 * 1 - 3 * 0)
  BY DEF ForVoted, ForDownVoted
<1>7. points' = AddTo(points, VoteAward(u, p, 5 * 1 - 3 * 0))
  BY <1>6
<1>8. /\ UNCHANGED reviews /\ 1 \in Int /\ 0 \in Int
      /\ \A v \in User, q \in Post : q # p =>
           /\ <<v, q>> \in upVotes' => <<v, q>> \in upVotes
           /\ <<v, q>> \in downVotes' => <<v, q>> \in downVotes
  OBVIOUS
<1> QED BY <1>2, <1>3, <1>5, <1>7, <1>8, AVoteMoves

LEMMA CancelUpVoteMoves ==
  ASSUME TypeOK, TypeOK', TablesKept, NEW u \in User, NEW p \in Post, posts[p].status = "live",
         <<u, p>> \in upVotes, upVotes' = upVotes \ {<<u, p>>},
         posts' = [posts EXCEPT ![p].up = Minus1(posts[p].up), ![p].points = @ - 1],
         points' = AddTo(points, VoteAward(u, p, -ForVoted)), UNCHANGED <<downVotes, reviews>>
  PROVE  TablesKept'
<1>1. upVotes \in SUBSET (User \X Post)
  BY DEF TypeOK
<1>2. VotesShift(p, (-1), 0)
  <2> SUFFICES ASSUME NEW q \in Post
               PROVE  /\ Cardinality(VotesFor(upVotes', q))
                           = Cardinality(VotesFor(upVotes, q)) + IF q = p THEN (-1) ELSE 0
                      /\ Cardinality(VotesFor(downVotes', q))
                           = Cardinality(VotesFor(downVotes, q)) + IF q = p THEN 0 ELSE 0
    BY DEF VotesShift
  <2>1. /\ Cardinality(VotesFor(upVotes, q)) \in Nat /\ Cardinality(VotesFor(downVotes, q)) \in Nat
    BY ThenCounted
  <2>2. Cardinality(VotesFor(upVotes', q))
          = Cardinality(VotesFor(upVotes, q)) - IF q = p THEN 1 ELSE 0
    BY <1>1, VoteTaken
  <2>3. Cardinality(VotesFor(downVotes', q)) = Cardinality(VotesFor(downVotes, q))
    OBVIOUS
  <2> QED BY <2>1, <2>2, <2>3
<1>3. EarnedShift(u, p, (-1), 0)
  <2> SUFFICES ASSUME NEW a \in User
               PROVE  /\ Cardinality(VotesEarned(upVotes', a)) = Cardinality(VotesEarned(upVotes, a))
                                                 + IF a = Author[p] /\ u # a THEN (-1) ELSE 0
                      /\ Cardinality(VotesEarned(downVotes', a)) = Cardinality(VotesEarned(downVotes, a))
                                                 + IF a = Author[p] /\ u # a THEN 0 ELSE 0
    BY DEF EarnedShift
  <2>1. /\ Cardinality(VotesEarned(upVotes, a)) \in Nat
        /\ Cardinality(VotesEarned(downVotes, a)) \in Nat
    BY ThenCounted
  <2>2. Cardinality(VotesEarned(upVotes', a)) = Cardinality(VotesEarned(upVotes, a))
          - IF a = Author[p] /\ u # a THEN 1 ELSE 0
    BY <1>1, EarnedTaken
  <2>3. Cardinality(VotesEarned(downVotes', a)) = Cardinality(VotesEarned(downVotes, a))
    OBVIOUS
  <2> QED BY <2>1, <2>2, <2>3
<1>4. posts[p].up >= 1
  <2>1. /\ <<u, p>> \in VotesFor(upVotes, p) /\ IsFiniteSet(VotesFor(upVotes, p))
        /\ Cardinality(VotesFor(upVotes, p)) \in Nat
    BY <1>1, VotesForFinite DEF VotesFor
  <2>2. Cardinality(VotesFor(upVotes, p)) # 0
    BY <2>1, FS_EmptySet
  <2>3. posts[p].up = Cardinality(VotesFor(upVotes, p))
    BY CountersAt DEF TablesKept
  <2> QED BY <2>1, <2>2, <2>3
<1>5. /\ VoteOn(p) /\ posts'[p].up = posts[p].up + (-1) /\ posts'[p].down = posts[p].down + 0
      /\ posts'[p].points = posts[p].points + (-1) - 0
  BY RowsAre, <1>4 DEF VoteOn, Row, Minus1
<1>6. VoteAward(u, p, -ForVoted) = VoteAward(u, p, 5 * (-1) - 3 * 0)
  BY DEF ForVoted, ForDownVoted
<1>7. points' = AddTo(points, VoteAward(u, p, 5 * (-1) - 3 * 0))
  BY <1>6
<1>8. /\ UNCHANGED reviews /\ (-1) \in Int /\ 0 \in Int
      /\ \A v \in User, q \in Post : q # p =>
           /\ <<v, q>> \in upVotes' => <<v, q>> \in upVotes
           /\ <<v, q>> \in downVotes' => <<v, q>> \in downVotes
  OBVIOUS
<1> QED BY <1>2, <1>3, <1>5, <1>7, <1>8, AVoteMoves

LEMMA DownVoteMoves ==
  ASSUME TypeOK, TypeOK', TablesKept, NEW u \in User, NEW p \in Post, posts[p].status = "live",
         <<u, p>> \notin downVotes, downVotes' = downVotes \cup {<<u, p>>},
         posts' = [posts EXCEPT ![p].down = @ + 1, ![p].points = @ - 1],
         points' = AddTo(points, VoteAward(u, p, ForDownVoted)), UNCHANGED <<upVotes, reviews>>
  PROVE  TablesKept'
<1>1. downVotes \in SUBSET (User \X Post)
  BY DEF TypeOK
<1>2. VotesShift(p, 0, 1)
  <2> SUFFICES ASSUME NEW q \in Post
               PROVE  /\ Cardinality(VotesFor(downVotes', q))
                           = Cardinality(VotesFor(downVotes, q)) + IF q = p THEN 1 ELSE 0
                      /\ Cardinality(VotesFor(upVotes', q))
                           = Cardinality(VotesFor(upVotes, q)) + IF q = p THEN 0 ELSE 0
    BY DEF VotesShift
  <2>1. /\ Cardinality(VotesFor(downVotes, q)) \in Nat /\ Cardinality(VotesFor(upVotes, q)) \in Nat
    BY ThenCounted
  <2>2. Cardinality(VotesFor(downVotes', q))
          = Cardinality(VotesFor(downVotes, q)) + IF q = p THEN 1 ELSE 0
    BY <1>1, VoteAdded
  <2>3. Cardinality(VotesFor(upVotes', q)) = Cardinality(VotesFor(upVotes, q))
    OBVIOUS
  <2> QED BY <2>1, <2>2, <2>3
<1>3. EarnedShift(u, p, 0, 1)
  <2> SUFFICES ASSUME NEW a \in User
               PROVE  /\ Cardinality(VotesEarned(downVotes', a)) = Cardinality(VotesEarned(downVotes, a))
                                                 + IF a = Author[p] /\ u # a THEN 1 ELSE 0
                      /\ Cardinality(VotesEarned(upVotes', a)) = Cardinality(VotesEarned(upVotes, a))
                                                 + IF a = Author[p] /\ u # a THEN 0 ELSE 0
    BY DEF EarnedShift
  <2>1. /\ Cardinality(VotesEarned(downVotes, a)) \in Nat
        /\ Cardinality(VotesEarned(upVotes, a)) \in Nat
    BY ThenCounted
  <2>2. Cardinality(VotesEarned(downVotes', a)) = Cardinality(VotesEarned(downVotes, a))
          + IF a = Author[p] /\ u # a THEN 1 ELSE 0
    BY <1>1, EarnedAdded
  <2>3. Cardinality(VotesEarned(upVotes', a)) = Cardinality(VotesEarned(upVotes, a))
    OBVIOUS
  <2> QED BY <2>1, <2>2, <2>3
<1>5. /\ VoteOn(p) /\ posts'[p].up = posts[p].up + 0 /\ posts'[p].down = posts[p].down + 1
      /\ posts'[p].points = posts[p].points + 0 - 1
  BY RowsAre DEF VoteOn, Row
<1>6. VoteAward(u, p, ForDownVoted) = VoteAward(u, p, 5 * 0 - 3 * 1)
  BY DEF ForVoted, ForDownVoted
<1>7. points' = AddTo(points, VoteAward(u, p, 5 * 0 - 3 * 1))
  BY <1>6
<1>8. /\ UNCHANGED reviews /\ 0 \in Int /\ 1 \in Int
      /\ \A v \in User, q \in Post : q # p =>
           /\ <<v, q>> \in upVotes' => <<v, q>> \in upVotes
           /\ <<v, q>> \in downVotes' => <<v, q>> \in downVotes
  OBVIOUS
<1> QED BY <1>2, <1>3, <1>5, <1>7, <1>8, AVoteMoves

LEMMA CancelDownVoteMoves ==
  ASSUME TypeOK, TypeOK', TablesKept, NEW u \in User, NEW p \in Post, posts[p].status = "live",
         <<u, p>> \in downVotes, downVotes' = downVotes \ {<<u, p>>},
         posts' = [posts EXCEPT ![p].down = Minus1(posts[p].down), ![p].points = @ + 1],
         points' = AddTo(points, VoteAward(u, p, -ForDownVoted)), UNCHANGED <<upVotes, reviews>>
  PROVE  TablesKept'
<1>1. downVotes \in SUBSET (User \X Post)
  BY DEF TypeOK
<1>2. VotesShift(p, 0, (-1))
  <2> SUFFICES ASSUME NEW q \in Post
               PROVE  /\ Cardinality(VotesFor(downVotes', q))
                           = Cardinality(VotesFor(downVotes, q)) + IF q = p THEN (-1) ELSE 0
                      /\ Cardinality(VotesFor(upVotes', q))
                           = Cardinality(VotesFor(upVotes, q)) + IF q = p THEN 0 ELSE 0
    BY DEF VotesShift
  <2>1. /\ Cardinality(VotesFor(downVotes, q)) \in Nat /\ Cardinality(VotesFor(upVotes, q)) \in Nat
    BY ThenCounted
  <2>2. Cardinality(VotesFor(downVotes', q))
          = Cardinality(VotesFor(downVotes, q)) - IF q = p THEN 1 ELSE 0
    BY <1>1, VoteTaken
  <2>3. Cardinality(VotesFor(upVotes', q)) = Cardinality(VotesFor(upVotes, q))
    OBVIOUS
  <2> QED BY <2>1, <2>2, <2>3
<1>3. EarnedShift(u, p, 0, (-1))
  <2> SUFFICES ASSUME NEW a \in User
               PROVE  /\ Cardinality(VotesEarned(downVotes', a)) = Cardinality(VotesEarned(downVotes, a))
                                                 + IF a = Author[p] /\ u # a THEN (-1) ELSE 0
                      /\ Cardinality(VotesEarned(upVotes', a)) = Cardinality(VotesEarned(upVotes, a))
                                                 + IF a = Author[p] /\ u # a THEN 0 ELSE 0
    BY DEF EarnedShift
  <2>1. /\ Cardinality(VotesEarned(downVotes, a)) \in Nat
        /\ Cardinality(VotesEarned(upVotes, a)) \in Nat
    BY ThenCounted
  <2>2. Cardinality(VotesEarned(downVotes', a)) = Cardinality(VotesEarned(downVotes, a))
          - IF a = Author[p] /\ u # a THEN 1 ELSE 0
    BY <1>1, EarnedTaken
  <2>3. Cardinality(VotesEarned(upVotes', a)) = Cardinality(VotesEarned(upVotes, a))
    OBVIOUS
  <2> QED BY <2>1, <2>2, <2>3
<1>4. posts[p].down >= 1
  <2>1. /\ <<u, p>> \in VotesFor(downVotes, p) /\ IsFiniteSet(VotesFor(downVotes, p))
        /\ Cardinality(VotesFor(downVotes, p)) \in Nat
    BY <1>1, VotesForFinite DEF VotesFor
  <2>2. Cardinality(VotesFor(downVotes, p)) # 0
    BY <2>1, FS_EmptySet
  <2>3. posts[p].down = Cardinality(VotesFor(downVotes, p))
    BY CountersAt DEF TablesKept
  <2> QED BY <2>1, <2>2, <2>3
<1>5. /\ VoteOn(p) /\ posts'[p].up = posts[p].up + 0 /\ posts'[p].down = posts[p].down + (-1)
      /\ posts'[p].points = posts[p].points + 0 - (-1)
  BY RowsAre, <1>4 DEF VoteOn, Row, Minus1
<1>6. VoteAward(u, p, -ForDownVoted) = VoteAward(u, p, 5 * 0 - 3 * (-1))
  BY DEF ForVoted, ForDownVoted
<1>7. points' = AddTo(points, VoteAward(u, p, 5 * 0 - 3 * (-1)))
  BY <1>6
<1>8. /\ UNCHANGED reviews /\ 0 \in Int /\ (-1) \in Int
      /\ \A v \in User, q \in Post : q # p =>
           /\ <<v, q>> \in upVotes' => <<v, q>> \in upVotes
           /\ <<v, q>> \in downVotes' => <<v, q>> \in downVotes
  OBVIOUS
<1> QED BY <1>2, <1>3, <1>5, <1>7, <1>8, AVoteMoves

(* A flag is set, or withdrawn: the rows about p change by i.              *)
FlagShift(u, p, i) ==
  /\ \A v \in User, q \in Post : <<v, q>> # <<u, p>> =>
       reviews'[Flag(v, q)] = reviews[Flag(v, q)]
  /\ \/ i = 1 /\ reviews[Flag(u, p)] = "none" /\ reviews'[Flag(u, p)] # "none"
     \/ i = -1 /\ reviews[Flag(u, p)] # "none" /\ reviews'[Flag(u, p)] = "none"

LEMMA FlagRowsShift ==
  ASSUME NEW u \in User, NEW p \in Post, NEW i, FlagShift(u, p, i), NEW q \in Post
  PROVE  Cardinality(FlagRows(q)') = Cardinality(FlagRows(q)) + IF q = p THEN i ELSE 0
<1>1. /\ FlagRows(q) \in SUBSET User /\ FlagRows(q)' \in SUBSET User
  BY DEF FlagRows
<1>2. /\ IsFiniteSet(FlagRows(q)) /\ IsFiniteSet(FlagRows(q)')
      /\ Cardinality(FlagRows(q)) \in Nat /\ Cardinality(FlagRows(q)') \in Nat
  BY <1>1, Finite
<1>3. CASE q # p
  <2>1. FlagRows(q)' = FlagRows(q)
    BY <1>3 DEF FlagShift, FlagRows
  <2> QED BY <1>2, <1>3, <2>1
<1>4. CASE q = p /\ i = 1
  <2>1. FlagRows(q)' = FlagRows(q) \cup {u} /\ u \notin FlagRows(q)
    BY <1>4 DEF FlagShift, FlagRows
  <2> QED BY <1>2, <1>4, <2>1, OneMore
<1>5. CASE q = p /\ i = -1
  <2>1. FlagRows(q)' = FlagRows(q) \ {u} /\ u \in FlagRows(q)
    BY <1>5 DEF FlagShift, FlagRows
  <2>2. Cardinality(FlagRows(q)') = Cardinality(FlagRows(q)) - 1
    BY <1>2, <2>1, OneLess
  <2> QED BY <1>2, <1>5, <2>2
<1> QED BY <1>3, <1>4, <1>5 DEF FlagShift

LEMMA FlagsReceivedShift ==
  ASSUME NEW u \in User, NEW p \in Post, NEW i, FlagShift(u, p, i), NEW a
  PROVE  Cardinality(FlagsReceived(a)')
           = Cardinality(FlagsReceived(a)) + IF a = Author[p] THEN i ELSE 0
<1>1. /\ FlagsReceived(a) \in SUBSET (User \X Post) /\ FlagsReceived(a)' \in SUBSET (User \X Post)
  BY DEF FlagsReceived
<1>2. /\ IsFiniteSet(FlagsReceived(a)) /\ IsFiniteSet(FlagsReceived(a)')
      /\ Cardinality(FlagsReceived(a)) \in Nat /\ Cardinality(FlagsReceived(a)') \in Nat
  BY <1>1, Finite
<1>0. \A f \in User \X Post : f[1] \in User /\ f[2] \in Post /\ f = <<f[1], f[2]>>
  OBVIOUS
<1>3. CASE a # Author[p]
  <2>1. FlagsReceived(a)' = FlagsReceived(a)
    BY <1>0, <1>3 DEF FlagShift, FlagsReceived
  <2> QED BY <1>2, <1>3, <2>1
<1>4. CASE a = Author[p] /\ i = 1
  <2>1. FlagsReceived(a)' = FlagsReceived(a) \cup {<<u, p>>} /\ <<u, p>> \notin FlagsReceived(a)
    BY <1>0, <1>4 DEF FlagShift, FlagsReceived
  <2> QED BY <1>2, <1>4, <2>1, OneMore
<1>5. CASE a = Author[p] /\ i = -1
  <2>1. FlagsReceived(a)' = FlagsReceived(a) \ {<<u, p>>} /\ <<u, p>> \in FlagsReceived(a)
    BY <1>0, <1>5 DEF FlagShift, FlagsReceived
  <2>2. Cardinality(FlagsReceived(a)') = Cardinality(FlagsReceived(a)) - 1
    BY <1>2, <2>1, OneLess
  <2> QED BY <1>2, <1>5, <2>2
<1> QED BY <1>3, <1>4, <1>5 DEF FlagShift

LEMMA AFlagMoves ==
  ASSUME TypeOK, TypeOK', TablesKept, NEW u \in User, NEW p \in Post, posts[p].status = "live",
         NEW i \in Int, FlagShift(u, p, i), StillDecided,
         posts' = [posts EXCEPT ![p].flags = @ + i],
         points' = AddTo(points, Award(Author[p], -(2 * i))), UNCHANGED <<upVotes, downVotes>>
  PROVE  TablesKept'
<1>1. SameStatus /\ SameBest /\ SameAnswers
  BY RowsAre DEF SameStatus, SameBest, SameAnswers, Row
<1>2. \A q \in Post : q # p => posts'[q] = posts[q]
  BY RowsAre
<1>3. Untouched'
  <2>1. ASSUME NEW q \in Post, posts'[q].status = "none" PROVE Blank(q)'
    <3>1. posts[q].status = "none" /\ q # p
      BY <1>1, <2>1 DEF SameStatus
    <3>2. Blank(q)
      BY <3>1 DEF TablesKept, Untouched
    <3>3. \A v \in User : reviews'[Flag(v, q)] = reviews[Flag(v, q)]
      BY <3>1 DEF FlagShift
    <3> QED BY <1>2, <3>1, <3>2, <3>3 DEF Blank
  <2>2. ASSUME NEW c \in Answer \cup Comment, posts'[c].status # "none"
        PROVE  posts'[Parent[c]].status # "none"
    BY <1>1, <2>2, Kinds DEF TablesKept, Untouched, SameStatus
  <2> QED BY <2>1, <2>2 DEF Untouched
<1>4. CountersMatchVotes'
  <2>1. /\ posts[p].up = Cardinality(VotesFor(upVotes, p))
        /\ posts[p].down = Cardinality(VotesFor(downVotes, p))
        /\ posts[p].points = posts[p].up - posts[p].down
        /\ posts[p].flags = Cardinality(FlagRows(p))
    BY CountersAt DEF TablesKept
  <2>2. posts[p].flags \in Int
    BY RowsAre
  <2>3. /\ posts'[p].up = posts[p].up /\ posts'[p].down = posts[p].down
        /\ posts'[p].points = posts[p].points /\ posts'[p].flags = posts[p].flags + i
    BY RowsAre DEF Row
  <2>4. Cardinality(FlagRows(p)') = Cardinality(FlagRows(p)) + i
    BY FlagRowsShift
  <2>5. posts'[p].flags = Cardinality(FlagRows(p)')
    BY <2>1, <2>3, <2>4
  <2>6. ASSUME NEW q \in Post, q # p PROVE FlagRows(q)' = FlagRows(q)
    BY <2>6 DEF FlagShift, FlagRows
  <2>7. \A q \in Post : q # p =>
          /\ posts'[q] = posts[q] /\ FlagRows(q)' = FlagRows(q)
          /\ Cardinality(VotesFor(upVotes', q)) = Cardinality(VotesFor(upVotes, q))
          /\ Cardinality(VotesFor(downVotes', q)) = Cardinality(VotesFor(downVotes, q))
    BY <1>2, <2>6
  <2>8. /\ posts'[p].up = Cardinality(VotesFor(upVotes', p))
        /\ posts'[p].down = Cardinality(VotesFor(downVotes', p))
        /\ posts'[p].points = Cardinality(VotesFor(upVotes', p)) - Cardinality(VotesFor(downVotes', p))
    BY <2>1, <2>3
  <2> QED BY <2>5, <2>7, <2>8, CountersMove DEF TablesKept
<1>5. -(2 * i) \in Int
  OBVIOUS
<1>6. ASSUME NEW a \in User PROVE Deeds(a)' = Deeds(a) + Award(Author[p], -(2 * i))[a]
  <2>1. Award(Author[p], -(2 * i))[a] = IF a = Author[p] THEN -(2 * i) ELSE 0
    BY <1>5, AwardIs, AuthorType
  <2>2. FlagWorth(a)' = FlagWorth(a) + IF a = Author[p] THEN -(2 * i) ELSE 0
    <3>1. Cardinality(FlagsReceived(a)')
            = Cardinality(FlagsReceived(a)) + IF a = Author[p] THEN i ELSE 0
      BY FlagsReceivedShift
    <3>2. Cardinality(FlagsReceived(a)) \in Nat
      BY TermsAre, Finite
    <3>3. /\ FlagWorth(a) = (-2) * Cardinality(FlagsReceived(a))
          /\ FlagWorth(a)' = (-2) * Cardinality(FlagsReceived(a)')
      BY DEF FlagWorth, ForFlagged
    <3>4. CASE a = Author[p]
      BY <3>1, <3>2, <3>3, <3>4
    <3>5. CASE a # Author[p]
      BY <3>1, <3>2, <3>3, <3>5
    <3> QED BY <3>4, <3>5
  <2>3. /\ LifeWorth(a)' = LifeWorth(a) /\ ChoiceWorth(a)' = ChoiceWorth(a)
        /\ VoteWorth(a)' = VoteWorth(a)
    BY <1>1, LifeSame, ChoiceSame, VotesSame DEF SameVotes
  <2>4. /\ Deeds(a) = LifeWorth(a) + ChoiceWorth(a) + VoteWorth(a) + FlagWorth(a)
        /\ Deeds(a)' = LifeWorth(a)' + ChoiceWorth(a)' + VoteWorth(a)' + FlagWorth(a)'
        /\ LifeWorth(a) \in Int /\ ChoiceWorth(a) \in Int
        /\ VoteWorth(a) \in Int /\ FlagWorth(a) \in Int
    BY DeedsAre, DeedsThen DEF DeedsByTerms
  <2> QED BY <1>5, <2>1, <2>2, <2>3, <2>4
<1>7. PointsMatchDeeds'
  BY <1>5, <1>6, PointsChange, AwardType DEF TablesKept
<1> QED BY <1>1, <1>3, <1>4, <1>7, TablesMove

LEMMA FlagMoves ==
  ASSUME TypeOK, TypeOK', TablesKept, NEW u \in User, NEW p \in Post, posts[p].status = "live",
         reviews[Flag(u, p)] = "none", reviews' = [reviews EXCEPT ![Flag(u, p)] = "pending"],
         posts' = [posts EXCEPT ![p].flags = @ + 1],
         points' = AddTo(points, Award(Author[p], ForFlagged)), UNCHANGED <<upVotes, downVotes>>
  PROVE  TablesKept'
<1>1. FlagShift(u, p, 1)
  BY FlagsDiffer DEF FlagShift, TypeOK
<1>2. StillDecided
  BY FlagsDiffer DEF StillDecided, ReviewsOf, TypeOK
<1>3. points' = AddTo(points, Award(Author[p], -(2 * 1)))
  BY DEF ForFlagged
<1>4. 1 \in Int
  OBVIOUS
<1> QED BY <1>1, <1>2, <1>3, <1>4, AFlagMoves

LEMMA CancelFlagMoves ==
  ASSUME TypeOK, TypeOK', TablesKept, NEW u \in User, NEW p \in Post, posts[p].status = "live",
         reviews[Flag(u, p)] # "none", reviews' = [reviews EXCEPT ![Flag(u, p)] = "none"],
         posts' = [posts EXCEPT ![p].flags = @ - 1],
         points' = AddTo(points, Award(Author[p], -ForFlagged)), UNCHANGED <<upVotes, downVotes>>
  PROVE  TablesKept'
<1>1. FlagShift(u, p, -1)
  BY FlagsDiffer DEF FlagShift, TypeOK
<1>2. StillDecided
  BY FlagsDiffer DEF StillDecided, ReviewsOf, TypeOK
<1>3. points' = AddTo(points, Award(Author[p], -(2 * (-1))))
  BY DEF ForFlagged
<1>4. -1 \in Int
  OBVIOUS
<1>5. posts' = [posts EXCEPT ![p].flags = @ + (-1)]
  <2>1. posts[p].flags - 1 = posts[p].flags + (-1)
    BY RowsAre
  <2> QED BY <2>1, RowsAre
<1> QED BY <1>1, <1>2, <1>3, <1>4, <1>5, AFlagMoves

----------------------------------------------------------------------------
(* A post appears, or is deleted.                                          *)
OthersKept(p, i) == \A q \in Post \ {p} :
  /\ posts'[q].status = posts[q].status /\ posts'[q].best = posts[q].best
  /\ posts'[q].up = posts[q].up /\ posts'[q].down = posts[q].down
  /\ posts'[q].points = posts[q].points /\ posts'[q].flags = posts[q].flags
  /\ posts'[q].answers = posts[q].answers + IF p \in Answer /\ q = Parent[p] THEN i ELSE 0
  /\ posts[q].status = "none" => posts'[q] = posts[q]
Appears(p) ==
  /\ posts[p].status = "none" /\ posts'[p] = [BlankRow EXCEPT !.status = "live"]
  /\ OthersKept(p, 1) /\ UNCHANGED reviews
Disappears(p) ==
  /\ posts[p].status = "live" /\ posts'[p].status = "deleted"
  /\ posts'[p].best = posts[p].best /\ posts'[p].answers = posts[p].answers
  /\ posts'[p].up = posts[p].up /\ posts'[p].down = posts[p].down
  /\ posts'[p].points = posts[p].points /\ posts'[p].flags = posts[p].flags
  /\ OthersKept(p, -1) /\ invalidateReviewsForPost(p)

LEMMA LiveRises ==
  ASSUME NEW p \in Post, Appears(p), NEW S \in SUBSET Post
  PROVE  Live(S)' = IF p \in S THEN Live(S) \cup {p} ELSE Live(S)
<1>1. posts[p].status = "none" /\ posts'[p].status = "live"
  BY DEF Appears, BlankRow
<1>2. \A q \in Post : q # p => posts'[q].status = posts[q].status
  BY DEF Appears, OthersKept
<1> QED BY <1>1, <1>2 DEF Live

LEMMA LiveFalls ==
  ASSUME NEW p \in Post, Disappears(p), NEW S \in SUBSET Post
  PROVE  Live(S)' = Live(S) \ {p}
BY DEF Live, Disappears, OthersKept

LEMMA AppearsSame ==
  ASSUME TypeOK, TablesKept, NEW p \in Post, Appears(p)
  PROVE  SameBest /\ SameCounters /\ SameFlags
<1>1. posts[p] = BlankRow
  BY DEF Appears, TablesKept, Untouched, Blank
<1>2. /\ posts'[p].best = BlankRow.best /\ posts'[p].up = BlankRow.up
      /\ posts'[p].down = BlankRow.down /\ posts'[p].points = BlankRow.points
      /\ posts'[p].flags = BlankRow.flags
  BY DEF Appears, BlankRow
<1>3. \A q \in Post : q # p =>
        /\ posts'[q].best = posts[q].best /\ posts'[q].up = posts[q].up
        /\ posts'[q].down = posts[q].down /\ posts'[q].points = posts[q].points
        /\ posts'[q].flags = posts[q].flags
  BY DEF Appears, OthersKept
<1>4. SameFlags
  BY DEF SameFlags, Appears
<1> QED BY <1>1, <1>2, <1>3, <1>4 DEF SameBest, SameCounters

LEMMA InvalidateKeepsFlags ==
  ASSUME TypeOK, NEW p, invalidateReviewsForPost(p)
  PROVE  /\ SameFlags /\ StillDecided
         /\ \A k \in ReviewsOf(p) : reviews'[k] # "pending"
         /\ \A k \in ReviewKey : reviews'[k] = "pending" => reviews[k] = "pending"
<1>1. \A k \in ReviewKey :
        reviews'[k] = IF k \in ReviewsOf(p) /\ reviews[k] = "pending" THEN "invalid" ELSE reviews[k]
  BY DEF invalidateReviewsForPost, InvalidateReviews
<1>2. \A k \in ReviewKey : reviews'[k] = "none" <=> reviews[k] = "none"
  BY <1>1
<1>3. \A q : ReviewsOf(q) \subseteq ReviewKey
  BY DEF ReviewsOf
<1> QED BY <1>1, <1>2, <1>3, FlagsDiffer DEF SameFlags, StillDecided

LEMMA DisappearsSame ==
  ASSUME TypeOK, NEW p \in Post, Disappears(p)
  PROVE  SameBest /\ SameCounters /\ SameFlags
BY InvalidateKeepsFlags DEF Disappears, OthersKept, SameBest, SameCounters

(* The answers of a question.                                              *)
LEMMA UnderIs ==
  ASSUME TypeOK, NEW S \in SUBSET Post, NEW q
  PROVE  IsFiniteSet(Under(S, q)) /\ Cardinality(Under(S, q)) \in Nat
<1>1. Under(S, q) \in SUBSET Post
  BY LiveIs DEF Under
<1> QED BY <1>1, Finite

LEMMA UnderRises ==
  ASSUME TypeOK, NEW p \in Post, Appears(p), NEW S \in SUBSET Post, NEW q
  PROVE  Cardinality(Under(S, q)')
           = Cardinality(Under(S, q)) + IF p \in S /\ q = Parent[p] THEN 1 ELSE 0
<1>1. Live(S)' = IF p \in S THEN Live(S) \cup {p} ELSE Live(S)
  BY LiveRises
<1>2. p \notin Live(S)
  BY DEF Live, Appears
<1>3. CASE p \in S /\ q = Parent[p]
  <2>1. Under(S, q)' = Under(S, q) \cup {p} /\ p \notin Under(S, q)
    BY <1>1, <1>2, <1>3 DEF Under
  <2> QED BY <1>3, <2>1, OneMore, UnderIs
<1>4. CASE ~(p \in S /\ q = Parent[p])
  <2>1. Under(S, q)' = Under(S, q)
    BY <1>1, <1>4 DEF Under
  <2> QED BY <1>4, <2>1, UnderIs
<1> QED BY <1>3, <1>4

LEMMA UnderFalls ==
  ASSUME TypeOK, NEW p \in Post, Disappears(p), NEW S \in SUBSET Post, NEW q
  PROVE  Cardinality(Under(S, q)')
           = Cardinality(Under(S, q)) - IF p \in S /\ q = Parent[p] THEN 1 ELSE 0
<1>1. Live(S)' = Live(S) \ {p}
  BY LiveFalls
<1>2. p \in S => p \in Live(S)
  BY DEF Live, Disappears
<1>3. CASE p \in S /\ q = Parent[p]
  <2>1. Under(S, q)' = Under(S, q) \ {p} /\ p \in Under(S, q)
    BY <1>1, <1>2, <1>3 DEF Under
  <2> QED BY <1>3, <2>1, OneLess, UnderIs
<1>4. CASE ~(p \in S /\ q = Parent[p])
  <2>1. Under(S, q)' = Under(S, q)
    BY <1>1, <1>2, <1>4, LiveIs DEF Under
  <2> QED BY <1>4, <2>1, UnderIs
<1> QED BY <1>3, <1>4

LEMMA UnderSays ==
  /\ AnswersCounted <=> \A q \in Question : posts[q].answers = Cardinality(Under(Answer, q))
  /\ CommentLimitKept <=> \A q \in Question \cup Answer :
                            Cardinality(Under(Comment, q)) <= CommentLimit
  /\ AnswersCounted' <=> \A q \in Question : posts'[q].answers = Cardinality(Under(Answer, q)')
  /\ CommentLimitKept' <=> \A q \in Question \cup Answer :
                             Cardinality(Under(Comment, q)') <= CommentLimit
BY DEF AnswersCounted, CommentLimitKept, Under

LEMMA AnswersRise ==
  ASSUME TypeOK, TablesKept, NEW p \in Post, Appears(p)
  PROVE  AnswersCounted'
<1> SUFFICES ASSUME NEW q \in Question
             PROVE  posts'[q].answers = Cardinality(Under(Answer, q)')
  BY UnderSays
<1>1. Cardinality(Under(Answer, q)')
        = Cardinality(Under(Answer, q)) + IF p \in Answer /\ q = Parent[p] THEN 1 ELSE 0
  BY UnderRises, Kinds
<1>2. posts[q].answers = Cardinality(Under(Answer, q)) /\ posts[q].answers \in Int
  BY UnderSays, Kinds, RowsAre DEF TablesKept
<1>3. CASE q = p
  <2>1. posts[p] = BlankRow /\ posts'[p].answers = BlankRow.answers /\ p \notin Answer
    BY <1>3, Kinds DEF Appears, TablesKept, Untouched, Blank, BlankRow
  <2> QED BY <1>1, <1>2, <1>3, <2>1
<1>4. CASE q # p
  <2>1. posts'[q].answers = posts[q].answers + IF p \in Answer /\ q = Parent[p] THEN 1 ELSE 0
    BY <1>4, Kinds DEF Appears, OthersKept
  <2> QED BY <1>1, <1>2, <2>1
<1> QED BY <1>3, <1>4

LEMMA AnswersFall ==
  ASSUME TypeOK, TablesKept, NEW p \in Post, Disappears(p)
  PROVE  AnswersCounted'
<1> SUFFICES ASSUME NEW q \in Question
             PROVE  posts'[q].answers = Cardinality(Under(Answer, q)')
  BY UnderSays
<1>1. Cardinality(Under(Answer, q)')
        = Cardinality(Under(Answer, q)) - IF p \in Answer /\ q = Parent[p] THEN 1 ELSE 0
  BY UnderFalls, Kinds
<1>2. posts[q].answers = Cardinality(Under(Answer, q)) /\ posts[q].answers \in Int
  BY UnderSays, Kinds, RowsAre DEF TablesKept
<1>3. CASE q = p
  <2>1. posts'[p].answers = posts[p].answers /\ p \notin Answer
    BY <1>3, Kinds DEF Disappears
  <2> QED BY <1>1, <1>2, <1>3, <2>1
<1>4. CASE q # p
  <2>1. posts'[q].answers = posts[q].answers + IF p \in Answer /\ q = Parent[p] THEN -1 ELSE 0
    BY <1>4, Kinds DEF Disappears, OthersKept
  <2> QED BY <1>1, <1>2, <2>1
<1> QED BY <1>3, <1>4

(* What a creation is worth, and a deletion takes back.                    *)
CreationWorth(p, u) == IF p \notin Comment /\ ~(p \in Answer /\ SelfAnswer(p)) /\ u = Author[p] THEN 3 ELSE 0
DeletionWorth(p, u) == IF p \notin Comment /\ u = Author[p] THEN 3 ELSE 0

(* A set of posts that is counted gains or loses p, or stays.              *)
LEMMA CountGain ==
  ASSUME NEW S \in SUBSET Post, NEW T, NEW p, T = S \/ (T = S \cup {p} /\ p \notin S)
  PROVE  /\ Cardinality(S) \in Nat
         /\ Cardinality(T) = Cardinality(S) + IF p \in T /\ p \notin S THEN 1 ELSE 0
<1>1. IsFiniteSet(S) /\ Cardinality(S) \in Nat
  BY Finite
<1>2. CASE T = S
  BY <1>1, <1>2
<1>3. CASE T = S \cup {p} /\ p \notin S
  BY <1>1, <1>3, OneMore
<1> QED BY <1>1, <1>2, <1>3

LEMMA CountLoss ==
  ASSUME NEW S \in SUBSET Post, NEW T, NEW p, T = S \ {p}
  PROVE  /\ Cardinality(S) \in Nat
         /\ Cardinality(T) = Cardinality(S) - IF p \in S THEN 1 ELSE 0
<1>1. IsFiniteSet(S) /\ Cardinality(S) \in Nat
  BY Finite
<1>2. CASE p \in S
  BY <1>1, <1>2, OneLess
<1>3. CASE p \notin S
  <2>1. S \ {p} = S
    BY <1>3
  <2>2. Cardinality(T) = Cardinality(S)
    BY <2>1
  <2> QED BY <1>1, <1>3, <2>2
<1> QED BY <1>2, <1>3

LEMMA LifeRises ==
  ASSUME TypeOK, NEW p \in Post, Appears(p), NEW u \in User
  PROVE  LifeWorth(u)' = LifeWorth(u) + CreationWorth(p, u)
<1> DEFINE Q == By(u, Live(Question))
           A == By(u, Live(Answer \ SelfAnswers))
           D == {a \in By(u, SelfAnswers) : posts[a].status = "deleted"}
<1>1. /\ Q \in SUBSET Post /\ A \in SUBSET Post /\ D \in SUBSET Post
      /\ p \notin Q /\ p \notin A
  BY TermsAre DEF Appears, By, Live
<1>2. Live(Question)' = IF p \in Question THEN Live(Question) \cup {p} ELSE Live(Question)
  BY LiveRises, Kinds
<1>3. Live(Answer \ SelfAnswers)' = IF p \in Answer \ SelfAnswers
                                    THEN Live(Answer \ SelfAnswers) \cup {p}
                                    ELSE Live(Answer \ SelfAnswers)
  BY LiveRises, Kinds DEF SelfAnswers
<1>4. D' = D
  <2>1. \A q \in Post : posts'[q].status = "deleted" <=> posts[q].status = "deleted"
    BY DEF Appears, OthersKept, BlankRow
  <2> QED BY <2>1, Kinds DEF By, SelfAnswers
<1>5. Q' = IF p \in Question /\ u = Author[p] THEN Q \cup {p} ELSE Q
  BY <1>2 DEF By
<1>6. A' = IF p \in Answer \ SelfAnswers /\ u = Author[p] THEN A \cup {p} ELSE A
  BY <1>3 DEF By
<1>7. /\ Cardinality(Q) \in Nat
      /\ Cardinality(Q') = Cardinality(Q) + IF p \in Question /\ u = Author[p] THEN 1 ELSE 0
  <2>1. Q' = Q \/ (Q' = Q \cup {p} /\ p \notin Q)
    BY <1>1, <1>5
  <2>2. p \in Q' /\ p \notin Q <=> p \in Question /\ u = Author[p]
    BY <1>1, <1>5
  <2> HIDE DEF Q
  <2> QED BY <1>1, <2>1, <2>2, CountGain
<1>8. /\ Cardinality(A) \in Nat
      /\ Cardinality(A') = Cardinality(A) + IF p \in Answer \ SelfAnswers /\ u = Author[p] THEN 1 ELSE 0
  <2>1. A' = A \/ (A' = A \cup {p} /\ p \notin A)
    BY <1>1, <1>6
  <2>2. p \in A' /\ p \notin A <=> p \in Answer \ SelfAnswers /\ u = Author[p]
    BY <1>1, <1>6
  <2> HIDE DEF A
  <2> QED BY <1>1, <2>1, <2>2, CountGain
<1>9. Cardinality(D') = Cardinality(D) /\ Cardinality(D) \in Nat
  BY <1>1, <1>4, Finite
<1>10. /\ LifeWorth(u) = 3 * Cardinality(Q) + 3 * Cardinality(A) - 3 * Cardinality(D)
       /\ LifeWorth(u)' = 3 * Cardinality(Q') + 3 * Cardinality(A') - 3 * Cardinality(D')
  BY DEF LifeWorth, ForCreateQuestion, ForCreateAnswer
<1>11. CreationWorth(p, u) = (IF p \in Question /\ u = Author[p] THEN 3 ELSE 0)
                             + (IF p \in Answer \ SelfAnswers /\ u = Author[p] THEN 3 ELSE 0)
  BY Kinds DEF CreationWorth, SelfAnswers, Post
<1> HIDE DEF Q, A, D
<1> QED BY <1>7, <1>8, <1>9, <1>10, <1>11

LEMMA LifeFalls ==
  ASSUME TypeOK, NEW p \in Post, Disappears(p), NEW u \in User
  PROVE  LifeWorth(u)' = LifeWorth(u) - DeletionWorth(p, u)
<1> DEFINE Q == By(u, Live(Question))
           A == By(u, Live(Answer \ SelfAnswers))
           D == {a \in By(u, SelfAnswers) : posts[a].status = "deleted"}
<1>1. /\ Q \in SUBSET Post /\ A \in SUBSET Post /\ D \in SUBSET Post
  BY TermsAre
<1>2. Live(Question)' = Live(Question) \ {p} /\ Live(Answer \ SelfAnswers)' = Live(Answer \ SelfAnswers) \ {p}
  BY LiveFalls, Kinds DEF SelfAnswers
<1>3. Q' = Q \ {p} /\ A' = A \ {p}
  BY <1>2 DEF By
<1>4. /\ p \in Q <=> p \in Question /\ u = Author[p]
      /\ p \in A <=> p \in Answer \ SelfAnswers /\ u = Author[p]
  BY DEF Disappears, By, Live
<1>5. /\ Cardinality(Q) \in Nat
      /\ Cardinality(Q') = Cardinality(Q) - IF p \in Question /\ u = Author[p] THEN 1 ELSE 0
  <2>1. Q \in SUBSET Post /\ Q' = Q \ {p}
    BY <1>1, <1>3
  <2>2. p \in Q <=> p \in Question /\ u = Author[p]
    BY <1>4
  <2> HIDE DEF Q, A, D
  <2>3. /\ Cardinality(Q) \in Nat
        /\ Cardinality(Q') = Cardinality(Q) - IF p \in Q THEN 1 ELSE 0
    BY <2>1, CountLoss
  <2> QED BY <2>2, <2>3
<1>6. /\ Cardinality(A) \in Nat
      /\ Cardinality(A') = Cardinality(A) - IF p \in Answer \ SelfAnswers /\ u = Author[p] THEN 1 ELSE 0
  <2>1. A \in SUBSET Post /\ A' = A \ {p}
    BY <1>1, <1>3
  <2>2. p \in A <=> p \in Answer \ SelfAnswers /\ u = Author[p]
    BY <1>4
  <2> HIDE DEF Q, A, D
  <2>3. /\ Cardinality(A) \in Nat
        /\ Cardinality(A') = Cardinality(A) - IF p \in A THEN 1 ELSE 0
    BY <2>1, CountLoss
  <2> QED BY <2>2, <2>3
<1>7. /\ Cardinality(D) \in Nat
      /\ Cardinality(D') = Cardinality(D) + IF p \in SelfAnswers /\ u = Author[p] THEN 1 ELSE 0
  <2>1. D' = IF p \in SelfAnswers /\ u = Author[p] THEN D \cup {p} ELSE D
    <3>1. \A q \in Post : q # p => posts'[q].status = posts[q].status
      BY DEF Disappears, OthersKept
    <3>2. posts'[p].status = "deleted"
      BY DEF Disappears
    <3>3. \A q \in By(u, SelfAnswers) : q \in Post
      BY Kinds DEF By, SelfAnswers
    <3>4. p \in By(u, SelfAnswers) <=> p \in SelfAnswers /\ u = Author[p]
      BY DEF By
    <3>5. D' = {a \in By(u, SelfAnswers) : posts'[a].status = "deleted"}
      BY DEF By, SelfAnswers
    <3> QED BY <3>1, <3>2, <3>3, <3>4, <3>5
  <2>2. p \notin D
    BY DEF Disappears
  <2>3. D' = D \/ (D' = D \cup {p} /\ p \notin D)
    BY <2>1, <2>2
  <2>4. p \in D' /\ p \notin D <=> p \in SelfAnswers /\ u = Author[p]
    BY <2>1, <2>2
  <2> HIDE DEF Q, A, D
  <2> QED BY <1>1, <2>3, <2>4, CountGain
<1>10. /\ LifeWorth(u) = 3 * Cardinality(Q) + 3 * Cardinality(A) - 3 * Cardinality(D)
       /\ LifeWorth(u)' = 3 * Cardinality(Q') + 3 * Cardinality(A') - 3 * Cardinality(D')
  BY DEF LifeWorth, ForCreateQuestion, ForCreateAnswer
<1>11. DeletionWorth(p, u) = (IF p \in Question /\ u = Author[p] THEN 3 ELSE 0)
                             + (IF p \in Answer \ SelfAnswers /\ u = Author[p] THEN 3 ELSE 0)
                             + (IF p \in SelfAnswers /\ u = Author[p] THEN 3 ELSE 0)
  BY Kinds DEF DeletionWorth, SelfAnswers, Post
<1> HIDE DEF Q, A, D
<1> QED BY <1>5, <1>6, <1>7, <1>10, <1>11

(* A creation keeps the tables together.                                   *)
CreationAward(p) ==
  IF p \in Question THEN Award(Author[p], ForCreateQuestion)
  ELSE IF p \in Answer /\ ~SelfAnswer(p) THEN Award(Author[p], ForCreateAnswer) ELSE NoAward
DeletionAward(p) ==
  IF p \in Comment THEN NoAward ELSE Award(Author[p], -3)

LEMMA CreationAwardIs ==
  ASSUME NEW p \in Post
  PROVE  /\ CreationAward(p) \in [User -> Int]
         /\ \A u \in User : CreationAward(p)[u] = CreationWorth(p, u)
<1>1. CreationAward(p) \in [User -> Int]
  BY AwardType, NoAwardType DEF CreationAward, ForCreateQuestion, ForCreateAnswer
<1> QED BY <1>1, Kinds DEF CreationAward, CreationWorth, Award, NoAward, ForCreateQuestion, ForCreateAnswer, Post

LEMMA DeletionAwardIs ==
  ASSUME NEW p \in Post
  PROVE  /\ DeletionAward(p) \in [User -> Int]
         /\ \A u \in User : DeletionAward(p)[u] = -DeletionWorth(p, u)
<1>1. DeletionAward(p) \in [User -> Int]
  BY AwardType, NoAwardType DEF DeletionAward
<1> QED BY <1>1 DEF DeletionAward, DeletionWorth, Award, NoAward

LEMMA PointsRise ==
  ASSUME TypeOK, TypeOK', TablesKept, NEW p \in Post, Appears(p), SameVotes,
         points' = AddTo(points, CreationAward(p))
  PROVE  PointsMatchDeeds'
<1>1. ASSUME NEW u \in User PROVE Deeds(u)' = Deeds(u) + CreationAward(p)[u]
  <2>1. /\ ChoiceWorth(u)' = ChoiceWorth(u) /\ VoteWorth(u)' = VoteWorth(u)
        /\ FlagWorth(u)' = FlagWorth(u)
    BY AppearsSame, ChoiceSame, VotesSame, FlagWorthSame
  <2>2. LifeWorth(u)' = LifeWorth(u) + CreationWorth(p, u)
    BY LifeRises
  <2>3. CreationAward(p)[u] = CreationWorth(p, u) /\ CreationWorth(p, u) \in Int
    BY CreationAwardIs DEF CreationWorth
  <2>4. /\ Deeds(u) = LifeWorth(u) + ChoiceWorth(u) + VoteWorth(u) + FlagWorth(u)
        /\ Deeds(u)' = LifeWorth(u)' + ChoiceWorth(u)' + VoteWorth(u)' + FlagWorth(u)'
        /\ LifeWorth(u) \in Int /\ ChoiceWorth(u) \in Int
        /\ VoteWorth(u) \in Int /\ FlagWorth(u) \in Int
    BY DeedsAre, DeedsThen DEF DeedsByTerms
  <2> QED BY <2>1, <2>2, <2>3, <2>4
<1> QED BY <1>1, PointsChange, CreationAwardIs DEF TablesKept

LEMMA PointsFall ==
  ASSUME TypeOK, TypeOK', TablesKept, NEW p \in Post, Disappears(p), SameVotes,
         points' = AddTo(points, DeletionAward(p))
  PROVE  PointsMatchDeeds'
<1>1. ASSUME NEW u \in User PROVE Deeds(u)' = Deeds(u) + DeletionAward(p)[u]
  <2>1. /\ ChoiceWorth(u)' = ChoiceWorth(u) /\ VoteWorth(u)' = VoteWorth(u)
        /\ FlagWorth(u)' = FlagWorth(u)
    BY DisappearsSame, ChoiceSame, VotesSame, FlagWorthSame
  <2>2. LifeWorth(u)' = LifeWorth(u) - DeletionWorth(p, u)
    BY LifeFalls
  <2>3. DeletionAward(p)[u] = -DeletionWorth(p, u) /\ DeletionWorth(p, u) \in Int
    BY DeletionAwardIs DEF DeletionWorth
  <2>4. /\ Deeds(u) = LifeWorth(u) + ChoiceWorth(u) + VoteWorth(u) + FlagWorth(u)
        /\ Deeds(u)' = LifeWorth(u)' + ChoiceWorth(u)' + VoteWorth(u)' + FlagWorth(u)'
        /\ LifeWorth(u) \in Int /\ ChoiceWorth(u) \in Int
        /\ VoteWorth(u) \in Int /\ FlagWorth(u) \in Int
    BY DeedsAre, DeedsThen DEF DeedsByTerms
  <2> QED BY <2>1, <2>2, <2>3, <2>4
<1> QED BY <1>1, PointsChange, DeletionAwardIs DEF TablesKept

LEMMA AppearsMoves ==
  ASSUME TypeOK, TypeOK', TablesKept, NEW p \in Post, Appears(p), SameVotes,
         points' = AddTo(points, CreationAward(p)),
         p \in Answer \cup Comment => posts[Parent[p]].status = "live",
         p \in Comment => Cardinality(Under(Comment, Parent[p])) < CommentLimit
  PROVE  TablesKept'
<1>1. posts[p].status = "none" /\ posts'[p].status = "live" /\ posts'[p].best = None
  BY DEF Appears, BlankRow
<1>2. \A q \in Post : q # p =>
        /\ posts'[q].status = posts[q].status /\ posts'[q].best = posts[q].best
        /\ posts[q].status = "none" => posts'[q] = posts[q]
  BY DEF Appears, OthersKept
<1>3. Untouched'
  <2>1. \A q \in Post : posts'[q].status = "none" => Blank(q)'
    BY <1>1, <1>2 DEF Appears, SameVotes, TablesKept, Untouched, Blank
  <2>2. \A c \in Answer \cup Comment :
          posts'[c].status # "none" => posts'[Parent[c]].status # "none"
    <3> SUFFICES ASSUME NEW c \in Answer \cup Comment, posts'[c].status # "none"
                 PROVE  posts'[Parent[c]].status # "none"
      OBVIOUS
    <3>1. posts[Parent[c]].status # "none" /\ c \in Post /\ Parent[c] \in Post
      BY <1>1, <1>2, Kinds DEF TablesKept, Untouched
    <3> QED BY <1>1, <1>2, <3>1
  <2> QED BY <2>1, <2>2 DEF Untouched
<1>4. CountersMatchVotes'
  BY AppearsSame, CountersSame DEF TablesKept
<1>5. DeletedPostHasNoPendingReview'
  BY <1>1, <1>2, NoneReopened DEF TablesKept, Appears
<1>6. CommentLimitKept'
  <2> SUFFICES ASSUME NEW q \in Question \cup Answer
               PROVE  Cardinality(Under(Comment, q)') <= CommentLimit
    BY UnderSays
  <2>1. Cardinality(Under(Comment, q)')
          = Cardinality(Under(Comment, q)) + IF p \in Comment /\ q = Parent[p] THEN 1 ELSE 0
    BY UnderRises, Kinds
  <2>2. Cardinality(Under(Comment, q)) <= CommentLimit /\ Cardinality(Under(Comment, q)) \in Nat
    BY UnderSays, UnderIs, Kinds DEF TablesKept
  <2>3. CommentLimit \in Nat
    BY PostStoreAssumption
  <2> QED BY <2>1, <2>2, <2>3
<1>7. Hang'
  <2> SUFFICES ASSUME NoOrphans, BestAnswerIsLive PROVE NoOrphans' /\ BestAnswerIsLive'
    BY DEF TablesKept, Hang
  <2>1. ASSUME NEW c \in Answer \cup Comment, posts'[c].status = "live"
        PROVE  posts'[Parent[c]].status = "live"
    <3>1. posts[Parent[c]].status = "live" /\ Parent[c] \in Post
      BY <1>1, <1>2, <2>1, Kinds DEF NoOrphans, Live
    <3> QED BY <1>1, <1>2, <3>1
  <2>2. ASSUME NEW q \in Question, posts'[q].status = "live", posts'[q].best # None
        PROVE  /\ posts'[q].best \in Answer /\ posts'[posts'[q].best].status = "live"
               /\ Parent[posts'[q].best] = q
    <3>1. q # p /\ posts'[q].best = posts[q].best /\ posts[q].status = "live"
      BY <1>1, <1>2, <2>2, Kinds
    <3>2. /\ posts[q].best \in Answer /\ posts[posts[q].best].status = "live"
          /\ Parent[posts[q].best] = q
      BY <2>2, <3>1 DEF BestAnswerIsLive, Live
    <3> QED BY <1>1, <1>2, <3>1, <3>2, Kinds
  <2> QED BY <2>1, <2>2 DEF NoOrphans, BestAnswerIsLive, Live
<1> QED BY <1>3, <1>4, <1>5, <1>6, <1>7, AnswersRise, PointsRise DEF TablesKept

(* So does a deletion, when nothing hangs on the post.                     *)
LEMMA DisappearsMoves ==
  ASSUME TypeOK, TypeOK', TablesKept, NEW p \in Post, Disappears(p), SameVotes,
         points' = AddTo(points, DeletionAward(p)),
         "complete" \notin Ops => /\ Under(Answer \cup Comment, p) = {}
                                  /\ p \in Answer => posts[Parent[p]].best # p
  PROVE  TablesKept'
<1>1. posts[p].status = "live" /\ posts'[p].status = "deleted" /\ posts'[p].best = posts[p].best
  BY DEF Disappears
<1>2. \A q \in Post : q # p =>
        /\ posts'[q].status = posts[q].status /\ posts'[q].best = posts[q].best
        /\ posts[q].status = "none" => posts'[q] = posts[q]
  BY DEF Disappears, OthersKept
<1>0. /\ SameFlags
      /\ \A k \in ReviewsOf(p) : reviews'[k] # "pending"
      /\ \A k \in ReviewKey : reviews'[k] = "pending" => reviews[k] = "pending"
  BY InvalidateKeepsFlags DEF Disappears
<1>3. Untouched'
  <2>1. \A q \in Post : posts'[q].status = "none" => Blank(q)'
    BY <1>0, <1>1, <1>2 DEF SameVotes, SameFlags, TablesKept, Untouched, Blank
  <2>2. \A c \in Answer \cup Comment :
          posts'[c].status # "none" => posts'[Parent[c]].status # "none"
    <3> SUFFICES ASSUME NEW c \in Answer \cup Comment, posts'[c].status # "none"
                 PROVE  posts'[Parent[c]].status # "none"
      OBVIOUS
    <3>1. posts[Parent[c]].status # "none" /\ c \in Post /\ Parent[c] \in Post
      BY <1>1, <1>2, Kinds DEF TablesKept, Untouched
    <3> QED BY <1>1, <1>2, <3>1
  <2> QED BY <2>1, <2>2 DEF Untouched
<1>4. CountersMatchVotes'
  BY DisappearsSame, CountersSame DEF TablesKept
<1>5. DeletedPostHasNoPendingReview'
  <2>1. \A q : ReviewsOf(q) \subseteq ReviewKey
    BY DEF ReviewsOf
  <2> QED BY <1>0, <1>1, <1>2, <2>1, NoneReopened DEF TablesKept
<1>6. CommentLimitKept'
  <2> SUFFICES ASSUME NEW q \in Question \cup Answer
               PROVE  Cardinality(Under(Comment, q)') <= CommentLimit
    BY UnderSays
  <2>1. Cardinality(Under(Comment, q)')
          = Cardinality(Under(Comment, q)) - IF p \in Comment /\ q = Parent[p] THEN 1 ELSE 0
    BY UnderFalls, Kinds
  <2>2. Cardinality(Under(Comment, q)) <= CommentLimit /\ Cardinality(Under(Comment, q)) \in Nat
    BY UnderSays, UnderIs, Kinds DEF TablesKept
  <2>3. CommentLimit \in Nat
    BY PostStoreAssumption
  <2> QED BY <2>1, <2>2, <2>3
<1>7. Hang'
  <2> SUFFICES ASSUME NoOrphans, BestAnswerIsLive, "complete" \notin Ops
               PROVE  NoOrphans' /\ BestAnswerIsLive'
    BY DEF TablesKept, Hang
  <2>1. ASSUME NEW c \in Answer \cup Comment, posts'[c].status = "live"
        PROVE  posts'[Parent[c]].status = "live"
    <3>1. posts[c].status = "live" /\ posts[Parent[c]].status = "live" /\ Parent[c] \in Post
      BY <1>1, <1>2, <2>1, Kinds DEF NoOrphans, Live
    <3>2. Parent[c] # p
      BY <3>1 DEF Under, Live
    <3> QED BY <1>1, <1>2, <3>1, <3>2
  <2>2. ASSUME NEW q \in Question, posts'[q].status = "live", posts'[q].best # None
        PROVE  /\ posts'[q].best \in Answer /\ posts'[posts'[q].best].status = "live"
               /\ Parent[posts'[q].best] = q
    <3>1. q # p /\ posts'[q].best = posts[q].best /\ posts[q].status = "live"
      BY <1>1, <1>2, <2>2, Kinds
    <3>2. /\ posts[q].best \in Answer /\ posts[posts[q].best].status = "live"
          /\ Parent[posts[q].best] = q
      BY <2>2, <3>1 DEF BestAnswerIsLive, Live
    <3>3. posts[q].best # p
      BY <3>2
    <3> QED BY <1>1, <1>2, <3>1, <3>2, <3>3, Kinds
  <2> QED BY <2>1, <2>2 DEF NoOrphans, BestAnswerIsLive, Live
<1> QED BY <1>3, <1>4, <1>5, <1>6, <1>7, AnswersFall, PointsFall DEF TablesKept

(* The best answer is chosen.                                              *)
ChoiceAward(p) == IF SelfAnswer(p) THEN NoAward
                  ELSE AddTo(Award(Author[Parent[p]], ForSelectAnswer),
                             Award(Author[p], ForSelectedAnswer))
ChosenWorth(p, u) == IF SelfAnswer(p) THEN 0
                     ELSE (IF u = Author[Parent[p]] THEN 3 ELSE 0) + (IF u = Author[p] THEN 10 ELSE 0)

LEMMA ChoiceAwardIs ==
  ASSUME NEW p \in Answer
  PROVE  /\ ChoiceAward(p) \in [User -> Int]
         /\ \A u \in User : ChoiceAward(p)[u] = ChosenWorth(p, u) /\ ChosenWorth(p, u) \in Int
<1>1. /\ Award(Author[Parent[p]], ForSelectAnswer) \in [User -> Int]
      /\ Award(Author[p], ForSelectedAnswer) \in [User -> Int]
  BY AwardType DEF ForSelectAnswer, ForSelectedAnswer
<1>2. ChoiceAward(p) \in [User -> Int]
  BY <1>1, AddToType, NoAwardType DEF ChoiceAward
<1> QED
  BY <1>2 DEF ChoiceAward, ChosenWorth, AddTo, Award, NoAward, ForSelectAnswer, ForSelectedAnswer

LEMMA ChoiceRises ==
  ASSUME TypeOK, NEW p \in Answer, posts[Parent[p]].best = None,
         posts' = [posts EXCEPT ![Parent[p]].best = p], NEW u \in User
  PROVE  ChoiceWorth(u)' = ChoiceWorth(u) + ChosenWorth(p, u)
<1> DEFINE C == {a \in Chosen : Author[Parent[a]] = u}
           B == By(u, Chosen)
<1>1. /\ \A a \in Answer : a # p /\ Parent[a] = Parent[p] => posts[Parent[a]].best # a /\ posts'[Parent[a]].best # a
      /\ \A a \in Answer : Parent[a] # Parent[p] => posts'[Parent[a]].best = posts[Parent[a]].best
      /\ posts'[Parent[p]].best = p /\ posts[Parent[p]].best # p
  BY Kinds DEF TypeOK, Row
<1>2. p \in SelfAnswers <=> SelfAnswer(p)
  BY DEF SelfAnswers
<1>3. Chosen' = IF SelfAnswer(p) THEN Chosen ELSE Chosen \cup {p}
  <2>1. Chosen' = {a \in Answer : posts'[Parent[a]].best = a} \ SelfAnswers
    BY DEF Chosen, SelfAnswers
  <2>2. {a \in Answer : posts'[Parent[a]].best = a} = {a \in Answer : posts[Parent[a]].best = a} \cup {p}
    BY <1>1
  <2> QED BY <1>2, <2>1, <2>2 DEF Chosen
<1>4. p \notin Chosen
  BY <1>1 DEF Chosen
<1>5. /\ C \in SUBSET Post /\ B \in SUBSET Post /\ p \notin C /\ p \notin B
  BY <1>4, TermsAre DEF By
<1>6. /\ C' = IF ~SelfAnswer(p) /\ u = Author[Parent[p]] THEN C \cup {p} ELSE C
      /\ B' = IF ~SelfAnswer(p) /\ u = Author[p] THEN B \cup {p} ELSE B
  BY <1>3 DEF By
<1>7. /\ ChoiceWorth(u) = 3 * Cardinality(C) + 10 * Cardinality(B)
      /\ ChoiceWorth(u)' = 3 * Cardinality(C') + 10 * Cardinality(B')
  BY DEF ChoiceWorth, ForSelectAnswer, ForSelectedAnswer
<1> HIDE DEF C, B
<1>8. /\ Cardinality(C) \in Nat
      /\ Cardinality(C') = Cardinality(C) + IF ~SelfAnswer(p) /\ u = Author[Parent[p]] THEN 1 ELSE 0
  <2>1. /\ C' = C \/ (C' = C \cup {p} /\ p \notin C)
        /\ p \in C' /\ p \notin C <=> ~SelfAnswer(p) /\ u = Author[Parent[p]]
    BY <1>5, <1>6
  <2>2. /\ Cardinality(C) \in Nat
        /\ Cardinality(C') = Cardinality(C) + IF p \in C' /\ p \notin C THEN 1 ELSE 0
    BY <1>5, <2>1, CountGain
  <2> QED BY <2>1, <2>2
<1>9. /\ Cardinality(B) \in Nat
      /\ Cardinality(B') = Cardinality(B) + IF ~SelfAnswer(p) /\ u = Author[p] THEN 1 ELSE 0
  <2>1. /\ B' = B \/ (B' = B \cup {p} /\ p \notin B)
        /\ p \in B' /\ p \notin B <=> ~SelfAnswer(p) /\ u = Author[p]
    BY <1>5, <1>6
  <2>2. /\ Cardinality(B) \in Nat
        /\ Cardinality(B') = Cardinality(B) + IF p \in B' /\ p \notin B THEN 1 ELSE 0
    BY <1>5, <2>1, CountGain
  <2> QED BY <2>1, <2>2
<1> QED BY <1>7, <1>8, <1>9 DEF ChosenWorth

LEMMA ChoiceMoves ==
  ASSUME TypeOK, TypeOK', TablesKept, NEW p \in Answer, posts[p].status = "live",
         posts[Parent[p]].status = "live", posts[Parent[p]].best = None,
         posts' = [posts EXCEPT ![Parent[p]].best = p],
         points' = AddTo(points, ChoiceAward(p)), UNCHANGED <<upVotes, downVotes, reviews>>
  PROVE  TablesKept'
<1>1. /\ SameStatus /\ SameAnswers /\ SameCounters /\ SameFlags /\ SameVotes
      /\ \A q \in Post : posts[q].status = "none" => posts'[q] = posts[q]
  BY RowsAre, Kinds DEF SameStatus, SameAnswers, SameCounters, SameFlags, SameVotes, Row
<1>2. Untouched'
  BY <1>1, UntouchedSame DEF TablesKept
<1>3. CountersMatchVotes' /\ AnswersCounted' /\ CommentLimitKept'
  BY <1>1, CountersSame, AnswersSame, LimitSame DEF TablesKept
<1>4. DeletedPostHasNoPendingReview'
  BY <1>1, NoneReopened DEF TablesKept, SameStatus
<1>5. Hang'
  <2> SUFFICES ASSUME NoOrphans, BestAnswerIsLive PROVE NoOrphans' /\ BestAnswerIsLive'
    BY DEF TablesKept, Hang
  <2>1. NoOrphans'
    BY <1>1, Kinds DEF NoOrphans, Live, SameStatus
  <2>2. ASSUME NEW q \in Question, posts'[q].status = "live", posts'[q].best # None
        PROVE  /\ posts'[q].best \in Answer /\ posts'[posts'[q].best].status = "live"
               /\ Parent[posts'[q].best] = q
    <3>1. CASE q = Parent[p]
      <4>1. posts'[q].best = p
        BY <3>1, RowsAre, Kinds DEF Row
      <4> QED BY <1>1, <3>1, <4>1, Kinds DEF SameStatus
    <3>2. CASE q # Parent[p]
      <4>1. posts'[q].best = posts[q].best /\ posts[q].status = "live"
        BY <1>1, <2>2, <3>2, RowsAre, Kinds DEF SameStatus
      <4>2. /\ posts[q].best \in Answer /\ posts[posts[q].best].status = "live"
            /\ Parent[posts[q].best] = q
        BY <2>2, <4>1 DEF BestAnswerIsLive, Live
      <4> QED BY <1>1, <4>1, <4>2, Kinds DEF SameStatus
    <3> QED BY <3>1, <3>2
  <2> QED BY <2>1, <2>2 DEF BestAnswerIsLive, Live
<1>6. ASSUME NEW u \in User PROVE Deeds(u)' = Deeds(u) + ChoiceAward(p)[u]
  <2>1. /\ LifeWorth(u)' = LifeWorth(u) /\ VoteWorth(u)' = VoteWorth(u)
        /\ FlagWorth(u)' = FlagWorth(u)
    BY <1>1, LifeSame, VotesSame, FlagWorthSame
  <2>2. ChoiceWorth(u)' = ChoiceWorth(u) + ChosenWorth(p, u)
    BY ChoiceRises
  <2>3. ChoiceAward(p)[u] = ChosenWorth(p, u) /\ ChosenWorth(p, u) \in Int
    BY ChoiceAwardIs
  <2>4. /\ Deeds(u) = LifeWorth(u) + ChoiceWorth(u) + VoteWorth(u) + FlagWorth(u)
        /\ Deeds(u)' = LifeWorth(u)' + ChoiceWorth(u)' + VoteWorth(u)' + FlagWorth(u)'
        /\ LifeWorth(u) \in Int /\ ChoiceWorth(u) \in Int
        /\ VoteWorth(u) \in Int /\ FlagWorth(u) \in Int
    BY DeedsAre, DeedsThen DEF DeedsByTerms
  <2> QED BY <2>1, <2>2, <2>3, <2>4
<1>7. PointsMatchDeeds'
  BY <1>6, PointsChange, ChoiceAwardIs DEF TablesKept
<1> QED BY <1>2, <1>3, <1>4, <1>5, <1>7 DEF TablesKept

----------------------------------------------------------------------------
(* What the only request knows, from one step to the next.                 *)
Alone(pr) == Proc = {pr} /\ ~HasReplica

LEMMA IdleKnows ==
  ASSUME NEW pr, request'[pr] = Idle
  PROVE  Knows(request[pr])'
BY DEF Knows, Idle

LEMMA KnowsSame ==
  ASSUME NEW pr, UNCHANGED <<posts, upVotes, downVotes, reviews>>, Knows(request'[pr])
  PROVE  Knows(request[pr])'
BY DEF Knows, KnowsNew, KnowsPost, KnowsVote, KnowsLeaf, Under, Live

(* A request that ends, leaving the tables in order.                       *)
LEMMA EndKeeps ==
  ASSUME NEW pr, Alone(pr), TypeOK, TypeOK', Finish(pr), TablesKept'
  PROVE  PostInv(pr)'
<1>1. request'[pr] = Idle
  BY DEF Finish, TypeOK, Alone
<1> QED BY <1>1, IdleKnows DEF PostInv

LEMMA RejectKeeps ==
  ASSUME NEW pr, Alone(pr), PostInv(pr), TypeOK', NEW reason, Reject(pr, reason)
  PROVE  PostInv(pr)'
<1>1. TablesKept'
  BY TablesSame DEF Reject, tables, PostInv
<1> QED BY <1>1, EndKeeps DEF Reject, PostInv

LEMMA RollBackKeeps ==
  ASSUME NEW pr, Alone(pr), PostInv(pr), TypeOK', NEW award, RollBack(pr, award), UNCHANGED reviews
  PROVE  PostInv(pr)'
<1>1. TablesKept'
  BY TablesSame DEF RollBack, PostInv
<1> QED BY <1>1, EndKeeps DEF RollBack, PostInv

Accepted(op, u, p) == [phase |-> "checked", op |-> op, user |-> u, post |-> p,
                       row |-> BlankRow, content |-> 0]

LEMMA AcceptKeeps ==
  ASSUME NEW pr, Alone(pr), PostInv(pr), TypeOK', NEW op, NEW u, NEW p, Accept(pr, op, u, p),
         op \in Creations => posts[p].status = "none",
         op = "createQuestion" => p \in Question /\ u = Author[p],
         op = "createAnswer" => p \in Answer,
         op = "createComment" => p \in Comment,
         op \in {"createAnswer", "createComment"} => posts[Parent[p]].status = "live",
         op \in {"review", "reject"} => posts[p].status = "live",
         op = "delete" => /\ Under(Answer \cup Comment, p) = {}
                          /\ p \in Answer => posts[Parent[p]].best # p
  PROVE  PostInv(pr)'
<1>1. request'[pr] = Accepted(op, u, p) /\ UNCHANGED <<posts, upVotes, downVotes, reviews, points>>
  BY DEF Accept, Accepted, tables, Alone, PostInv, TypeOK
<1>2. /\ Accepted(op, u, p).phase = "checked" /\ Accepted(op, u, p).op = op
      /\ Accepted(op, u, p).user = u /\ Accepted(op, u, p).post = p
  BY DEF Accepted
<1>3. Knows(Accepted(op, u, p))
  BY <1>2 DEF Knows, KnowsNew, KnowsPost, KnowsVote, KnowsLeaf
<1>4. TablesKept'
  BY <1>1, TablesSame DEF PostInv
<1> QED BY <1>1, <1>3, <1>4, KnowsSame DEF PostInv

(* What the store has read.                                                *)
Found(r, row) ==
  /\ r.op \notin Creations => posts[r.post].status = "live"
  /\ r.op \in {"update", "cancelUpVote", "cancelDownVote"} => row = posts[r.post]
  /\ r.op = "selectBest" => posts[Parent[r.post]].status = "live" /\ posts[Parent[r.post]].best = None
  /\ r.op = "cancelUpVote" => <<r.user, r.post>> \in upVotes
  /\ r.op = "cancelDownVote" => <<r.user, r.post>> \in downVotes
  /\ r.op = "cancelFlag" => reviews[Flag(r.user, r.post)] # "none"
  /\ r.op \in Deletes /\ r.post \in Answer => posts[Parent[r.post]].status = "live"
  /\ r.op = "createComment" => Cardinality(Under(Comment, Parent[r.post])) < CommentLimit

LEMMA FoundKnows ==
  ASSUME NEW r, NEW s, Knows(r), r.phase = "checked", s.phase = "read", s.op = r.op,
         s.user = r.user, s.post = r.post, Found(r, s.row)
  PROVE  Knows(s)
BY DEF Knows, KnowsNew, KnowsPost, KnowsVote, KnowsLeaf, Found, Creations

LEMMA ReadKeeps ==
  ASSUME NEW pr, Alone(pr), PostInv(pr), TypeOK', NEW op, NEW found, NEW row,
         Read(pr, op, found, row), found => Found(request[pr], row)
  PROVE  PostInv(pr)'
<1> DEFINE r == request[pr]
           s == [r EXCEPT !.phase = "read", !.row = row]
<1>1. /\ r.phase = "checked" /\ UNCHANGED <<posts, upVotes, downVotes, reviews, points>>
      /\ request'[pr] = IF found THEN s ELSE Idle
  BY DEF Read, In, tables, Alone, PostInv, TypeOK
<1>2. r \in InFlight
  BY <1>1, InFlightType DEF Alone, PostInv
<1>3. s.phase = "read" /\ s.op = r.op /\ s.user = r.user /\ s.post = r.post /\ s.row = row
  BY <1>2 DEF InFlight
<1>4. Knows(r)
  BY DEF PostInv
<1> HIDE DEF r, s
<1>5. found => Knows(s)
  BY <1>1, <1>3, <1>4, FoundKnows DEF r
<1>6. TablesKept'
  BY <1>1, TablesSame DEF PostInv
<1>7. CASE found
  BY <1>1, <1>5, <1>6, <1>7, KnowsSame DEF PostInv
<1>8. CASE ~found
  BY <1>1, <1>6, <1>8, IdleKnows DEF PostInv
<1> QED BY <1>7, <1>8

(* Voting and flagging.                                                    *)
LEMMA ReadLive ==
  ASSUME NEW pr, Alone(pr), PostInv(pr), NEW op, In(pr, op, "read")
  PROVE  /\ request[pr].user \in User /\ request[pr].post \in Post
         /\ Knows(request[pr]) /\ request[pr].op = op /\ request[pr].phase = "read"
         /\ op \notin Creations => posts[request[pr].post].status = "live"
<1>1. request[pr].op = op /\ request[pr].phase = "read" /\ pr \in Proc
  BY DEF In, Alone
<1> QED BY <1>1, TheRequest DEF PostInv, Knows, KnowsPost

LEMMA UpVoteKeeps ==
  ASSUME NEW pr, Alone(pr), PostInv(pr), TypeOK', upvotePost(pr)
  PROVE  PostInv(pr)'
<1> DEFINE u == request[pr].user
           p == request[pr].post
           award == VoteAward(u, p, ForVoted)
<1>1. In(pr, "upVote", "read")
  BY DEF upvotePost
<1>2. u \in User /\ p \in Post /\ posts[p].status = "live"
  BY <1>1, ReadLive DEF Creations
<1>3. CASE Reject(pr, <<u, p>> \in upVotes \/ ~TagsFound(u, p))
  BY <1>3, RejectKeeps
<1>4. CASE /\ <<u, p>> \notin upVotes /\ upVotes' = upVotes \cup {<<u, p>>}
           /\ posts' = [posts EXCEPT ![p].up = @ + 1, ![p].points = @ + 1]
           /\ Commit(pr, award) /\ UNCHANGED <<downVotes, reviews>>
  <2> HIDE DEF u, p
  <2>1. points' = AddTo(points, VoteAward(u, p, ForVoted)) /\ Finish(pr)
    BY <1>4 DEF Commit
  <2>2. TablesKept'
    BY <1>2, <1>4, <2>1, UpVoteMoves DEF PostInv
  <2> QED BY <2>1, <2>2, EndKeeps DEF PostInv
<1>5. CASE RollBack(pr, award) /\ UNCHANGED reviews
  BY <1>5, RollBackKeeps
<1> QED BY <1>3, <1>4, <1>5 DEF upvotePost

LEMMA CancelUpVoteKeeps ==
  ASSUME NEW pr, Alone(pr), PostInv(pr), TypeOK', cancelUpvotePost(pr)
  PROVE  PostInv(pr)'
<1> DEFINE u == request[pr].user
           p == request[pr].post
           award == VoteAward(u, p, -ForVoted)
<1>1. In(pr, "cancelUpVote", "read")
  BY DEF cancelUpvotePost
<1>2. u \in User /\ p \in Post /\ posts[p].status = "live"
  BY <1>1, ReadLive DEF Creations
<1>6. <<u, p>> \in upVotes /\ request[pr].row = posts[p]
  BY <1>1, ReadLive DEF Knows, KnowsVote, KnowsPost
<1>3. CASE Reject(pr, ~TagsFound(u, p))
  BY <1>3, RejectKeeps
<1>4. CASE /\ upVotes' = upVotes \ {<<u, p>>}
           /\ posts' = [posts EXCEPT ![p].up = Minus1(request[pr].row.up), ![p].points = @ - 1]
           /\ Commit(pr, award) /\ UNCHANGED <<downVotes, reviews>>
  <2>1. points' = AddTo(points, VoteAward(u, p, -ForVoted)) /\ Finish(pr)
    BY <1>4 DEF Commit
  <2>2. posts' = [posts EXCEPT ![p].up = Minus1(posts[p].up), ![p].points = @ - 1]
    BY <1>4, <1>6
  <2> HIDE DEF u, p
  <2>3. TablesKept'
    BY <1>2, <1>4, <1>6, <2>1, <2>2, CancelUpVoteMoves DEF PostInv
  <2> QED BY <2>1, <2>3, EndKeeps DEF PostInv
<1>5. CASE RollBack(pr, award) /\ UNCHANGED reviews
  BY <1>5, RollBackKeeps
<1> QED BY <1>3, <1>4, <1>5 DEF cancelUpvotePost

LEMMA DownVoteKeeps ==
  ASSUME NEW pr, Alone(pr), PostInv(pr), TypeOK', downvotePost(pr)
  PROVE  PostInv(pr)'
<1> DEFINE u == request[pr].user
           p == request[pr].post
           award == VoteAward(u, p, ForDownVoted)
<1>1. In(pr, "downVote", "read")
  BY DEF downvotePost
<1>2. u \in User /\ p \in Post /\ posts[p].status = "live"
  BY <1>1, ReadLive DEF Creations
<1>3. CASE Reject(pr, <<u, p>> \in downVotes \/ ~TagsFound(u, p))
  BY <1>3, RejectKeeps
<1>4. CASE /\ <<u, p>> \notin downVotes /\ downVotes' = downVotes \cup {<<u, p>>}
           /\ posts' = [posts EXCEPT ![p].down = @ + 1, ![p].points = @ - 1]
           /\ Commit(pr, award) /\ UNCHANGED <<upVotes, reviews>>
  <2> HIDE DEF u, p
  <2>1. points' = AddTo(points, VoteAward(u, p, ForDownVoted)) /\ Finish(pr)
    BY <1>4 DEF Commit
  <2>2. TablesKept'
    BY <1>2, <1>4, <2>1, DownVoteMoves DEF PostInv
  <2> QED BY <2>1, <2>2, EndKeeps DEF PostInv
<1>5. CASE RollBack(pr, award) /\ UNCHANGED reviews
  BY <1>5, RollBackKeeps
<1> QED BY <1>3, <1>4, <1>5 DEF downvotePost

LEMMA CancelDownVoteKeeps ==
  ASSUME NEW pr, Alone(pr), PostInv(pr), TypeOK', cancelDownvotePost(pr)
  PROVE  PostInv(pr)'
<1> DEFINE u == request[pr].user
           p == request[pr].post
           award == VoteAward(u, p, -ForDownVoted)
<1>1. In(pr, "cancelDownVote", "read")
  BY DEF cancelDownvotePost
<1>2. u \in User /\ p \in Post /\ posts[p].status = "live"
  BY <1>1, ReadLive DEF Creations
<1>6. <<u, p>> \in downVotes /\ request[pr].row = posts[p]
  BY <1>1, ReadLive DEF Knows, KnowsVote, KnowsPost
<1>3. CASE Reject(pr, ~TagsFound(u, p))
  BY <1>3, RejectKeeps
<1>4. CASE /\ downVotes' = downVotes \ {<<u, p>>}
           /\ posts' = [posts EXCEPT ![p].down = Minus1(request[pr].row.down), ![p].points = @ + 1]
           /\ Commit(pr, award) /\ UNCHANGED <<upVotes, reviews>>
  <2>1. points' = AddTo(points, VoteAward(u, p, -ForDownVoted)) /\ Finish(pr)
    BY <1>4 DEF Commit
  <2>2. posts' = [posts EXCEPT ![p].down = Minus1(posts[p].down), ![p].points = @ + 1]
    BY <1>4, <1>6
  <2> HIDE DEF u, p
  <2>3. TablesKept'
    BY <1>2, <1>4, <1>6, <2>1, <2>2, CancelDownVoteMoves DEF PostInv
  <2> QED BY <2>1, <2>3, EndKeeps DEF PostInv
<1>5. CASE RollBack(pr, award) /\ UNCHANGED reviews
  BY <1>5, RollBackKeeps
<1> QED BY <1>3, <1>4, <1>5 DEF cancelDownvotePost

LEMMA FlagKeeps ==
  ASSUME NEW pr, Alone(pr), PostInv(pr), TypeOK', flagPost(pr)
  PROVE  PostInv(pr)'
<1> DEFINE u == request[pr].user
           p == request[pr].post
           award == Award(Author[p], ForFlagged)
<1>1. In(pr, "flag", "read")
  BY DEF flagPost
<1>2. u \in User /\ p \in Post /\ posts[p].status = "live"
  BY <1>1, ReadLive DEF Creations
<1>3. CASE Reject(pr, reviews[Flag(u, p)] # "none" \/ ~getTagsForPost(p))
  BY <1>3, RejectKeeps
<1>4. CASE /\ reviews[Flag(u, p)] = "none" /\ reviews' = [reviews EXCEPT ![Flag(u, p)] = "pending"]
           /\ posts' = [posts EXCEPT ![p].flags = @ + 1]
           /\ Commit(pr, award) /\ UNCHANGED <<upVotes, downVotes>>
  <2> HIDE DEF u, p
  <2>1. points' = AddTo(points, Award(Author[p], ForFlagged)) /\ Finish(pr)
    BY <1>4 DEF Commit
  <2>2. TablesKept'
    BY <1>2, <1>4, <2>1, FlagMoves DEF PostInv
  <2> QED BY <2>1, <2>2, EndKeeps DEF PostInv
<1>5. CASE RollBack(pr, award) /\ UNCHANGED reviews
  BY <1>5, RollBackKeeps
<1> QED BY <1>3, <1>4, <1>5 DEF flagPost

LEMMA CancelFlagKeeps ==
  ASSUME NEW pr, Alone(pr), PostInv(pr), TypeOK', cancelFlagPost(pr)
  PROVE  PostInv(pr)'
<1> DEFINE u == request[pr].user
           p == request[pr].post
           award == Award(Author[p], -ForFlagged)
<1>1. In(pr, "cancelFlag", "read")
  BY DEF cancelFlagPost
<1>2. u \in User /\ p \in Post /\ posts[p].status = "live"
  BY <1>1, ReadLive DEF Creations
<1>6. reviews[Flag(u, p)] # "none"
  BY <1>1, ReadLive DEF Knows, KnowsVote
<1>3. CASE Reject(pr, ~getTagsForPost(p))
  BY <1>3, RejectKeeps
<1>4. CASE /\ reviews' = [reviews EXCEPT ![Flag(u, p)] = "none"]
           /\ posts' = [posts EXCEPT ![p].flags = @ - 1]
           /\ Commit(pr, award) /\ UNCHANGED <<upVotes, downVotes>>
  <2> HIDE DEF u, p
  <2>1. points' = AddTo(points, Award(Author[p], -ForFlagged)) /\ Finish(pr)
    BY <1>4 DEF Commit
  <2>2. TablesKept'
    BY <1>2, <1>4, <1>6, <2>1, CancelFlagMoves DEF PostInv
  <2> QED BY <2>1, <2>2, EndKeeps DEF PostInv
<1>5. CASE RollBack(pr, award) /\ UNCHANGED reviews
  BY <1>5, RollBackKeeps
<1> QED BY <1>3, <1>4, <1>5 DEF cancelFlagPost

(* An operation with no conditions of its own on the tables.               *)
Plain == {"upVote", "cancelUpVote", "downVote", "cancelDownVote", "flag", "cancelFlag", "update",
          "selectBest", "complete", "lock", "cancelLock", "protect", "cancelProtect"}

LEMMA AcceptPlain ==
  ASSUME NEW pr, Alone(pr), PostInv(pr), TypeOK', NEW op \in Plain, NEW u, NEW p, Accept(pr, op, u, p)
  PROVE  PostInv(pr)'
<1>1. /\ op \notin Creations /\ op # "createQuestion" /\ op # "createAnswer"
      /\ op # "createComment" /\ op \notin {"createAnswer", "createComment"}
      /\ op \notin {"review", "reject"} /\ op # "delete"
  BY DEF Plain, Creations
<1> QED BY <1>1, AcceptKeeps

(* A read that only asks whether the post is there.                        *)
ReadPlain == {"upVote", "downVote", "flag", "lock", "cancelLock", "protect", "cancelProtect"}

LEMMA ReadPlainKeeps ==
  ASSUME NEW pr, Alone(pr), PostInv(pr), TypeOK', NEW op \in ReadPlain,
         Read(pr, op, GetSingle(request[pr].post), BlankRow)
  PROVE  PostInv(pr)'
<1>1. request[pr].op = op
  BY DEF Read, In
<1>2. GetSingle(request[pr].post) => Found(request[pr], BlankRow)
  BY <1>1, ViewIs DEF Found, ReadPlain, Creations, Deletes, Alone
<1> QED BY <1>2, ReadKeeps

LEMMA VoteNextKeeps ==
  ASSUME NEW pr, Alone(pr), PostInv(pr), TypeOK', VoteNext
  PROVE  PostInv(pr)'
<1>1. ASSUME NEW u \in User, NEW p \in Post,
             \/ UpVotePost(pr, u, p)   \/ CancelUpVotePost(pr, u, p)
             \/ DownVotePost(pr, u, p) \/ CancelDownVotePost(pr, u, p)
             \/ FlagPost(pr, u, p)     \/ CancelFlagPost(pr, u, p)
      PROVE  PostInv(pr)'
  <2>1. \E op \in Plain : Accept(pr, op, u, p)
    BY <1>1 DEF Plain, UpVotePost, CancelUpVotePost, DownVotePost, CancelDownVotePost, FlagPost, CancelFlagPost
  <2> QED BY <2>1, AcceptPlain
<1>2. CASE ReadForUpVote(pr) \/ ReadForDownVote(pr) \/ ReadForFlag(pr)
  <2>1. \E op \in ReadPlain : Read(pr, op, GetSingle(request[pr].post), BlankRow)
    BY <1>2 DEF ReadPlain, ReadForUpVote, ReadForDownVote, ReadForFlag
  <2> QED BY <2>1, ReadPlainKeeps
<1>3. CASE ReadForCancelUpVote(pr)
  <2> DEFINE u == request[pr].user
             p == request[pr].post
             found == <<u, p>> \in View.up /\ GetSingle(p)
  <2>1. Read(pr, "cancelUpVote", found, View.posts[p])
    BY <1>3 DEF ReadForCancelUpVote
  <2>2. found => Found(request[pr], View.posts[p])
    BY <2>1, ViewIs DEF Found, Read, In, Creations, Deletes, Alone
  <2> HIDE DEF found
  <2> QED BY <2>1, <2>2, ReadKeeps
<1>4. CASE ReadForCancelDownVote(pr)
  <2> DEFINE u == request[pr].user
             p == request[pr].post
             found == <<u, p>> \in View.down /\ GetSingle(p)
  <2>1. Read(pr, "cancelDownVote", found, View.posts[p])
    BY <1>4 DEF ReadForCancelDownVote
  <2>2. found => Found(request[pr], View.posts[p])
    BY <2>1, ViewIs DEF Found, Read, In, Creations, Deletes, Alone
  <2> HIDE DEF found
  <2> QED BY <2>1, <2>2, ReadKeeps
<1>5. CASE ReadForCancelFlag(pr)
  <2> DEFINE u == request[pr].user
             p == request[pr].post
             found == View.reviews[Flag(u, p)] # "none" /\ GetSingle(p)
  <2>1. Read(pr, "cancelFlag", found, BlankRow)
    BY <1>5 DEF ReadForCancelFlag
  <2>2. found => Found(request[pr], BlankRow)
    BY <2>1, ViewIs DEF Found, Read, In, Creations, Deletes, Alone
  <2> HIDE DEF found
  <2> QED BY <2>1, <2>2, ReadKeeps
<1> QED
  BY <1>1, <1>2, <1>3, <1>4, <1>5, UpVoteKeeps, CancelUpVoteKeeps, DownVoteKeeps,
     CancelDownVoteKeeps, FlagKeeps, CancelFlagKeeps DEF VoteNext, Alone

(* Creation.                                                               *)
LEMMA Committed ==
  ASSUME NEW pr, Alone(pr), PostInv(pr), Goto(pr, "committed"), request[pr].phase # "idle"
  PROVE  /\ request'[pr].phase = "committed" /\ request'[pr].op = request[pr].op
         /\ request'[pr].user = request[pr].user /\ request'[pr].post = request[pr].post
<1>1. request[pr] \in InFlight /\ pr \in Proc
  BY InFlightType DEF Alone, PostInv
<1>2. request'[pr] = [request[pr] EXCEPT !.phase = "committed"]
  BY <1>1 DEF Goto, PostInv, TypeOK
<1> QED BY <1>1, <1>2 DEF InFlight

LEMMA AppearsKnows ==
  ASSUME NEW pr, Alone(pr), PostInv(pr), Goto(pr, "committed"), request[pr].phase # "idle",
         request[pr].op \in Creations, NEW p \in Post, p = request[pr].post, Appears(p)
  PROVE  Knows(request[pr])'
<1> DEFINE r == request[pr]
<1>1. r'.phase = "committed" /\ r'.op = r.op /\ r'.user = r.user /\ r'.post = p
  BY Committed
<1>2. KnowsNew(r)
  BY DEF PostInv, Knows
<1>3. /\ posts'[p].status = "live"
      /\ \A q \in Post : posts[q].status = "live" => posts'[q].status = "live"
  BY DEF Appears, OthersKept, BlankRow
<1>4. r.op \in {"createAnswer", "createComment"} => Parent[p] \in Post
  BY <1>2, Kinds DEF KnowsNew
<1>5. KnowsNew(r)'
  BY <1>1, <1>2, <1>3, <1>4 DEF KnowsNew, Creations
<1> QED BY <1>1, <1>5 DEF Knows, KnowsPost, KnowsVote, KnowsLeaf, Creations, Deletes

LEMMA CreationKeeps ==
  ASSUME NEW pr, Alone(pr), PostInv(pr), TypeOK', Goto(pr, "committed"),
         request[pr].phase = "read" \/ (request[pr].phase = "checked" /\ request[pr].op = "createQuestion"),
         request[pr].op \in Creations, NEW p, p = request[pr].post, Appears(p),
         points' = AddTo(points, CreationAward(p)), UNCHANGED <<upVotes, downVotes>>
  PROVE  PostInv(pr)'
<1>1. p \in Post /\ request[pr].phase # "idle"
  BY TheRequest DEF Alone, PostInv
<1>2. KnowsNew(request[pr])
  BY <1>1 DEF PostInv, Knows
<1>3. /\ p \in Answer \cup Comment => posts[Parent[p]].status = "live"
      /\ p \in Comment => Cardinality(Under(Comment, Parent[p])) < CommentLimit
  BY <1>2, Kinds DEF KnowsNew, Creations
<1>4. TablesKept'
  BY <1>1, <1>3, AppearsMoves DEF PostInv, SameVotes
<1> QED BY <1>1, <1>4, AppearsKnows DEF PostInv

LEMMA SaveQuestionKeeps ==
  ASSUME NEW pr, Alone(pr), PostInv(pr), TypeOK', saveQuestion(pr)
  PROVE  PostInv(pr)'
<1> DEFINE p == request[pr].post
           award == Award(request[pr].user, ForCreateQuestion)
<1>1. request[pr].op = "createQuestion" /\ request[pr].phase = "checked"
  BY DEF saveQuestion, In
<1>2. p \in Question /\ request[pr].user = Author[p] /\ posts[p].status = "none"
  BY <1>1 DEF PostInv, Knows, KnowsNew, Creations
<1>3. CASE Reject(pr, FALSE)
  BY <1>3, RejectKeeps
<1>4. CASE posts' = Insert(p) /\ CommitAndGoOn(pr, award) /\ UNCHANGED <<upVotes, downVotes, reviews>>
  <2>1. Goto(pr, "committed") /\ points' = AddTo(points, CreationAward(p))
    BY <1>2, <1>4 DEF CommitAndGoOn, CreationAward
  <2>2. Appears(p)
    BY <1>2, <1>4, Kinds, RowsAre DEF Appears, OthersKept, Insert, PostInv
  <2> QED BY <1>1, <1>4, <2>1, <2>2, CreationKeeps DEF Creations
<1>5. CASE RollBack(pr, award) /\ UNCHANGED reviews
  BY <1>5, RollBackKeeps
<1> QED BY <1>3, <1>4, <1>5 DEF saveQuestion, Target

LEMMA SaveAnswerKeeps ==
  ASSUME NEW pr, Alone(pr), PostInv(pr), TypeOK', saveAnswer(pr)
  PROVE  PostInv(pr)'
<1> DEFINE p == request[pr].post
           award == IF SelfAnswer(p) THEN NoAward ELSE Award(Author[p], ForCreateAnswer)
<1>1. request[pr].op = "createAnswer" /\ request[pr].phase = "read"
  BY DEF saveAnswer, In
<1>2. p \in Answer /\ posts[p].status = "none" /\ posts[Parent[p]].status = "live"
  BY <1>1 DEF PostInv, Knows, KnowsNew, Creations
<1>3. CASE Reject(pr, FALSE)
  BY <1>3, RejectKeeps
<1>4. CASE /\ posts' = [Insert(p) EXCEPT ![Parent[p]].answers = @ + 1]
           /\ CommitAndGoOn(pr, award) /\ UNCHANGED <<upVotes, downVotes, reviews>>
  <2>1. Goto(pr, "committed") /\ points' = AddTo(points, CreationAward(p))
    BY <1>2, <1>4, Kinds DEF CommitAndGoOn, CreationAward
  <2>2. Parent[p] # p /\ Parent[p] \in Post /\ p \in Post /\ p \notin Comment
    BY <1>2, Kinds
  <2>3. /\ Insert(p)[p] = [BlankRow EXCEPT !.status = "live"]
        /\ \A q \in Post : q # p => Insert(p)[q] = posts[q]
        /\ Insert(p) \in [Post -> Row]
    BY <2>2, RowsAre, InsertType DEF Insert, PostInv
  <2>4. /\ posts'[p] = [BlankRow EXCEPT !.status = "live"]
        /\ posts'[Parent[p]] = [posts[Parent[p]] EXCEPT !.answers = @ + 1]
        /\ \A q \in Post : q # p /\ q # Parent[p] => posts'[q] = posts[q]
    BY <1>4, <2>2, <2>3
  <2>5. OthersKept(p, 1)
    <3> SUFFICES ASSUME NEW q \in Post, q # p
                 PROVE  /\ posts'[q].status = posts[q].status /\ posts'[q].best = posts[q].best
                        /\ posts'[q].up = posts[q].up /\ posts'[q].down = posts[q].down
                        /\ posts'[q].points = posts[q].points /\ posts'[q].flags = posts[q].flags
                        /\ posts'[q].answers
                             = posts[q].answers + IF p \in Answer /\ q = Parent[p] THEN 1 ELSE 0
                        /\ posts[q].status = "none" => posts'[q] = posts[q]
      BY DEF OthersKept
    <3>1. posts[q] \in Row /\ posts[q].answers \in Int
      BY RowsAre DEF PostInv
    <3>2. CASE q = Parent[p]
      BY <1>2, <2>4, <3>1, <3>2 DEF Row
    <3>3. CASE q # Parent[p]
      BY <2>4, <3>1, <3>3
    <3> QED BY <3>2, <3>3
  <2>6. Appears(p)
    BY <1>2, <1>4, <2>4, <2>5 DEF Appears
  <2> QED BY <1>1, <1>4, <2>1, <2>6, CreationKeeps DEF Creations
<1>5. CASE RollBack(pr, award) /\ UNCHANGED reviews
  BY <1>5, RollBackKeeps
<1> QED BY <1>3, <1>4, <1>5 DEF saveAnswer, Target

LEMMA InsertCommentKeeps ==
  ASSUME NEW pr, Alone(pr), PostInv(pr), TypeOK', InsertComment(pr)
  PROVE  PostInv(pr)'
<1> DEFINE p == request[pr].post
<1>1. request[pr].op = "createComment" /\ request[pr].phase = "read"
  BY DEF InsertComment, In
<1>2. p \in Comment /\ posts[p].status = "none"
  BY <1>1 DEF PostInv, Knows, KnowsNew, Creations
<1>3. CASE Reject(pr, FALSE)
  BY <1>3, RejectKeeps
<1>4. CASE posts' = Insert(p) /\ CommitAndGoOn(pr, NoAward) /\ UNCHANGED <<upVotes, downVotes, reviews>>
  <2>1. Goto(pr, "committed") /\ points' = AddTo(points, CreationAward(p))
    BY <1>2, <1>4, Kinds DEF CommitAndGoOn, CreationAward
  <2>2. Appears(p)
    BY <1>2, <1>4, Kinds, RowsAre DEF Appears, OthersKept, Insert, PostInv
  <2> QED BY <1>1, <1>4, <2>1, <2>2, CreationKeeps DEF Creations
<1> QED BY <1>3, <1>4 DEF InsertComment, Target

(* Steps that only touch the reviews of a post.                            *)
LEMMA ReviewsMove ==
  ASSUME TypeOK, TypeOK', TablesKept, UNCHANGED <<posts, upVotes, downVotes, points>>,
         SameFlags, StillDecided
  PROVE  TablesKept'
BY TablesStay DEF SameStatus, SameBest, SameAnswers, SameCounters, SameVotes

LEMMA CreateSystemReviewKeeps ==
  ASSUME NEW pr, Alone(pr), PostInv(pr), TypeOK', CreateSystemReview(pr)
  PROVE  PostInv(pr)'
<1> DEFINE p == request[pr].post
<1>1. request[pr].op \in Creations /\ request[pr].phase = "committed"
  BY DEF CreateSystemReview, In, Creations
<1>2. posts[p].status = "live" /\ p \in Post
  BY <1>1, TheRequest DEF PostInv, Knows, KnowsNew, Alone
<1>3. \A k \in ReviewKey : k # System(p) => reviews'[k] = reviews[k]
  BY DEF CreateSystemReview, Target, PostInv, TypeOK
<1>4. SameFlags
  BY <1>2, <1>3, FlagsDiffer DEF SameFlags
<1>5. StillDecided
  <2>1. System(p)[3] = p
    BY DEF System
  <2>2. ASSUME NEW q \in Post, posts[q].status = "deleted", NEW k \in ReviewsOf(q)
        PROVE  reviews'[k] = reviews[k]
    <3>1. k \in ReviewKey /\ k[3] = q /\ q # p
      BY <1>2, <2>2 DEF ReviewsOf
    <3>2. k # System(p)
      BY <2>1, <3>1
    <3> QED BY <1>3, <3>1, <3>2
  <2> QED BY <2>2 DEF StillDecided
<1>6. TablesKept' /\ Finish(pr)
  BY <1>4, <1>5, ReviewsMove DEF CreateSystemReview, PostInv
<1> QED BY <1>6, EndKeeps DEF PostInv

(* Editing.                                                                *)
LEMMA UpdateKeeps ==
  ASSUME NEW pr, Alone(pr), PostInv(pr), TypeOK', update(pr)
  PROVE  PostInv(pr)'
<1> DEFINE r == request[pr]
           p == r.post
<1>1. r.op = "update" /\ r.phase = "read" /\ p \in Post
  BY TheRequest DEF update, In, Alone, PostInv
<1>2. posts[p].status = "live" /\ r.row = posts[p]
  BY <1>1 DEF PostInv, Knows, KnowsPost, Creations
<1>3. CASE Reject(pr, FALSE)
  BY <1>3, RejectKeeps
<1>4. CASE /\ posts' = [posts EXCEPT ![p] = [r.row EXCEPT !.content = r.content]]
           /\ Goto(pr, "committed") /\ UNCHANGED <<upVotes, downVotes, reviews, points>>
  <2>1. \A q \in Post :
          /\ posts'[q].status = posts[q].status /\ posts'[q].best = posts[q].best
          /\ posts'[q].up = posts[q].up /\ posts'[q].down = posts[q].down
          /\ posts'[q].points = posts[q].points /\ posts'[q].flags = posts[q].flags
          /\ posts'[q].answers = posts[q].answers
          /\ posts[q].status = "none" => posts'[q] = posts[q]
    BY <1>1, <1>2, <1>4, RowsAre DEF Row, PostInv
  <2>2. TablesKept'
    BY <1>4, <2>1, TablesStay
       DEF PostInv, SameStatus, SameBest, SameAnswers, SameCounters, SameVotes, SameFlags, StillDecided
  <2>3. request'[pr].phase = "committed" /\ request'[pr].op = "update"
    BY <1>1, <1>4, Committed
  <2>4. Knows(request[pr])'
    BY <2>3 DEF Knows, KnowsNew, KnowsPost, KnowsVote, KnowsLeaf, Creations, Deletes
  <2> QED BY <2>2, <2>4 DEF PostInv
<1> QED BY <1>3, <1>4 DEF update

LEMMA InsertRevisionKeeps ==
  ASSUME NEW pr, Alone(pr), PostInv(pr), TypeOK', InsertRevision(pr)
  PROVE  PostInv(pr)'
<1>1. TablesKept'
  BY TablesSame DEF InsertRevision, PostInv
<1> QED BY <1>1, EndKeeps DEF InsertRevision, PostInv

(* Deletion.                                                               *)
LEMMA InvalidationKeeps ==
  ASSUME NEW pr, Alone(pr), PostInv(pr), TypeOK', NEW p, NEW award, RollBack(pr, award),
         invalidateReviewsForPost(p)
  PROVE  PostInv(pr)'
<1>1. SameFlags /\ StillDecided
  BY InvalidateKeepsFlags DEF PostInv
<1>2. TablesKept'
  BY <1>1, ReviewsMove DEF RollBack, PostInv
<1> QED BY <1>2, EndKeeps DEF RollBack, PostInv

LEMMA DeletionKeeps ==
  ASSUME NEW pr, Alone(pr), PostInv(pr), TypeOK', NEW p, p = request[pr].post,
         request[pr].phase = "read", request[pr].op \in Deletes, Disappears(p),
         Deleted(pr, DeletionAward(p))
  PROVE  PostInv(pr)'
<1> DEFINE r == request[pr]
<1>1. p \in Post /\ r.op \in Ops /\ Knows(r)
  BY TheRequest DEF Alone, PostInv
<1>2. "complete" \notin Ops => /\ Under(Answer \cup Comment, p) = {}
                               /\ p \in Answer => posts[Parent[p]].best # p
  BY <1>1 DEF Knows, KnowsLeaf, Deletes
<1>3. TablesKept'
  BY <1>1, <1>2, DisappearsMoves DEF Deleted, PostInv, SameVotes
<1>4. CASE Finish(pr)
  BY <1>3, <1>4, EndKeeps DEF PostInv
<1>5. CASE r.op = "complete" /\ Goto(pr, "committed")
  <2>1. request'[pr].phase = "committed" /\ request'[pr].op = "complete"
    BY <1>5, Committed
  <2>2. Knows(request[pr])'
    BY <2>1 DEF Knows, KnowsNew, KnowsPost, KnowsVote, KnowsLeaf, Creations, Deletes
  <2> QED BY <1>3, <2>2 DEF PostInv
<1> QED BY <1>4, <1>5 DEF Deleted

LEMMA DeleteQuestionKeeps ==
  ASSUME NEW pr, Alone(pr), PostInv(pr), TypeOK', deleteQuestion(pr)
  PROVE  PostInv(pr)'
<1> DEFINE p == request[pr].post
           award == Award(Author[p], -ForCreateQuestion)
<1>1. request[pr].op \in Deletes /\ request[pr].phase = "read" /\ p \in Question
  BY DEF deleteQuestion, Deletion, In, Target
<1>2. posts[p].status = "live" /\ p \in Post
  BY <1>1, Kinds DEF PostInv, Knows, KnowsPost, Creations, Deletes
<1>3. CASE Reject(pr, FALSE)
  BY <1>3, RejectKeeps
<1>4. CASE /\ posts' = [posts EXCEPT ![p].status = "deleted"]
           /\ invalidateReviewsForPost(p) /\ Deleted(pr, award)
  <2>1. award = DeletionAward(p)
    BY <1>1, Kinds DEF DeletionAward, ForCreateQuestion
  <2>2. Disappears(p)
    BY <1>1, <1>2, <1>4, Kinds, RowsAre DEF Disappears, OthersKept, PostInv, Row
  <2> QED BY <1>1, <1>4, <2>1, <2>2, DeletionKeeps
<1>5. CASE RollBack(pr, award) /\ invalidateReviewsForPost(p)
  BY <1>5, InvalidationKeeps
<1> QED BY <1>3, <1>4, <1>5 DEF deleteQuestion, Target

LEMMA DeleteCommentKeeps ==
  ASSUME NEW pr, Alone(pr), PostInv(pr), TypeOK', deleteComment(pr)
  PROVE  PostInv(pr)'
<1> DEFINE p == request[pr].post
<1>1. request[pr].op \in Deletes /\ request[pr].phase = "read" /\ p \in Comment
  BY DEF deleteComment, Deletion, In, Target
<1>2. posts[p].status = "live" /\ p \in Post
  BY <1>1, Kinds DEF PostInv, Knows, KnowsPost, Creations, Deletes
<1>3. CASE Reject(pr, FALSE)
  BY <1>3, RejectKeeps
<1>4. CASE /\ posts' = [posts EXCEPT ![p].status = "deleted"]
           /\ invalidateReviewsForPost(p) /\ Deleted(pr, NoAward)
  <2>1. NoAward = DeletionAward(p)
    BY <1>1 DEF DeletionAward
  <2>2. Disappears(p)
    BY <1>1, <1>2, <1>4, Kinds, RowsAre DEF Disappears, OthersKept, PostInv, Row
  <2> QED BY <1>1, <1>4, <2>1, <2>2, DeletionKeeps
<1>5. CASE RollBack(pr, NoAward) /\ invalidateReviewsForPost(p)
  BY <1>5, InvalidationKeeps
<1> QED BY <1>3, <1>4, <1>5 DEF deleteComment, Target

LEMMA DeleteAnswerKeeps ==
  ASSUME NEW pr, Alone(pr), PostInv(pr), TypeOK', deleteAnswer(pr)
  PROVE  PostInv(pr)'
<1> DEFINE p == request[pr].post
           award == Award(Author[p], -ForCreateAnswer)
<1>1. request[pr].op \in Deletes /\ request[pr].phase = "read" /\ p \in Answer
  BY DEF deleteAnswer, Deletion, In, Target
<1>2. posts[p].status = "live" /\ posts[Parent[p]].status = "live"
  BY <1>1 DEF PostInv, Knows, KnowsPost, KnowsLeaf, Creations, Deletes
<1>3. CASE Reject(pr, FALSE)
  BY <1>3, RejectKeeps
<1>4. CASE /\ posts' = [posts EXCEPT ![p].status = "deleted", ![Parent[p]].answers = @ - 1]
           /\ invalidateReviewsForPost(p) /\ Deleted(pr, award)
  <2>1. award = DeletionAward(p)
    BY <1>1, Kinds DEF DeletionAward, ForCreateAnswer
  <2>2. Parent[p] # p /\ Parent[p] \in Post /\ p \in Post
    BY <1>1, Kinds
  <2>3. posts \in [Post -> Row]
    BY RowsAre DEF PostInv
  <2>4. /\ posts'[p] = [posts[p] EXCEPT !.status = "deleted"]
        /\ posts'[Parent[p]] = [posts[Parent[p]] EXCEPT !.answers = @ - 1]
        /\ \A q \in Post : q # p /\ q # Parent[p] => posts'[q] = posts[q]
    BY <1>4, <2>2, <2>3
  <2>5. OthersKept(p, -1)
    <3> SUFFICES ASSUME NEW q \in Post, q # p
                 PROVE  /\ posts'[q].status = posts[q].status /\ posts'[q].best = posts[q].best
                        /\ posts'[q].up = posts[q].up /\ posts'[q].down = posts[q].down
                        /\ posts'[q].points = posts[q].points /\ posts'[q].flags = posts[q].flags
                        /\ posts'[q].answers
                             = posts[q].answers + IF p \in Answer /\ q = Parent[p] THEN -1 ELSE 0
                        /\ posts[q].status = "none" => posts'[q] = posts[q]
      BY DEF OthersKept
    <3>1. posts[q] \in Row /\ posts[q].answers \in Int
      BY RowsAre DEF PostInv
    <3>2. CASE q = Parent[p]
      BY <1>1, <1>2, <2>4, <3>1, <3>2 DEF Row
    <3>3. CASE q # Parent[p]
      BY <2>4, <3>1, <3>3
    <3> QED BY <3>2, <3>3
  <2>6. Disappears(p)
    <3>1. posts[p] \in Row
      BY <2>2, <2>3
    <3>2. /\ posts'[p].status = "deleted" /\ posts'[p].best = posts[p].best
          /\ posts'[p].answers = posts[p].answers
          /\ posts'[p].up = posts[p].up /\ posts'[p].down = posts[p].down
          /\ posts'[p].points = posts[p].points /\ posts'[p].flags = posts[p].flags
      BY <2>4, <3>1 DEF Row
    <3> QED BY <1>2, <1>4, <2>5, <3>2 DEF Disappears
  <2> QED BY <1>1, <1>4, <2>1, <2>6, DeletionKeeps
<1>5. CASE RollBack(pr, award) /\ invalidateReviewsForPost(p)
  BY <1>5, InvalidationKeeps
<1> QED BY <1>3, <1>4, <1>5 DEF deleteAnswer, Target

(* The best answer; locking and protecting.                                *)
LEMMA SelectBestAnswerKeeps ==
  ASSUME NEW pr, Alone(pr), PostInv(pr), TypeOK', selectBestAnswer(pr)
  PROVE  PostInv(pr)'
<1> DEFINE p == request[pr].post
<1>1. request[pr].op = "selectBest" /\ request[pr].phase = "read"
  BY DEF selectBestAnswer, In
<1>2. p \in Answer
  BY <1>1, TheRequest DEF Alone, PostInv
<1>3. /\ posts[p].status = "live" /\ posts[Parent[p]].status = "live"
      /\ posts[Parent[p]].best = None
  BY <1>1 DEF PostInv, Knows, KnowsPost, Creations
<1>4. CASE Reject(pr, FALSE)
  BY <1>4, RejectKeeps
<1>5. CASE /\ posts' = [posts EXCEPT ![Parent[p]].best = p] /\ Commit(pr, ChoiceAward(p))
           /\ UNCHANGED <<upVotes, downVotes, reviews>>
  <2>1. TablesKept' /\ Finish(pr)
    BY <1>2, <1>3, <1>5, ChoiceMoves DEF Commit, PostInv
  <2> QED BY <2>1, EndKeeps DEF PostInv
<1>6. CASE RollBack(pr, ChoiceAward(p)) /\ UNCHANGED reviews
  BY <1>6, RollBackKeeps
<1> QED BY <1>4, <1>5, <1>6 DEF selectBestAnswer, Target, ChoiceAward

LEMMA SetFlagKeeps ==
  ASSUME NEW pr, Alone(pr), PostInv(pr), TypeOK', NEW op, NEW newPosts, SetFlag(pr, op, newPosts),
         request[pr].op \notin Creations,
         \A q \in Post :
           /\ newPosts[q].status = posts[q].status /\ newPosts[q].best = posts[q].best
           /\ newPosts[q].up = posts[q].up /\ newPosts[q].down = posts[q].down
           /\ newPosts[q].points = posts[q].points /\ newPosts[q].flags = posts[q].flags
           /\ newPosts[q].answers = posts[q].answers
           /\ posts[q].status = "none" => newPosts[q] = posts[q]
  PROVE  PostInv(pr)'
<1>1. CASE Reject(pr, FALSE)
  BY <1>1, RejectKeeps
<1>2. CASE posts' = newPosts /\ Commit(pr, NoAward) /\ UNCHANGED <<upVotes, downVotes, reviews>>
  <2>1. points' = points
    <3>1. \A u \in User : points[u] + NoAward[u] = points[u]
      BY AwardIs DEF PostInv, TypeOK
    <3> QED BY <1>2, <3>1 DEF Commit, AddTo, PostInv, TypeOK
  <2>2. TablesKept'
    BY <1>2, <2>1, TablesStay
       DEF PostInv, SameStatus, SameBest, SameAnswers, SameCounters, SameVotes, SameFlags, StillDecided
  <2> QED BY <1>2, <2>2, EndKeeps DEF Commit, PostInv
<1> QED BY <1>1, <1>2 DEF SetFlag

LEMMA SetFlagsKeep ==
  ASSUME NEW pr, Alone(pr), PostInv(pr), TypeOK',
         SetLockedAt(pr) \/ ClearLockedAt(pr) \/ SetProtectedAt(pr) \/ ClearProtectedAt(pr)
  PROVE  PostInv(pr)'
<1> DEFINE p == request[pr].post
           Kept(newPosts) == \A q \in Post :
             /\ newPosts[q].status = posts[q].status /\ newPosts[q].best = posts[q].best
             /\ newPosts[q].up = posts[q].up /\ newPosts[q].down = posts[q].down
             /\ newPosts[q].points = posts[q].points /\ newPosts[q].flags = posts[q].flags
             /\ newPosts[q].answers = posts[q].answers
             /\ posts[q].status = "none" => newPosts[q] = posts[q]
<1>1. request[pr].op \in {"lock", "cancelLock", "protect", "cancelProtect"} /\ request[pr].phase = "read"
  BY DEF SetLockedAt, ClearLockedAt, SetProtectedAt, ClearProtectedAt, SetFlag, In
<1>2. p \in Post /\ posts[p].status = "live" /\ request[pr].op \notin Creations
  BY <1>1, TheRequest DEF PostInv, Knows, KnowsPost, Creations, Alone
<1>3. /\ Kept([posts EXCEPT ![p].locked = TRUE]) /\ Kept([posts EXCEPT ![p].locked = FALSE])
      /\ Kept([posts EXCEPT ![p].protected = TRUE]) /\ Kept([posts EXCEPT ![p].protected = FALSE])
  BY <1>2, RowsAre DEF PostInv, Row
<1>4. ASSUME NEW op, NEW newPosts, SetFlag(pr, op, newPosts), Kept(newPosts)
      PROVE  PostInv(pr)'
  BY <1>2, <1>4, SetFlagKeeps
<1> HIDE DEF Kept
<1>5. CASE SetLockedAt(pr)
  BY <1>3, <1>4, <1>5 DEF SetLockedAt, Target
<1>6. CASE ClearLockedAt(pr)
  BY <1>3, <1>4, <1>6 DEF ClearLockedAt, Target
<1>7. CASE SetProtectedAt(pr)
  BY <1>3, <1>4, <1>7 DEF SetProtectedAt, Target
<1>8. CASE ClearProtectedAt(pr)
  BY <1>3, <1>4, <1>8 DEF ClearProtectedAt, Target
<1> QED BY <1>5, <1>6, <1>7, <1>8

(* The requests of the life of a post, and what they read.                 *)
LEMMA NothingUnder ==
  ASSUME NEW pr, Alone(pr), NEW p, GetChildPostsCount(p) = 0
  PROVE  Under(Answer \cup Comment, p) = {}
<1> DEFINE C == {c \in Answer \cup Comment : Parent[c] = p /\ GetSingle(c)}
<1>1. C \in SUBSET Post
  BY Kinds
<1>2. C = {}
  BY <1>1, Finite, FS_EmptySet DEF GetChildPostsCount
<1>3. \A c \in Under(Answer \cup Comment, p) : c \in C
  BY ViewIs, Kinds DEF Alone, Under, Live
<1> QED BY <1>2, <1>3

LEMMA AcceptDelete ==
  ASSUME NEW pr, Alone(pr), PostInv(pr), TypeOK', NEW u \in User, NEW p \in Post, DeletePost(pr, u, p)
  PROVE  PostInv(pr)'
<1>1. Under(Answer \cup Comment, p) = {}
  <2>1. CASE p \in Comment
    BY <2>1, Kinds DEF Under, Live
  <2>2. CASE p \notin Comment
    BY <2>2, NothingUnder DEF DeletePost
  <2> QED BY <2>1, <2>2
<1>2. p \in Answer => posts[Parent[p]].best # p
  BY ViewIs DEF DeletePost, Alone
<1>3. Accept(pr, "delete", u, p)
  BY DEF DeletePost
<1> QED BY <1>1, <1>2, <1>3, AcceptKeeps DEF Creations

LEMMA LifeRequestsKeep ==
  ASSUME NEW pr, Alone(pr), PostInv(pr), TypeOK', NEW u \in User, NEW p \in Post,
         \/ CreateQuestion(pr, p) \/ CreateAnswer(pr, p) \/ CreateComment(pr, p)
         \/ UpdatePost(pr, u, p) \/ DeletePost(pr, u, p) \/ SelectBestAnswer(pr, u, p)
         \/ LockPost(pr, u, p)    \/ CancelLockPost(pr, u, p)
         \/ ProtectPost(pr, u, p) \/ CancelProtectPost(pr, u, p)
  PROVE  PostInv(pr)'
<1>1. CASE CreateQuestion(pr, p)
  BY <1>1, AcceptKeeps DEF CreateQuestion, Fresh, Creations
<1>2. CASE CreateAnswer(pr, p)
  BY <1>2, AcceptKeeps, ViewIs DEF CreateAnswer, Fresh, Creations, Alone
<1>3. CASE CreateComment(pr, p)
  BY <1>3, AcceptKeeps, ViewIs DEF CreateComment, Fresh, Creations, Alone
<1>4. CASE DeletePost(pr, u, p)
  BY <1>4, AcceptDelete
<1>5. CASE \/ UpdatePost(pr, u, p) \/ SelectBestAnswer(pr, u, p)
           \/ LockPost(pr, u, p)    \/ CancelLockPost(pr, u, p)
           \/ ProtectPost(pr, u, p) \/ CancelProtectPost(pr, u, p)
  <2>1. \E op \in Plain : Accept(pr, op, u, p)
    BY <1>5 DEF Plain, UpdatePost, SelectBestAnswer, LockPost, CancelLockPost, ProtectPost,
                CancelProtectPost
  <2> QED BY <2>1, AcceptPlain
<1> QED BY <1>1, <1>2, <1>3, <1>4, <1>5

LEMMA LifeReadsKeep ==
  ASSUME NEW pr, Alone(pr), PostInv(pr), TypeOK',
         \/ SaveAnswer(pr) \/ SaveComment(pr) \/ ReadForDelete(pr) \/ ReadForSelectBest(pr)
         \/ ReadForLock(pr) \/ ReadForCancelLock(pr)
         \/ ReadForProtect(pr) \/ ReadForCancelProtect(pr)
  PROVE  PostInv(pr)'
<1> DEFINE p == request[pr].post
<1>1. CASE SaveAnswer(pr)
  <2>1. Read(pr, "createAnswer", GetSingle(Parent[p]), BlankRow)
    BY <1>1 DEF SaveAnswer, Target
  <2>2. GetSingle(Parent[p]) => Found(request[pr], BlankRow)
    BY <2>1 DEF Found, Read, In, Creations, Deletes
  <2> QED BY <2>1, <2>2, ReadKeeps
<1>2. CASE SaveComment(pr)
  <2> DEFINE found == Cardinality(CommentsOf(Parent[p])) < CommentLimit
  <2>1. Read(pr, "createComment", found, BlankRow)
    BY <1>2 DEF SaveComment, Target
  <2>2. CommentsOf(Parent[p]) = Under(Comment, Parent[p])
    BY ViewIs, Kinds DEF Alone, CommentsOf, Under, Live
  <2>3. found => Found(request[pr], BlankRow)
    BY <2>1, <2>2 DEF Found, Read, In, Creations, Deletes
  <2> HIDE DEF found
  <2> QED BY <2>1, <2>3, ReadKeeps
<1>3. CASE ReadForDelete(pr)
  <2> DEFINE found == GetSingle(p) /\ (p \in Answer => GetSingle(Parent[p]))
  <2>1. PICK op \in Deletes : Read(pr, op, found, BlankRow)
    BY <1>3 DEF ReadForDelete, Target
  <2>2. found => Found(request[pr], BlankRow)
    BY <2>1, ViewIs DEF Found, Read, In, Creations, Deletes, Alone
  <2> HIDE DEF found
  <2> QED BY <2>1, <2>2, ReadKeeps
<1>4. CASE ReadForSelectBest(pr)
  <2> DEFINE found == /\ GetSingle(Parent[p]) /\ View.posts[Parent[p]].best = None
                      /\ GetSingle(p)
  <2>1. Read(pr, "selectBest", found, BlankRow)
    BY <1>4 DEF ReadForSelectBest, Target
  <2>2. found => Found(request[pr], BlankRow)
    BY <2>1, ViewIs DEF Found, Read, In, Creations, Deletes, Alone
  <2> HIDE DEF found
  <2> QED BY <2>1, <2>2, ReadKeeps
<1>5. CASE \/ ReadForLock(pr) \/ ReadForCancelLock(pr)
           \/ ReadForProtect(pr) \/ ReadForCancelProtect(pr)
  <2>1. \E op \in ReadPlain : Read(pr, op, GetSingle(p), BlankRow)
    BY <1>5 DEF ReadPlain, ReadForLock, ReadForCancelLock, ReadForProtect, ReadForCancelProtect, Target
  <2> QED BY <2>1, ReadPlainKeeps
<1> QED BY <1>1, <1>2, <1>3, <1>4, <1>5

LEMMA ReadForUpdateKeeps ==
  ASSUME NEW pr, Alone(pr), PostInv(pr), TypeOK', ReadForUpdate(pr)
  PROVE  PostInv(pr)'
<1> DEFINE r == request[pr]
           s == [r EXCEPT !.phase = "read", !.row = View.posts[r.post], !.content = served]
<1>1. /\ r.phase = "checked" /\ r.op = "update"
      /\ UNCHANGED <<posts, upVotes, downVotes, reviews, points>>
      /\ request'[pr] = IF GetSingle(r.post) THEN s ELSE Idle
  BY DEF ReadForUpdate, In, tables, Target, Alone, PostInv, TypeOK
<1>2. r \in InFlight
  BY <1>1, InFlightType DEF Alone, PostInv
<1>3. /\ s.phase = "read" /\ s.op = r.op /\ s.user = r.user /\ s.post = r.post
      /\ s.row = View.posts[r.post]
  BY <1>2 DEF InFlight
<1>4. Knows(r)
  BY DEF PostInv
<1>5. GetSingle(r.post) => Found(r, View.posts[r.post])
  BY <1>1, ViewIs DEF Found, Creations, Deletes, Alone
<1> HIDE DEF r, s
<1>6. GetSingle(r.post) => Knows(s)
  BY <1>1, <1>3, <1>4, <1>5, FoundKnows
<1>7. TablesKept'
  BY <1>1, TablesSame DEF PostInv
<1>8. CASE GetSingle(r.post)
  BY <1>1, <1>6, <1>7, <1>8, KnowsSame DEF PostInv
<1>9. CASE ~GetSingle(r.post)
  BY <1>1, <1>7, <1>9, IdleKnows DEF PostInv
<1> QED BY <1>8, <1>9

LEMMA LifecycleNextKeeps ==
  ASSUME NEW pr, Alone(pr), PostInv(pr), TypeOK', LifecycleNext
  PROVE  PostInv(pr)'
<1>1. ASSUME NEW p \in Post, CreateQuestion(pr, p) \/ CreateAnswer(pr, p) \/ CreateComment(pr, p)
      PROVE  PostInv(pr)'
  <2>1. Author[p] \in User
    BY AuthorType
  <2> QED BY <1>1, <2>1, LifeRequestsKeep
<1>2. ASSUME NEW u \in User, NEW p \in Post,
             \/ UpdatePost(pr, u, p) \/ DeletePost(pr, u, p) \/ SelectBestAnswer(pr, u, p)
             \/ LockPost(pr, u, p)    \/ CancelLockPost(pr, u, p)
             \/ ProtectPost(pr, u, p) \/ CancelProtectPost(pr, u, p)
      PROVE  PostInv(pr)'
  BY <1>2, LifeRequestsKeep
<1>3. CASE \/ SaveAnswer(pr) \/ SaveComment(pr) \/ ReadForDelete(pr) \/ ReadForSelectBest(pr)
           \/ ReadForLock(pr) \/ ReadForCancelLock(pr)
           \/ ReadForProtect(pr) \/ ReadForCancelProtect(pr)
  BY <1>3, LifeReadsKeep
<1>4. CASE \/ ReadForUpdate(pr) \/ update(pr) \/ InsertRevision(pr)
           \/ saveQuestion(pr) \/ saveAnswer(pr) \/ InsertComment(pr) \/ CreateSystemReview(pr)
           \/ deleteQuestion(pr) \/ deleteAnswer(pr) \/ deleteComment(pr) \/ selectBestAnswer(pr)
           \/ SetLockedAt(pr) \/ ClearLockedAt(pr) \/ SetProtectedAt(pr) \/ ClearProtectedAt(pr)
  BY <1>4, ReadForUpdateKeeps, UpdateKeeps, InsertRevisionKeeps, SaveQuestionKeeps, SaveAnswerKeeps,
     InsertCommentKeeps, CreateSystemReviewKeeps, DeleteQuestionKeeps, DeleteAnswerKeeps,
     DeleteCommentKeeps, SelectBestAnswerKeeps, SetFlagsKeep
<1> QED BY <1>1, <1>2, <1>3, <1>4 DEF LifecycleNext, Alone

(* Reviews.                                                                *)
LEMMA CloseKeepsFlags ==
  ASSUME TypeOK, NEW p, NEW state \in {"rejected", "completed"}, reviews' = Close(p, state)
  PROVE  SameFlags /\ StillDecided
<1>1. \A k \in ReviewKey :
        reviews'[k] = IF k \in ReviewsOf(p) /\ reviews[k] = "pending" THEN state ELSE reviews[k]
  BY DEF Close
<1>2. \A q : ReviewsOf(q) \subseteq ReviewKey
  BY DEF ReviewsOf
<1> QED BY <1>1, <1>2, FlagsDiffer DEF SameFlags, StillDecided

LEMMA InsertReviewKeeps ==
  ASSUME NEW pr, Alone(pr), PostInv(pr), TypeOK', InsertReview(pr)
  PROVE  PostInv(pr)'
<1> DEFINE p == request[pr].post
<1>1. request[pr].op = "review" /\ request[pr].phase = "checked"
  BY DEF InsertReview, In
<1>2. posts[p].status = "live" /\ p \in Post
  BY <1>1, TheRequest DEF PostInv, Knows, KnowsPost, Alone
<1>3. CASE Reject(pr, reviews[Review(p)] # "none")
  BY <1>3, RejectKeeps
<1>4. CASE /\ reviews' = [reviews EXCEPT ![Review(p)] = "pending"] /\ Finish(pr)
           /\ UNCHANGED <<posts, upVotes, downVotes, points>>
  <2>1. \A k \in ReviewKey : k # Review(p) => reviews'[k] = reviews[k]
    BY <1>4 DEF PostInv, TypeOK
  <2>2. SameFlags
    BY <1>2, <2>1, FlagsDiffer DEF SameFlags
  <2>3. Review(p)[3] = p
    BY DEF Review
  <2>4. ASSUME NEW q \in Post, posts[q].status = "deleted", NEW k \in ReviewsOf(q)
        PROVE  reviews'[k] = reviews[k]
    <3>1. k \in ReviewKey /\ k[3] = q /\ q # p
      BY <1>2, <2>4 DEF ReviewsOf
    <3>2. k # Review(p)
      BY <2>3, <3>1
    <3> QED BY <2>1, <3>1, <3>2
  <2>5. StillDecided
    BY <2>4 DEF StillDecided
  <2>6. TablesKept'
    BY <1>4, <2>2, <2>5, ReviewsMove DEF PostInv
  <2> QED BY <1>4, <2>6, EndKeeps DEF PostInv
<1> QED BY <1>3, <1>4 DEF InsertReview, Target

LEMMA CloseReviewsKeep ==
  ASSUME NEW pr, Alone(pr), PostInv(pr), TypeOK', RejectReviews(pr) \/ CompleteReviews(pr)
  PROVE  PostInv(pr)'
<1>1. CASE Reject(pr, FALSE)
  BY <1>1, RejectKeeps
<1>2. ASSUME NEW state \in {"rejected", "completed"}, reviews' = Close(Target(pr), state), Finish(pr),
             UNCHANGED <<posts, upVotes, downVotes, points>>
      PROVE  PostInv(pr)'
  <2>1. TablesKept'
    BY <1>2, CloseKeepsFlags, ReviewsMove DEF PostInv
  <2> QED BY <1>2, <2>1, EndKeeps DEF PostInv
<1> QED BY <1>1, <1>2 DEF RejectReviews, CompleteReviews

LEMMA ReviewNextKeeps ==
  ASSUME NEW pr, Alone(pr), PostInv(pr), TypeOK', ReviewNext
  PROVE  PostInv(pr)'
<1>1. ASSUME NEW u \in User, NEW p \in Post,
             CreateReviewVote(pr, u, p) \/ RejectReviewsForPost(pr, u, p)
      PROVE  PostInv(pr)'
  <2>1. posts[p].status = "live"
    BY <1>1, ViewIs DEF CreateReviewVote, RejectReviewsForPost, Alone
  <2>2. \E op \in {"review", "reject"} : Accept(pr, op, u, p)
    BY <1>1 DEF CreateReviewVote, RejectReviewsForPost
  <2> QED BY <2>1, <2>2, AcceptKeeps DEF Creations
<1>2. ASSUME NEW u \in User, NEW p \in Post, CompleteReviewsForPost(pr, u, p)
      PROVE  PostInv(pr)'
  BY <1>2, AcceptPlain DEF CompleteReviewsForPost, Plain
<1> QED BY <1>1, <1>2, InsertReviewKeeps, CloseReviewsKeep DEF ReviewNext, Alone

----------------------------------------------------------------------------
(* The start.                                                              *)
LEMMA InitRows ==
  ASSUME Init, NEW p \in Post
  PROVE  /\ posts[p].status = IF p \in Born THEN "live" ELSE "none"
         /\ posts[p].answers = Cardinality({a \in Answer \cap Born : Parent[a] = p})
         /\ posts[p].up = 0 /\ posts[p].down = 0 /\ posts[p].points = 0 /\ posts[p].flags = 0
         /\ posts[p].best = None
         /\ p \notin Born => posts[p] = BlankRow
<1>1. posts[p] = [BlankRow EXCEPT !.status = IF p \in Born THEN "live" ELSE "none",
                                  !.answers = Cardinality({a \in Answer \cap Born : Parent[a] = p})]
  BY DEF Init
<1>2. ASSUME p \notin Born PROVE posts[p] = BlankRow
  <2>1. {a \in Answer \cap Born : Parent[a] = p} = {}
    BY <1>2, BornAssumption, Kinds
  <2>2. Cardinality({a \in Answer \cap Born : Parent[a] = p}) = 0
    BY <2>1, FS_EmptySet
  <2> QED BY <1>1, <1>2, <2>2 DEF BlankRow
<1> QED BY <1>1, <1>2 DEF BlankRow

LEMMA InitLive ==
  ASSUME Init, NEW S \in SUBSET Post
  PROVE  Live(S) = S \cap Born
BY InitRows DEF Live

LEMMA InitDeeds ==
  ASSUME Init, NEW u \in User
  PROVE  points[u] = Deeds(u)
<1>1. By(u, Live(Question)) = BornBy(u, Question)
  BY InitLive, Kinds DEF By, BornBy
<1>2. By(u, Live(Answer \ SelfAnswers)) = {a \in BornBy(u, Answer) : ~SelfAnswer(a)}
  <2>1. Live(Answer \ SelfAnswers) = (Answer \ SelfAnswers) \cap Born
    BY InitLive, Kinds
  <2> QED BY <2>1 DEF By, BornBy, SelfAnswers
<1>3. {a \in By(u, SelfAnswers) : posts[a].status = "deleted"} = {}
  BY InitRows, Kinds DEF By, SelfAnswers
<1>4. Chosen = {}
  <2>1. ASSUME NEW a \in Answer PROVE posts[Parent[a]].best # a
    <3>1. posts[Parent[a]].best = None
      BY InitRows, Kinds
    <3> QED BY <3>1, Kinds
  <2> QED BY <2>1 DEF Chosen
<1>5. {a \in Chosen : Author[Parent[a]] = u} = {} /\ By(u, Chosen) = {}
  BY <1>4 DEF By
<1>6. VotesEarned(upVotes, u) = {} /\ VotesEarned(downVotes, u) = {}
  BY DEF Init, VotesEarned
<1>7. FlagsReceived(u) = {}
  <2>1. ASSUME NEW f \in User \X Post PROVE reviews[Flag(f[1], f[2])] = "none"
    <3>1. f[1] \in User /\ f[2] \in Post
      BY <2>1
    <3>2. Flag(f[1], f[2]) \in ReviewKey /\ Flag(f[1], f[2])[1] = "flag"
      BY <3>1, FlagsDiffer DEF Flag
    <3> QED BY <3>2 DEF Init
  <2> QED BY <2>1 DEF FlagsReceived
<1>8. points[u] = 3 * Cardinality(BornBy(u, Question))
                  + 3 * Cardinality({a \in BornBy(u, Answer) : ~SelfAnswer(a)})
  BY DEF Init, ForCreateQuestion, ForCreateAnswer
<1>9. /\ Cardinality(BornBy(u, Question)) \in Nat
      /\ Cardinality({a \in BornBy(u, Answer) : ~SelfAnswer(a)}) \in Nat
  BY Finite, Kinds DEF BornBy
<1>10. Deeds(u) = 3 * Cardinality(BornBy(u, Question))
                  + 3 * Cardinality({a \in BornBy(u, Answer) : ~SelfAnswer(a)})
                  - 3 * Cardinality({}) + 3 * Cardinality({}) + 10 * Cardinality({})
                  + 5 * Cardinality({}) + (-3) * Cardinality({}) + (-2) * Cardinality({})
  BY <1>1, <1>2, <1>3, <1>5, <1>6, <1>7
     DEF Deeds, ForCreateQuestion, ForCreateAnswer, ForSelectAnswer, ForSelectedAnswer, ForVoted,
         ForDownVoted, ForFlagged
<1>11. Cardinality({}) = 0
  BY FS_EmptySet
<1> QED BY <1>8, <1>9, <1>10, <1>11

LEMMA InitTables == Init => TablesKept
<1> SUFFICES ASSUME Init PROVE TablesKept
  OBVIOUS
<1>1. upVotes = {} /\ downVotes = {} /\ \A u \in User, p \in Post : reviews[Flag(u, p)] = "none"
  BY FlagsDiffer DEF Init, Flag
<1>2. Untouched
  <2>1. \A p \in Post : posts[p].status = "none" => Blank(p)
    BY <1>1, InitRows DEF Blank
  <2>2. ASSUME NEW c \in Answer \cup Comment, posts[c].status # "none"
        PROVE  posts[Parent[c]].status # "none"
    <3>1. c \in Born \ Question /\ Parent[c] \in Post
      BY <2>2, InitRows, Kinds
    <3> QED BY <3>1, InitRows, BornAssumption
  <2> QED BY <2>1, <2>2 DEF Untouched
<1>3. CountersMatchVotes
  <2>1. ASSUME NEW p \in Post
        PROVE  VotesFor(upVotes, p) = {} /\ VotesFor(downVotes, p) = {} /\ FlagRows(p) = {}
    BY <1>1 DEF VotesFor, FlagRows
  <2>2. Cardinality({}) = 0
    BY FS_EmptySet
  <2>3. ASSUME NEW p \in Post
        PROVE  /\ posts[p].up = Cardinality(VotesFor(upVotes, p))
               /\ posts[p].down = Cardinality(VotesFor(downVotes, p))
               /\ posts[p].points
                    = Cardinality(VotesFor(upVotes, p)) - Cardinality(VotesFor(downVotes, p))
               /\ posts[p].flags = Cardinality(FlagRows(p))
    <3>1. /\ posts[p].up = 0 /\ posts[p].down = 0 /\ posts[p].points = 0 /\ posts[p].flags = 0
      BY InitRows
    <3>2. /\ Cardinality(VotesFor(upVotes, p)) = 0 /\ Cardinality(VotesFor(downVotes, p)) = 0
          /\ Cardinality(FlagRows(p)) = 0
      BY <2>1, <2>2
    <3> QED BY <3>1, <3>2
  <2> QED BY <2>3 DEF CountersMatchVotes
<1>4. AnswersCounted
  <2>1. Live(Answer) = Answer \cap Born
    BY InitLive, Kinds
  <2> QED BY <2>1, InitRows, Kinds DEF AnswersCounted
<1>5. PointsMatchDeeds
  BY InitDeeds DEF PointsMatchDeeds
<1>6. DeletedPostHasNoPendingReview
  BY InitRows DEF DeletedPostHasNoPendingReview
<1>7. CommentLimitKept
  <2>1. Live(Comment) = Comment \cap Born
    BY InitLive, Kinds
  <2> QED BY <2>1, BornAssumption DEF CommentLimitKept
<1>8. NoOrphans
  <2>1. ASSUME NEW c \in Answer \cup Comment, posts[c].status = "live"
        PROVE  posts[Parent[c]].status = "live"
    <3>1. c \in Born \ Question /\ Parent[c] \in Post
      BY <2>1, InitRows, Kinds
    <3> QED BY <3>1, InitRows, BornAssumption
  <2> QED BY <2>1 DEF NoOrphans, Live
<1>9. BestAnswerIsLive
  BY InitRows, Kinds DEF BestAnswerIsLive, Live
<1> QED BY <1>2, <1>3, <1>4, <1>5, <1>6, <1>7, <1>8, <1>9 DEF TablesKept, Hang

LEMMA StepKeeps ==
  ASSUME NEW pr, Alone(pr), PostInv(pr), TypeOK', [Next]_vars
  PROVE  PostInv(pr)'
<1>1. CASE Replicate
  BY <1>1 DEF Replicate, Alone
<1>2. CASE UNCHANGED vars
  <2>1. /\ UNCHANGED <<posts, upVotes, downVotes, reviews, points>>
        /\ request'[pr] = request[pr]
    BY <1>2 DEF vars, tables
  <2>2. TablesKept'
    BY <2>1, TablesSame DEF PostInv
  <2> QED BY <2>1, <2>2, KnowsSame DEF PostInv
<1> QED BY <1>1, <1>2, VoteNextKeeps, LifecycleNextKeeps, ReviewNextKeeps DEF Next

(* While one request is served at a time, on one database, the tables stay *)
(* together, and what a request has read is still so when it writes.       *)
THEOREM TablesKeptTogether ==
  ASSUME NEW pr, Alone(pr)
  PROVE  Spec => []PostInv(pr)
<1>1. Spec => []TypeOK
  BY TypeCorrect
<1>2. Init => PostInv(pr)
  <2> SUFFICES ASSUME Init PROVE PostInv(pr)
    OBVIOUS
  <2>1. request[pr] = Idle
    BY DEF Init, Alone
  <2>2. Knows(request[pr])
    BY <2>1 DEF Knows, Idle
  <2> QED BY <2>2, InitType, InitTables DEF PostInv
<1>3. PostInv(pr) /\ TypeOK' /\ [Next]_vars => PostInv(pr)'
  BY StepKeeps
<1> QED BY <1>1, <1>2, <1>3, PTL DEF Spec

(* The counters of a post are those of its rows in Votes and of its flags, *)
(* also when statements fail: each of upvotePost, cancelUpvotePost and     *)
(* their like changes the row and the counters in one transaction.         *)
THEOREM CountersAreVotes ==
  ASSUME NEW pr, Alone(pr)
  PROVE  Spec => []CountersMatchVotes
<1>1. PostInv(pr) => CountersMatchVotes
  BY DEF PostInv, TablesKept
<1> QED BY <1>1, TablesKeptTogether, PTL

(* AnswerCount of a question counts its live answers: saveAnswer and       *)
(* deleteAnswer move it by one in the transaction that changes them, and   *)
(* an edit of the question writes back the number there is.                *)
THEOREM AnswersAreCounted ==
  ASSUME NEW pr, Alone(pr)
  PROVE  Spec => []AnswersCounted
<1>1. PostInv(pr) => AnswersCounted
  BY DEF PostInv, TablesKept
<1> QED BY <1>1, TablesKeptTogether, PTL

(* The points of a user are what his posts and the votes on them are       *)
(* worth: over all the statements that award points, when a post is        *)
(* created, chosen, deleted, voted on or flagged, nothing is awarded twice,*)
(* lost or taken back twice.                                               *)
THEOREM PointsAreDeeds ==
  ASSUME NEW pr, Alone(pr)
  PROVE  Spec => []PointsMatchDeeds
<1>1. PostInv(pr) => PointsMatchDeeds
  BY DEF PostInv, TablesKept
<1> QED BY <1>1, TablesKeptTogether, PTL

(* No review of a deleted post is left to decide: each deletion calls      *)
(* invalidateReviewsForPost, and no review of a deleted post is asked for. *)
THEOREM DeletedPostsAreReviewed ==
  ASSUME NEW pr, Alone(pr)
  PROVE  Spec => []DeletedPostHasNoPendingReview
<1>1. PostInv(pr) => DeletedPostHasNoPendingReview
  BY DEF PostInv, TablesKept
<1> QED BY <1>1, TablesKeptTogether, PTL

(* Live posts have live parents, the best answer is there and the limit of *)
(* comments is kept, unless a completed review deletes a post with none of *)
(* the checks of a deletion.                                               *)
THEOREM PostsDoHangTogether ==
  ASSUME NEW pr, Alone(pr), "complete" \notin Ops
  PROVE  Spec => []PostsHangTogether
<1>1. PostInv(pr) => PostsHangTogether
  BY DEF PostInv, TablesKept, Hang, PostsHangTogether
<1> QED BY <1>1, TablesKeptTogether, PTL

(* The limit of comments, which SaveComment looks at before it inserts, is *)
(* kept whatever is deleted and reviewed.                                  *)
THEOREM CommentsAreLimited ==
  ASSUME NEW pr, Alone(pr)
  PROVE  Spec => []CommentLimitKept
<1>1. PostInv(pr) => CommentLimitKept
  BY DEF PostInv, TablesKept
<1> QED BY <1>1, TablesKeptTogether, PTL

(* An edit writes over the content it has read, and no other step writes   *)
(* one: nothing is lost between a revision and the next.                   *)
Rewritten(p) == \E pr \in Proc : /\ request'[pr].post = p
                                 /\ request'[pr].row.content = posts[p].content
Rewrites == \A p \in Post : posts'[p].content # posts[p].content => Rewritten(p)

LEMMA InsertRewrites ==
  ASSUME TypeOK, TablesKept, NEW p \in Post, posts[p].status = "none"
  PROVE  \A q \in Post : Insert(p)[q].content = posts[q].content
<1>1. posts[p] = BlankRow
  BY DEF TablesKept, Untouched, Blank
<1> QED BY <1>1, RowsAre DEF Insert, BlankRow

LEMMA StepRewrites ==
  ASSUME NEW pr, Alone(pr), PostInv(pr), [Next]_vars
  PROVE  Rewrites
<1> DEFINE r == request[pr]
           p == r.post
<1>1. posts \in [Post -> Row]
  BY RowsAre DEF PostInv
<1>2. CASE UNCHANGED posts
  BY <1>2 DEF Rewrites
<1>3. CASE \/ upvotePost(pr) \/ cancelUpvotePost(pr) \/ downvotePost(pr)
           \/ cancelDownvotePost(pr) \/ flagPost(pr) \/ cancelFlagPost(pr)
  <2> DEFINE Same == \A q \in Post : posts'[q].content = posts[q].content
  <2>1. CASE upvotePost(pr)
    <3>1. Same
      BY <1>1, <2>1, Kinds DEF upvotePost, Reject, RollBack, tables, Row
    <3> QED BY <3>1 DEF Rewrites
  <2>2. CASE cancelUpvotePost(pr)
    <3>1. Same
      BY <1>1, <2>2, Kinds DEF cancelUpvotePost, Reject, RollBack, tables, Row
    <3> QED BY <3>1 DEF Rewrites
  <2>3. CASE downvotePost(pr)
    <3>1. Same
      BY <1>1, <2>3, Kinds DEF downvotePost, Reject, RollBack, tables, Row
    <3> QED BY <3>1 DEF Rewrites
  <2>4. CASE cancelDownvotePost(pr)
    <3>1. Same
      BY <1>1, <2>4, Kinds DEF cancelDownvotePost, Reject, RollBack, tables, Row
    <3> QED BY <3>1 DEF Rewrites
  <2>5. CASE flagPost(pr)
    <3>1. Same
      BY <1>1, <2>5, Kinds DEF flagPost, Reject, RollBack, tables, Row
    <3> QED BY <3>1 DEF Rewrites
  <2>6. CASE cancelFlagPost(pr)
    <3>1. Same
      BY <1>1, <2>6, Kinds DEF cancelFlagPost, Reject, RollBack, tables, Row
    <3> QED BY <3>1 DEF Rewrites
  <2> QED BY <1>3, <2>1, <2>2, <2>3, <2>4, <2>5, <2>6
<1>4. CASE \/ deleteQuestion(pr) \/ deleteAnswer(pr) \/ deleteComment(pr)
           \/ selectBestAnswer(pr) \/ SetLockedAt(pr) \/ ClearLockedAt(pr)
           \/ SetProtectedAt(pr) \/ ClearProtectedAt(pr)
  <2> DEFINE Same == \A q \in Post : posts'[q].content = posts[q].content
  <2>1. CASE deleteQuestion(pr)
    <3>1. Same
      BY <1>1, <2>1, Kinds DEF deleteQuestion, Target, Reject, RollBack, tables, Row
    <3> QED BY <3>1 DEF Rewrites
  <2>2. CASE deleteAnswer(pr)
    <3>1. Same
      BY <1>1, <2>2, Kinds DEF deleteAnswer, Target, Deletion, Reject, RollBack, tables, Row
    <3> QED BY <3>1 DEF Rewrites
  <2>3. CASE deleteComment(pr)
    <3>1. Same
      BY <1>1, <2>3, Kinds DEF deleteComment, Target, Reject, RollBack, tables, Row
    <3> QED BY <3>1 DEF Rewrites
  <2>4. CASE selectBestAnswer(pr)
    <3>1. Same
      BY <1>1, <2>4, Kinds DEF selectBestAnswer, Target, Reject, RollBack, tables, Row
    <3> QED BY <3>1 DEF Rewrites
  <2>5. CASE SetLockedAt(pr)
    <3>1. Same
      BY <1>1, <2>5, Kinds DEF SetLockedAt, SetFlag, Target, Reject, RollBack, tables, Row
    <3> QED BY <3>1 DEF Rewrites
  <2>6. CASE ClearLockedAt(pr)
    <3>1. Same
      BY <1>1, <2>6, Kinds DEF ClearLockedAt, SetFlag, Target, Reject, RollBack, tables, Row
    <3> QED BY <3>1 DEF Rewrites
  <2>7. CASE SetProtectedAt(pr)
    <3>1. Same
      BY <1>1, <2>7, Kinds DEF SetProtectedAt, SetFlag, Target, Reject, RollBack, tables, Row
    <3> QED BY <3>1 DEF Rewrites
  <2>8. CASE ClearProtectedAt(pr)
    <3>1. Same
      BY <1>1, <2>8, Kinds DEF ClearProtectedAt, SetFlag, Target, Reject, RollBack, tables, Row
    <3> QED BY <3>1 DEF Rewrites
  <2> QED BY <1>4, <2>1, <2>2, <2>3, <2>4, <2>5, <2>6, <2>7, <2>8
<1>5. CASE saveQuestion(pr) \/ saveAnswer(pr) \/ InsertComment(pr)
  <2>1. r.op \in Creations /\ r.phase \in {"checked", "read"} /\ p \in Post
    BY <1>5, TheRequest DEF saveQuestion, saveAnswer, InsertComment, In, Creations, Alone, PostInv
  <2>2. posts[p].status = "none"
    BY <2>1 DEF PostInv, Knows, KnowsNew
  <2>3. \A q \in Post : Insert(p)[q].content = posts[q].content
    BY <2>1, <2>2, InsertRewrites DEF PostInv
  <2>4. Insert(p) \in [Post -> Row]
    BY <1>1, InsertType, <2>1 DEF PostInv
  <2>5. \A q \in Post : posts'[q].content = posts[q].content
    BY <1>5, <2>3, <2>4 DEF saveQuestion, saveAnswer, InsertComment, Reject, RollBack, tables, Target, Row
  <2> QED BY <2>5 DEF Rewrites
<1>6. CASE update(pr)
  <2>1. CASE Reject(pr, FALSE)
    BY <2>1 DEF Reject, tables, Rewrites
  <2>2. CASE posts' = [posts EXCEPT ![p] = [r.row EXCEPT !.content = r.content]] /\ Goto(pr, "committed")
    <3>1. r.op = "update" /\ r.phase = "read" /\ r.row = posts[p] /\ r \in InFlight
      BY <1>6, InFlightType DEF update, In, PostInv, Knows, KnowsPost, Alone
    <3>2. request'[pr] = [r EXCEPT !.phase = "committed"]
      BY <2>2 DEF Goto, PostInv, TypeOK, Alone
    <3>3. request'[pr].post = p /\ request'[pr].row = posts[p]
      BY <3>1, <3>2 DEF InFlight
    <3>4. \A q \in Post : q # p => posts'[q] = posts[q]
      BY <1>1, <2>2
    <3> QED BY <3>3, <3>4 DEF Rewrites, Rewritten, Alone
  <2> QED BY <1>6, <2>1, <2>2 DEF update
<1>7. CASE VoteNext
  <2>1. UNCHANGED posts \/ \/ upvotePost(pr) \/ cancelUpvotePost(pr) \/ downvotePost(pr)
                           \/ cancelDownvotePost(pr) \/ flagPost(pr) \/ cancelFlagPost(pr)
    BY <1>7 DEF VoteNext, Alone, tables, Accept, Read, UpVotePost, CancelUpVotePost, DownVotePost,
                CancelDownVotePost, FlagPost, CancelFlagPost, ReadForUpVote, ReadForCancelUpVote,
                ReadForDownVote, ReadForCancelDownVote, ReadForFlag, ReadForCancelFlag
  <2> QED BY <1>2, <1>3, <2>1
<1>8. CASE LifecycleNext
  <2>1. \/ UNCHANGED posts
        \/ saveQuestion(pr) \/ saveAnswer(pr) \/ InsertComment(pr) \/ update(pr)
        \/ deleteQuestion(pr) \/ deleteAnswer(pr) \/ deleteComment(pr)
        \/ selectBestAnswer(pr) \/ SetLockedAt(pr) \/ ClearLockedAt(pr)
        \/ SetProtectedAt(pr) \/ ClearProtectedAt(pr)
    BY <1>8 DEF LifecycleNext, Alone, tables, Accept, Read, CreateQuestion, CreateAnswer, CreateComment,
                UpdatePost, DeletePost, SelectBestAnswer, LockPost, CancelLockPost, ProtectPost,
                CancelProtectPost, SaveAnswer, SaveComment, ReadForUpdate, ReadForDelete,
                ReadForSelectBest, ReadForLock, ReadForCancelLock, ReadForProtect,
                ReadForCancelProtect, CreateSystemReview, InsertRevision
  <2> QED BY <1>2, <1>4, <1>5, <1>6, <2>1
<1>9. CASE ReviewNext \/ Replicate \/ UNCHANGED vars
  <2>1. UNCHANGED posts
    BY <1>9 DEF ReviewNext, Replicate, vars, tables, Accept, Reject, CreateReviewVote,
                RejectReviewsForPost, CompleteReviewsForPost, InsertReview, RejectReviews, CompleteReviews
  <2> QED BY <1>2, <2>1
<1> QED BY <1>7, <1>8, <1>9 DEF Next

(* An edit saves as a revision the content it replaces: Update writes over *)
(* what the request has read, and nothing else writes a content.           *)
THEOREM EditsKeepOldContent ==
  ASSUME NEW pr, Alone(pr)
  PROVE  Spec => EditKeepsOldContent
<1>1. PostInv(pr) /\ [Next]_vars => [Rewrites]_vars
  BY StepRewrites
<1>2. EditKeepsOldContent <=> [][Rewrites]_vars
  BY DEF EditKeepsOldContent, Rewrites, Rewritten
<1> QED BY <1>1, <1>2, TablesKeptTogether, PTL DEF Spec

----------------------------------------------------------------------------
(* Any number of requests and any lag, but no edits: what a step may do to *)
(* the flags and the status of posts, and to the requests.                 *)
Creating(pr) == request[pr].phase \in {"checked", "read"} /\ request[pr].op \in Creations
Removing(pr) == request[pr].phase # "idle" /\ request[pr].op \in Deletes

FreshKept ==
  /\ \A pr \in Proc : Creating(pr) => posts[request[pr].post].status = "none"
  /\ \A pr, qr \in Proc : pr # qr /\ Creating(pr) /\ Creating(qr) =>
       request[pr].post # request[qr].post
  /\ \A pr \in Proc : Removing(pr) => posts[request[pr].post].status # "none"
  /\ \A p \in Post : replica.posts[p].status # "none" => posts[p].status # "none"

NoEditInv == TypeOK /\ FreshKept /\ FlagCountBounded

Goes(pr) ==
  /\ \A qr \in Proc : qr # pr => request'[qr] = request[qr]
  /\ \/ request'[pr].phase = "idle"
     \/ /\ request'[pr].op = request[pr].op /\ request'[pr].post = request[pr].post
        /\ request[pr].phase # "idle"
        /\ request'[pr].phase = "committed" \/ request[pr].phase = "checked"

FlagsKept == SameFlags /\ \A q \in Post : posts'[q].flags = posts[q].flags

(* The status of every post stays; or one is removed, or created; or only  *)
(* a flag moves; or a request is accepted.                                 *)
Stays(pr) ==
  /\ FlagsKept /\ SameStatus /\ Goes(pr) /\ UNCHANGED replica
Removes(pr) ==
  /\ FlagsKept /\ Removing(pr) /\ Goes(pr) /\ UNCHANGED replica
  /\ posts'[request[pr].post].status = "deleted"
  /\ \A q \in Post : q # request[pr].post => posts'[q].status = posts[q].status
Creates(pr) ==
  /\ SameFlags /\ Creating(pr) /\ Goes(pr) /\ request'[pr].phase = "committed" /\ UNCHANGED replica
  /\ posts'[request[pr].post].status = "live" /\ posts'[request[pr].post].flags = 0
  /\ \A q \in Post : q # request[pr].post =>
       posts'[q].status = posts[q].status /\ posts'[q].flags = posts[q].flags
Flagging(pr, i) ==
  /\ SameStatus /\ Goes(pr) /\ UNCHANGED replica /\ request[pr].user \in User
  /\ posts' = [posts EXCEPT ![request[pr].post].flags = @ + i]
  /\ \A v \in User, q \in Post : <<v, q>> # <<request[pr].user, request[pr].post>> =>
       reviews'[Flag(v, q)] = reviews[Flag(v, q)]
  /\ \/ i = 1 /\ reviews[Flag(request[pr].user, request[pr].post)] = "none"
              /\ reviews'[Flag(request[pr].user, request[pr].post)] # "none"
     \/ i = -1
Asks(pr) ==
  /\ UNCHANGED <<posts, reviews, replica>> /\ request[pr].phase = "idle"
  /\ \A qr \in Proc : qr # pr => request'[qr] = request[qr]
  /\ request'[pr].op \in Creations => Fresh(request'[pr].post)
  /\ request'[pr].op \in Deletes => GetSingle(request'[pr].post)
  /\ request'[pr].post \in Post

Outcome(pr) == Stays(pr) \/ Removes(pr) \/ Creates(pr) \/ Asks(pr)
               \/ \E i \in {1, -1} : Flagging(pr, i) /\ request[pr].post \in Post

LEMMA FinishGoes == ASSUME TypeOK, NEW pr \in Proc, Finish(pr) PROVE Goes(pr)
BY DEF Finish, TypeOK, Goes, Idle

LEMMA GotoGoes ==
  ASSUME TypeOK, NEW pr \in Proc, request[pr].phase # "idle", Goto(pr, "committed")
  PROVE  Goes(pr) /\ request'[pr].phase = "committed"
<1>1. request[pr] \in InFlight
  BY InFlightType
<1>2. request' = [request EXCEPT ![pr] = [request[pr] EXCEPT !.phase = "committed"]]
  BY DEF Goto
<1>3. request'[pr] = [request[pr] EXCEPT !.phase = "committed"]
  BY <1>2 DEF TypeOK
<1> QED BY <1>1, <1>2, <1>3 DEF InFlight, Goes, TypeOK

LEMMA NothingStays ==
  ASSUME TypeOK, NEW pr \in Proc, UNCHANGED <<posts, replica>>, SameFlags, Goes(pr)
  PROVE  Outcome(pr)
BY DEF Outcome, Stays, FlagsKept, SameStatus

LEMMA RequestOutcome ==
  ASSUME TypeOK, NEW pr \in Proc
  PROVE  /\ \A op, found, row : Read(pr, op, found, row) => Outcome(pr)
         /\ \A reason : Reject(pr, reason) => Outcome(pr)
         /\ \A award : RollBack(pr, award) /\ SameFlags => Outcome(pr)
         /\ \A op, u, p : Accept(pr, op, u, p) /\ p \in Post
                           /\ (op \in Creations => Fresh(p)) /\ (op \in Deletes => GetSingle(p))
                             => Outcome(pr)
<1>1. ASSUME NEW op, NEW found, NEW row, Read(pr, op, found, row) PROVE Outcome(pr)
  <2>1. request[pr].phase = "checked" /\ request[pr] \in InFlight
    BY <1>1, InFlightType DEF Read, In
  <2>2. request'[pr] = IF found THEN [request[pr] EXCEPT !.phase = "read", !.row = row] ELSE Idle
    BY <1>1 DEF Read, TypeOK
  <2>3. \A qr \in Proc : qr # pr => request'[qr] = request[qr]
    BY <1>1 DEF Read, TypeOK
  <2>4. Goes(pr)
    BY <2>1, <2>2, <2>3 DEF Goes, InFlight, Idle
  <2> QED BY <1>1, <2>4, NothingStays DEF Read, tables, SameFlags
<1>2. ASSUME NEW reason, Reject(pr, reason) PROVE Outcome(pr)
  BY <1>2, FinishGoes, NothingStays DEF Reject, tables, SameFlags
<1>3. ASSUME NEW award, RollBack(pr, award), SameFlags PROVE Outcome(pr)
  BY <1>3, FinishGoes, NothingStays DEF RollBack
<1>4. ASSUME NEW op, NEW u, NEW p \in Post, Accept(pr, op, u, p),
             op \in Creations => Fresh(p), op \in Deletes => GetSingle(p)
      PROVE  Outcome(pr)
  <2>1. /\ request'[pr].op = op /\ request'[pr].post = p
        /\ \A qr \in Proc : qr # pr => request'[qr] = request[qr]
    BY <1>4 DEF Accept, TypeOK
  <2> QED BY <1>4, <2>1 DEF Accept, tables, Outcome, Asks
<1> QED BY <1>1, <1>2, <1>3, <1>4

LEMMA VotesOutcome ==
  ASSUME TypeOK, NEW pr \in Proc,
         upvotePost(pr) \/ cancelUpvotePost(pr) \/ downvotePost(pr) \/ cancelDownvotePost(pr)
  PROVE  Outcome(pr)
<1> DEFINE p == request[pr].post
<1>1. CASE UNCHANGED <<posts, reviews, replica>> /\ Finish(pr)
  BY <1>1, FinishGoes, NothingStays DEF SameFlags
<1>2. ASSUME NEW n, NEW i, Finish(pr), UNCHANGED <<reviews, replica>>,
             \/ posts' = [posts EXCEPT ![p].up = n, ![p].points = i]
             \/ posts' = [posts EXCEPT ![p].down = n, ![p].points = i]
      PROVE  Outcome(pr)
  <2>1. \A q \in Post : posts'[q].flags = posts[q].flags /\ posts'[q].status = posts[q].status
    BY <1>2, RowsAre DEF Row
  <2> QED BY <1>2, <2>1, FinishGoes DEF Outcome, Stays, FlagsKept, SameFlags, SameStatus
<1>3. CASE upvotePost(pr)
  BY <1>1, <1>2, <1>3 DEF upvotePost, Commit, Reject, RollBack, tables
<1>4. CASE cancelUpvotePost(pr)
  BY <1>1, <1>2, <1>4 DEF cancelUpvotePost, Commit, Reject, RollBack, tables
<1>5. CASE downvotePost(pr)
  BY <1>1, <1>2, <1>5 DEF downvotePost, Commit, Reject, RollBack, tables
<1>6. CASE cancelDownvotePost(pr)
  BY <1>1, <1>2, <1>6 DEF cancelDownvotePost, Commit, Reject, RollBack, tables
<1> QED BY <1>3, <1>4, <1>5, <1>6

LEMMA FlagsOutcome ==
  ASSUME TypeOK, NEW pr \in Proc, flagPost(pr) \/ cancelFlagPost(pr)
  PROVE  Outcome(pr)
<1> DEFINE u == request[pr].user
           p == request[pr].post
<1>0. u \in User /\ p \in Post
  BY TheRequest DEF flagPost, cancelFlagPost, In
<1>1. CASE UNCHANGED <<posts, reviews, replica>> /\ Finish(pr)
  BY <1>1, FinishGoes, NothingStays DEF SameFlags
<1>2. CASE /\ reviews[Flag(u, p)] = "none" /\ reviews' = [reviews EXCEPT ![Flag(u, p)] = "pending"]
           /\ posts' = [posts EXCEPT ![p].flags = @ + 1] /\ Finish(pr) /\ UNCHANGED replica
  <2>1. SameStatus
    BY <1>2, RowsAre DEF SameStatus, Row
  <2>2. /\ \A v \in User, q \in Post : <<v, q>> # <<u, p>> => reviews'[Flag(v, q)] = reviews[Flag(v, q)]
        /\ reviews'[Flag(u, p)] # "none"
    BY <1>0, <1>2, FlagsDiffer DEF TypeOK
  <2>3. Flagging(pr, 1)
    BY <1>0, <1>2, <2>1, <2>2, FinishGoes DEF Flagging
  <2> QED BY <1>0, <2>3 DEF Outcome
<1>3. CASE /\ reviews' = [reviews EXCEPT ![Flag(u, p)] = "none"]
           /\ posts' = [posts EXCEPT ![p].flags = @ - 1] /\ Finish(pr) /\ UNCHANGED replica
  <2>1. SameStatus
    BY <1>3, RowsAre DEF SameStatus, Row
  <2>2. \A v \in User, q \in Post : <<v, q>> # <<u, p>> => reviews'[Flag(v, q)] = reviews[Flag(v, q)]
    BY <1>0, <1>3, FlagsDiffer DEF TypeOK
  <2>3. posts' = [posts EXCEPT ![p].flags = @ + (-1)]
    <3>1. posts[p].flags - 1 = posts[p].flags + (-1)
      BY <1>0, RowsAre
    <3> QED BY <1>3, <3>1, RowsAre
  <2>4. Flagging(pr, -1)
    BY <1>0, <1>3, <2>1, <2>2, <2>3, FinishGoes DEF Flagging
  <2> QED BY <1>0, <2>4 DEF Outcome
<1>4. CASE flagPost(pr)
  BY <1>1, <1>2, <1>4 DEF flagPost, Commit, Reject, RollBack, tables
<1>5. CASE cancelFlagPost(pr)
  BY <1>1, <1>3, <1>5 DEF cancelFlagPost, Commit, Reject, RollBack, tables
<1> QED BY <1>4, <1>5

LEMMA CreationsOutcome ==
  ASSUME TypeOK, NEW pr \in Proc, saveQuestion(pr) \/ saveAnswer(pr) \/ InsertComment(pr)
  PROVE  Outcome(pr)
<1> DEFINE p == request[pr].post
<1>0. /\ p \in Post /\ Creating(pr) /\ request[pr].phase # "idle"
  BY TheRequest DEF saveQuestion, saveAnswer, InsertComment, In, Creating, Creations
<1>1. CASE UNCHANGED <<posts, reviews, replica>> /\ Finish(pr)
  BY <1>1, FinishGoes, NothingStays DEF SameFlags
<1>2. ASSUME NEW f, f = Insert(p), NEW q, NEW n,
             posts' = f \/ posts' = [f EXCEPT ![q].answers = n],
             Goto(pr, "committed"), UNCHANGED <<reviews, replica>>
      PROVE  Outcome(pr)
  <2>1. f \in [Post -> Row] /\ f[p].status = "live" /\ f[p].flags = 0
        /\ \A s \in Post : s # p => f[s] = posts[s]
    BY <1>0, <1>2, InsertType, RowsAre DEF Insert, BlankRow
  <2>2. \A s \in Post : posts'[s].status = f[s].status /\ posts'[s].flags = f[s].flags
    BY <1>2, <2>1 DEF Row
  <2> QED BY <1>0, <1>2, <2>1, <2>2, GotoGoes DEF Outcome, Creates, SameFlags
<1>3. CASE saveQuestion(pr)
  BY <1>1, <1>2, <1>3 DEF saveQuestion, CommitAndGoOn, Reject, RollBack, tables, Target
<1>4. CASE saveAnswer(pr)
  BY <1>1, <1>2, <1>4 DEF saveAnswer, CommitAndGoOn, Reject, RollBack, tables, Target
<1>5. CASE InsertComment(pr)
  BY <1>1, <1>2, <1>5 DEF InsertComment, CommitAndGoOn, Reject, RollBack, tables, Target
<1> QED BY <1>3, <1>4, <1>5

LEMMA DeletionsOutcome ==
  ASSUME TypeOK, NEW pr \in Proc, deleteQuestion(pr) \/ deleteAnswer(pr) \/ deleteComment(pr)
  PROVE  Outcome(pr)
<1> DEFINE p == request[pr].post
<1>0. p \in Post /\ Removing(pr) /\ request[pr].phase # "idle"
  BY TheRequest DEF deleteQuestion, deleteAnswer, deleteComment, Deletion, In, Removing
<1>1. CASE UNCHANGED <<posts, replica>> /\ SameFlags /\ Finish(pr)
  BY <1>1, FinishGoes, NothingStays
<1>2. ASSUME NEW q, NEW n, NEW award, Deleted(pr, award), invalidateReviewsForPost(p),
             \/ posts' = [posts EXCEPT ![p].status = "deleted"]
             \/ p \in Answer /\ q = Parent[p] /\ posts' = [posts EXCEPT ![p].status = "deleted", ![q].answers = n]
      PROVE  Outcome(pr)
  <2>1. \A s \in Post : posts'[s].flags = posts[s].flags /\ (s # p => posts'[s].status = posts[s].status)
    BY <1>2, RowsAre DEF Row
  <2>2. posts'[p].status = "deleted"
    BY <1>0, <1>2, RowsAre, Kinds DEF Row
  <2>3. SameFlags /\ Goes(pr) /\ UNCHANGED replica
    BY <1>0, <1>2, InvalidateKeepsFlags, FinishGoes, GotoGoes DEF Deleted
  <2> QED BY <1>0, <2>1, <2>2, <2>3 DEF Outcome, Removes, FlagsKept
<1>3. ASSUME NEW award, RollBack(pr, award) /\ invalidateReviewsForPost(p) PROVE Outcome(pr)
  BY <1>3, RequestOutcome, InvalidateKeepsFlags
<1>4. CASE Reject(pr, FALSE)
  BY <1>4, RequestOutcome
<1>5. CASE deleteQuestion(pr)
  BY <1>2, <1>3, <1>4, <1>5 DEF deleteQuestion, Target
<1>6. CASE deleteAnswer(pr)
  BY <1>2, <1>3, <1>4, <1>6 DEF deleteAnswer, Target, Deletion
<1>7. CASE deleteComment(pr)
  BY <1>2, <1>3, <1>4, <1>7 DEF deleteComment, Target
<1> QED BY <1>5, <1>6, <1>7

LEMMA SettingsOutcome ==
  ASSUME TypeOK, NEW pr \in Proc,
         \/ selectBestAnswer(pr) \/ SetLockedAt(pr) \/ ClearLockedAt(pr)
         \/ SetProtectedAt(pr) \/ ClearProtectedAt(pr)
  PROVE  Outcome(pr)
<1>1. CASE UNCHANGED <<posts, reviews, replica>> /\ Finish(pr)
  BY <1>1, FinishGoes, NothingStays DEF SameFlags
<1>2. ASSUME NEW p, NEW v, Finish(pr), UNCHANGED <<reviews, replica>>,
             \/ posts' = [posts EXCEPT ![p].best = v] \/ posts' = [posts EXCEPT ![p].locked = v]
             \/ posts' = [posts EXCEPT ![p].protected = v]
      PROVE  Outcome(pr)
  <2>1. \A q \in Post : posts'[q].flags = posts[q].flags /\ posts'[q].status = posts[q].status
    BY <1>2, RowsAre DEF Row
  <2> QED BY <1>2, <2>1, FinishGoes DEF Outcome, Stays, FlagsKept, SameFlags, SameStatus
<1>3. CASE selectBestAnswer(pr)
  BY <1>1, <1>2, <1>3 DEF selectBestAnswer, Commit, Reject, RollBack, tables
<1>4. CASE SetLockedAt(pr)
  BY <1>1, <1>2, <1>4 DEF SetLockedAt, SetFlag, Commit, Reject, tables
<1>5. CASE ClearLockedAt(pr)
  BY <1>1, <1>2, <1>5 DEF ClearLockedAt, SetFlag, Commit, Reject, tables
<1>6. CASE SetProtectedAt(pr)
  BY <1>1, <1>2, <1>6 DEF SetProtectedAt, SetFlag, Commit, Reject, tables
<1>7. CASE ClearProtectedAt(pr)
  BY <1>1, <1>2, <1>7 DEF ClearProtectedAt, SetFlag, Commit, Reject, tables
<1> QED BY <1>3, <1>4, <1>5, <1>6, <1>7

LEMMA ReviewsOutcome ==
  ASSUME TypeOK, NEW pr \in Proc,
         InsertReview(pr) \/ RejectReviews(pr) \/ CompleteReviews(pr) \/ CreateSystemReview(pr)
         \/ InsertRevision(pr)
  PROVE  Outcome(pr)
<1>0. request[pr].post \in Post
  BY TheRequest DEF InsertReview, RejectReviews, CompleteReviews, CreateSystemReview, InsertRevision, In
<1>1. CASE UNCHANGED <<posts, replica>> /\ SameFlags /\ Finish(pr)
  BY <1>1, FinishGoes, NothingStays
<1>2. CASE Reject(pr, FALSE) \/ Reject(pr, reviews[Review(Target(pr))] # "none")
  BY <1>2, RequestOutcome
<1>3. CASE InsertReview(pr)
  <2>1. CASE reviews' = [reviews EXCEPT ![Review(Target(pr))] = "pending"]
    <3>1. SameFlags
      BY <1>0, <2>1, FlagsDiffer DEF SameFlags, Target, TypeOK
    <3> QED BY <1>1, <1>2, <1>3, <3>1 DEF InsertReview
  <2> QED BY <1>2, <1>3, <2>1 DEF InsertReview
<1>4. CASE RejectReviews(pr)
  BY <1>1, <1>2, <1>4, CloseKeepsFlags DEF RejectReviews
<1>5. CASE CompleteReviews(pr)
  BY <1>1, <1>2, <1>5, CloseKeepsFlags DEF CompleteReviews
<1>6. CASE CreateSystemReview(pr)
  <2>1. \A k \in ReviewKey : k # System(Target(pr)) => reviews'[k] = reviews[k]
    BY <1>6 DEF CreateSystemReview, TypeOK
  <2>2. SameFlags
    BY <1>0, <2>1, FlagsDiffer DEF SameFlags, Target
  <2> QED BY <1>1, <1>6, <2>2 DEF CreateSystemReview
<1>7. CASE InsertRevision(pr)
  BY <1>1, <1>7 DEF InsertRevision, SameFlags
<1> QED BY <1>3, <1>4, <1>5, <1>6, <1>7

LEMMA NextOutcome ==
  ASSUME TypeOK, Next
  PROVE  Replicate \/ \E pr \in Proc : Outcome(pr) \/ update(pr)
<1>1. CASE VoteNext
  <2>1. PICK pr \in Proc :
          \/ \E u \in User, p \in Post :
               \/ UpVotePost(pr, u, p)   \/ CancelUpVotePost(pr, u, p)
               \/ DownVotePost(pr, u, p) \/ CancelDownVotePost(pr, u, p)
               \/ FlagPost(pr, u, p)     \/ CancelFlagPost(pr, u, p)
          \/ ReadForUpVote(pr)   \/ ReadForCancelUpVote(pr)
          \/ ReadForDownVote(pr) \/ ReadForCancelDownVote(pr)
          \/ ReadForFlag(pr)     \/ ReadForCancelFlag(pr)
          \/ upvotePost(pr)   \/ cancelUpvotePost(pr)
          \/ downvotePost(pr) \/ cancelDownvotePost(pr)
          \/ flagPost(pr)     \/ cancelFlagPost(pr)
    BY <1>1 DEF VoteNext
  <2>2. ASSUME NEW u \in User, NEW p \in Post,
               \/ UpVotePost(pr, u, p)   \/ CancelUpVotePost(pr, u, p)
               \/ DownVotePost(pr, u, p) \/ CancelDownVotePost(pr, u, p)
               \/ FlagPost(pr, u, p)     \/ CancelFlagPost(pr, u, p)
        PROVE  Outcome(pr)
    <3>1. \A op \in {"upVote", "cancelUpVote", "downVote", "cancelDownVote", "flag", "cancelFlag"} :
            op \notin Creations /\ op \notin Deletes
      BY DEF Creations, Deletes
    <3>2. \E op \in {"upVote", "cancelUpVote", "downVote", "cancelDownVote", "flag", "cancelFlag"} :
            Accept(pr, op, u, p)
      BY <2>2 DEF UpVotePost, CancelUpVotePost, DownVotePost, CancelDownVotePost, FlagPost, CancelFlagPost
    <3> QED BY <3>1, <3>2, RequestOutcome
  <2>3. CASE \/ ReadForUpVote(pr)   \/ ReadForCancelUpVote(pr)
             \/ ReadForDownVote(pr) \/ ReadForCancelDownVote(pr)
             \/ ReadForFlag(pr)     \/ ReadForCancelFlag(pr)
    BY <2>3, RequestOutcome DEF ReadForUpVote, ReadForCancelUpVote, ReadForDownVote,
       ReadForCancelDownVote, ReadForFlag, ReadForCancelFlag
  <2> QED BY <2>1, <2>2, <2>3, VotesOutcome, FlagsOutcome
<1>2. CASE LifecycleNext
  <2>1. PICK pr \in Proc :
          \/ \E p \in Post :
               \/ CreateQuestion(pr, p) \/ CreateAnswer(pr, p) \/ CreateComment(pr, p)
          \/ \E u \in User, p \in Post :
               \/ UpdatePost(pr, u, p) \/ DeletePost(pr, u, p)
               \/ SelectBestAnswer(pr, u, p)
               \/ LockPost(pr, u, p)    \/ CancelLockPost(pr, u, p)
               \/ ProtectPost(pr, u, p) \/ CancelProtectPost(pr, u, p)
          \/ SaveAnswer(pr) \/ SaveComment(pr) \/ ReadForUpdate(pr)
          \/ ReadForDelete(pr) \/ ReadForSelectBest(pr)
          \/ ReadForLock(pr) \/ ReadForCancelLock(pr)
          \/ ReadForProtect(pr) \/ ReadForCancelProtect(pr)
          \/ saveQuestion(pr) \/ saveAnswer(pr) \/ InsertComment(pr)
          \/ CreateSystemReview(pr)
          \/ update(pr) \/ InsertRevision(pr)
          \/ deleteQuestion(pr) \/ deleteAnswer(pr) \/ deleteComment(pr)
          \/ selectBestAnswer(pr)
          \/ SetLockedAt(pr) \/ ClearLockedAt(pr)
          \/ SetProtectedAt(pr) \/ ClearProtectedAt(pr)
    BY <1>2 DEF LifecycleNext
  <2>2. ASSUME NEW p \in Post, CreateQuestion(pr, p) \/ CreateAnswer(pr, p) \/ CreateComment(pr, p)
        PROVE  Outcome(pr)
    <3>1. /\ Fresh(p)
          /\ \E op \in Creations : Accept(pr, op, Author[p], p)
      BY <2>2 DEF CreateQuestion, CreateAnswer, CreateComment, Creations
    <3>2. \A op \in Creations : op \notin Deletes
      BY DEF Creations, Deletes
    <3> QED BY <3>1, <3>2, RequestOutcome
  <2>3. ASSUME NEW u \in User, NEW p \in Post,
               \/ UpdatePost(pr, u, p) \/ DeletePost(pr, u, p) \/ SelectBestAnswer(pr, u, p)
               \/ LockPost(pr, u, p)    \/ CancelLockPost(pr, u, p)
               \/ ProtectPost(pr, u, p) \/ CancelProtectPost(pr, u, p)
        PROVE  Outcome(pr)
    <3>1. CASE DeletePost(pr, u, p)
      <4>1. "delete" \notin Creations
        BY DEF Creations
      <4> QED BY <3>1, <4>1, RequestOutcome DEF DeletePost
    <3>2. \A op \in {"update", "selectBest", "lock", "cancelLock", "protect", "cancelProtect"} :
            op \notin Creations /\ op \notin Deletes
      BY DEF Creations, Deletes
    <3>3. DeletePost(pr, u, p) \/
          \E op \in {"update", "selectBest", "lock", "cancelLock", "protect", "cancelProtect"} :
            Accept(pr, op, u, p)
      BY <2>3 DEF UpdatePost, SelectBestAnswer, LockPost, CancelLockPost, ProtectPost, CancelProtectPost
    <3> QED BY <3>1, <3>2, <3>3, RequestOutcome
  <2>4. CASE \/ SaveAnswer(pr) \/ SaveComment(pr)
             \/ ReadForDelete(pr) \/ ReadForSelectBest(pr)
             \/ ReadForLock(pr) \/ ReadForCancelLock(pr)
             \/ ReadForProtect(pr) \/ ReadForCancelProtect(pr)
    BY <2>4, RequestOutcome DEF SaveAnswer, SaveComment, ReadForDelete,
       ReadForSelectBest, ReadForLock, ReadForCancelLock, ReadForProtect, ReadForCancelProtect
  <2> HIDE DEF Deletes
  <2>5. CASE ReadForUpdate(pr)
    <3>1. /\ request[pr] \in InFlight /\ request[pr].phase = "checked"
          /\ UNCHANGED <<posts, reviews, replica>>
      BY <2>5, InFlightType DEF ReadForUpdate, In, tables
    <3>2. /\ \A qr \in Proc : qr # pr => request'[qr] = request[qr]
          /\ \/ request'[pr] = Idle
             \/ /\ request'[pr].op = request[pr].op /\ request'[pr].post = request[pr].post
                /\ request'[pr].phase = "read"
      BY <2>5, <3>1 DEF ReadForUpdate, TypeOK, InFlight
    <3> QED BY <3>1, <3>2, NothingStays DEF Goes, Idle, SameFlags
  <2> QED BY <2>1, <2>2, <2>3, <2>4, <2>5, CreationsOutcome, DeletionsOutcome, SettingsOutcome, ReviewsOutcome
<1>3. CASE ReviewNext
  <2>1. ASSUME NEW pr \in Proc, NEW u \in User, NEW p \in Post,
               \/ CreateReviewVote(pr, u, p) \/ RejectReviewsForPost(pr, u, p)
               \/ CompleteReviewsForPost(pr, u, p)
        PROVE  Outcome(pr)
    <3>1. \A op \in {"review", "reject", "complete"} : op \notin Creations
      BY DEF Creations
    <3>2. GetSingle(p) /\ \E op \in {"review", "reject", "complete"} : Accept(pr, op, u, p)
      BY <2>1 DEF CreateReviewVote, RejectReviewsForPost, CompleteReviewsForPost
    <3> QED BY <3>1, <3>2, RequestOutcome
  <2> QED BY <1>3, <2>1, ReviewsOutcome DEF ReviewNext
<1> QED BY <1>1, <1>2, <1>3 DEF Next

(* The flags of a post.                                                    *)
LEMMA FlagRowsIs ==
  ASSUME NEW q
  PROVE  IsFiniteSet(FlagRows(q)) /\ Cardinality(FlagRows(q)) \in Nat
BY Finite DEF FlagRows

LEMMA FlagsHold ==
  ASSUME TypeOK, FlagCountBounded, SameFlags,
         \A q \in Post : posts'[q].flags = posts[q].flags \/ posts'[q].flags = 0
  PROVE  FlagCountBounded'
<1> SUFFICES ASSUME NEW q \in Post PROVE posts'[q].flags <= Cardinality(FlagRows(q)')
  BY DEF FlagCountBounded
<1>1. FlagRows(q)' = FlagRows(q)
  BY FlagsSame
<1>2. posts[q].flags <= Cardinality(FlagRows(q)) /\ Cardinality(FlagRows(q)) \in Nat
  BY FlagRowsIs DEF FlagCountBounded
<1> QED BY <1>1, <1>2

LEMMA FlaggingHolds ==
  ASSUME TypeOK, FlagCountBounded, NEW pr \in Proc, NEW i \in {1, -1}, Flagging(pr, i),
         request[pr].post \in Post
  PROVE  FlagCountBounded'
<1> DEFINE u == request[pr].user
           p == request[pr].post
<1> SUFFICES ASSUME NEW q \in Post PROVE posts'[q].flags <= Cardinality(FlagRows(q)')
  BY DEF FlagCountBounded
<1>1. posts[q].flags <= Cardinality(FlagRows(q)) /\ posts[q].flags \in Int
  BY RowsAre DEF FlagCountBounded
<1>2. /\ IsFiniteSet(FlagRows(q)) /\ Cardinality(FlagRows(q)) \in Nat
      /\ IsFiniteSet(FlagRows(q)') /\ Cardinality(FlagRows(q)') \in Nat
  <2>1. FlagRows(q) \in SUBSET User /\ FlagRows(q)' \in SUBSET User
    BY DEF FlagRows
  <2> QED BY <2>1, Finite
<1>3. CASE q # p
  <2>1. FlagRows(q)' = FlagRows(q)
    BY <1>3 DEF Flagging, FlagRows
  <2>2. posts'[q] = posts[q]
    BY <1>3, RowsAre DEF Flagging
  <2> QED BY <1>1, <2>1, <2>2
<1>4. CASE q = p
  <2>1. posts'[q].flags = posts[q].flags + i
    BY <1>4, RowsAre DEF Flagging, Row
  <2>2. CASE i = 1
    <3>1. reviews[Flag(u, p)] = "none" /\ reviews'[Flag(u, p)] # "none"
      BY <2>2 DEF Flagging
    <3>2. u \in User
      BY DEF Flagging
    <3>3. FlagRows(q)' = FlagRows(q) \cup {u} /\ u \notin FlagRows(q)
      BY <1>4, <3>1, <3>2 DEF Flagging, FlagRows
    <3>4. Cardinality(FlagRows(q)') = Cardinality(FlagRows(q)) + 1
      BY <1>2, <3>3, OneMore
    <3> QED BY <1>1, <1>2, <2>1, <2>2, <3>4
  <2>3. CASE i = -1
    <3>1. u \in User
      BY DEF Flagging
    <3>2. FlagRows(q) \subseteq FlagRows(q)' \cup {u}
      BY <1>4 DEF Flagging, FlagRows
    <3>3. /\ IsFiniteSet(FlagRows(q)' \cup {u})
          /\ Cardinality(FlagRows(q)' \cup {u}) <= Cardinality(FlagRows(q)') + 1
          /\ Cardinality(FlagRows(q)' \cup {u}) \in Nat
      <4>1. CASE u \in FlagRows(q)'
        <5>1. FlagRows(q)' \cup {u} = FlagRows(q)'
          BY <4>1
        <5>2. Cardinality(FlagRows(q)' \cup {u}) = Cardinality(FlagRows(q)')
          BY <5>1
        <5>3. IsFiniteSet(FlagRows(q)' \cup {u})
          BY <1>2, <5>1
        <5> HIDE DEF u
        <5> QED BY <1>2, <5>2, <5>3
      <4>2. CASE u \notin FlagRows(q)'
        BY <1>2, <4>2, OneMore
      <4> QED BY <4>1, <4>2
    <3>4. Cardinality(FlagRows(q)) <= Cardinality(FlagRows(q)' \cup {u})
      BY <3>2, <3>3, FS_Subset
    <3> QED BY <1>1, <1>2, <2>1, <2>3, <3>3, <3>4
  <2> QED BY <2>2, <2>3
<1> QED BY <1>3, <1>4

(* A post that is being created is not there yet, and nobody else is       *)
(* creating it; one that is being deleted is there.                        *)
LEMMA GoesFresh ==
  ASSUME TypeOK, FreshKept, NEW pr \in Proc, Goes(pr), UNCHANGED replica,
         \A q \in Post : posts[q].status # "none" => posts'[q].status # "none",
         \A q \in Post : posts'[q].status # "none" =>
           posts[q].status # "none"
           \/ (q = request[pr].post /\ Creating(pr) /\ request'[pr].phase = "committed")
  PROVE  FreshKept'
<1>1. \A qr \in Proc : /\ Creating(qr)' => Creating(qr) /\ request'[qr].post = request[qr].post
                       /\ Removing(qr)' => Removing(qr) /\ request'[qr].post = request[qr].post
  BY DEF Goes, Creating, Removing
<1>2. request'[pr].phase = "committed" => ~Creating(pr)'
  BY DEF Creating
<1>3. \A qr \in Proc : request[qr].phase # "idle" => request[qr].post \in Post
  BY TheRequest
<1>4. \A qr \in Proc : Creating(qr) \/ Removing(qr) => request[qr].post \in Post
  BY <1>3 DEF Creating, Removing
<1>5. \A qr \in Proc : Creating(qr)' => posts'[request'[qr].post].status = "none"
  <2> SUFFICES ASSUME NEW qr \in Proc, Creating(qr)' PROVE posts'[request[qr].post].status = "none"
    BY <1>1
  <2>1. Creating(qr) /\ posts[request[qr].post].status = "none" /\ request[qr].post \in Post
    BY <1>1, <1>4 DEF FreshKept
  <2>2. CASE qr = pr
    BY <1>2, <2>1, <2>2
  <2>3. CASE qr # pr
    <3>1. Creating(pr) => request[pr].post # request[qr].post
      BY <2>1, <2>3 DEF FreshKept
    <3> QED BY <2>1, <3>1
  <2> QED BY <2>2, <2>3
<1>6. \A qr, sr \in Proc : qr # sr /\ Creating(qr)' /\ Creating(sr)' => request'[qr].post # request'[sr].post
  BY <1>1 DEF FreshKept
<1>7. \A qr \in Proc : Removing(qr)' => posts'[request'[qr].post].status # "none"
  BY <1>1, <1>4 DEF FreshKept
<1>8. \A p \in Post : replica'.posts[p].status # "none" => posts'[p].status # "none"
  BY DEF FreshKept
<1> QED BY <1>5, <1>6, <1>7, <1>8 DEF FreshKept

LEMMA AsksFresh ==
  ASSUME TypeOK, FreshKept, NEW pr \in Proc, Asks(pr)
  PROVE  FreshKept'
<1>1. \A qr \in Proc : qr # pr => /\ Creating(qr)' <=> Creating(qr)
                                  /\ Removing(qr)' <=> Removing(qr)
                                  /\ request'[qr].post = request[qr].post
  BY DEF Asks, Creating, Removing
<1>2. UNCHANGED posts /\ UNCHANGED replica
  BY DEF Asks
<1>3. Creating(pr)' => /\ posts[request'[pr].post].status = "none"
                       /\ \A qr \in Proc : request[qr].post # request'[pr].post
  BY DEF Asks, Creating, Fresh
<1>4. Removing(pr)' => posts[request'[pr].post].status # "none"
  BY DEF Asks, Removing, GetSingle, View, FreshKept
<1> QED BY <1>1, <1>2, <1>3, <1>4 DEF FreshKept

LEMMA OutcomeHolds ==
  ASSUME NoEditInv, NEW pr \in Proc, Outcome(pr)
  PROVE  FreshKept' /\ FlagCountBounded'
<1>0. TypeOK /\ FreshKept /\ FlagCountBounded
  BY DEF NoEditInv
<1>1. CASE Stays(pr)
  <2>1. FreshKept'
    BY <1>0, <1>1, GoesFresh DEF Stays, SameStatus
  <2> QED BY <1>0, <1>1, <2>1, FlagsHold DEF Stays, FlagsKept
<1>2. CASE Removes(pr)
  <2>1. \A q \in Post : posts'[q].status # "none" <=> posts[q].status # "none"
    BY <1>0, <1>2 DEF Removes, FreshKept
  <2>2. FreshKept'
    BY <1>0, <1>2, <2>1, GoesFresh DEF Removes
  <2> QED BY <1>0, <1>2, <2>2, FlagsHold DEF Removes, FlagsKept
<1>3. CASE Creates(pr)
  <2>1. \A q \in Post : q # request[pr].post => posts'[q].status = posts[q].status
    BY <1>3 DEF Creates
  <2>2. FreshKept'
    BY <1>0, <1>3, <2>1, GoesFresh DEF Creates
  <2>3. \A q \in Post : posts'[q].flags = posts[q].flags \/ posts'[q].flags = 0
    BY <1>3 DEF Creates
  <2> QED BY <1>0, <1>3, <2>2, <2>3, FlagsHold DEF Creates
<1>4. CASE Asks(pr)
  <2>1. SameFlags /\ \A q \in Post : posts'[q].flags = posts[q].flags
    BY <1>4 DEF Asks, SameFlags
  <2> QED BY <1>0, <1>4, <2>1, AsksFresh, FlagsHold
<1>5. ASSUME NEW i \in {1, -1}, Flagging(pr, i), request[pr].post \in Post
      PROVE  FreshKept' /\ FlagCountBounded'
  <2>1. FreshKept'
    BY <1>0, <1>5, GoesFresh DEF Flagging, SameStatus
  <2> QED BY <1>0, <1>5, <2>1, FlaggingHolds
<1> QED BY <1>1, <1>2, <1>3, <1>4, <1>5 DEF Outcome

LEMMA NoEditStep ==
  ASSUME NoEditInv, "update" \notin Ops, [Next]_vars
  PROVE  FreshKept' /\ FlagCountBounded'
<1>0. TypeOK /\ FreshKept /\ FlagCountBounded
  BY DEF NoEditInv
<1>1. ASSUME UNCHANGED <<posts, reviews, request>>,
             replica' = replica \/ replica'.posts = posts
      PROVE  FreshKept' /\ FlagCountBounded'
  <2>1. SameFlags /\ \A q \in Post : posts'[q].flags = posts[q].flags
    BY <1>1 DEF SameFlags
  <2>2. FlagCountBounded'
    BY <1>0, <2>1, FlagsHold
  <2>3. \A p \in Post : replica'.posts[p].status # "none" => posts'[p].status # "none"
    BY <1>0, <1>1 DEF FreshKept
  <2>4. \A pr \in Proc : /\ Creating(pr)' <=> Creating(pr)
                         /\ Removing(pr)' <=> Removing(pr)
    BY <1>1 DEF Creating, Removing
  <2> QED BY <1>0, <1>1, <2>2, <2>3, <2>4 DEF FreshKept
<1>2. CASE UNCHANGED vars
  BY <1>1, <1>2 DEF vars, tables
<1>3. CASE Replicate
  BY <1>1, <1>3 DEF Replicate, tables
<1>4. \A pr \in Proc : ~update(pr)
  BY <1>0, TheRequest DEF update, In
<1>5. CASE Next
  BY <1>0, <1>3, <1>4, <1>5, NextOutcome, OutcomeHolds
<1> QED BY <1>2, <1>5

LEMMA NoEditInit ==
  ASSUME Init
  PROVE  NoEditInv
<1>1. TypeOK
  BY InitType
<1>2. \A pr \in Proc : request[pr].phase = "idle"
  BY DEF Init, Idle
<1>3. replica.posts = posts
  BY DEF Init
<1>4. FreshKept
  BY <1>2, <1>3 DEF FreshKept, Creating, Removing
<1>5. FlagCountBounded
  <2> SUFFICES ASSUME NEW p \in Post PROVE posts[p].flags <= Cardinality(FlagRows(p))
    BY DEF FlagCountBounded
  <2>1. posts[p].flags = 0
    BY InitRows
  <2> QED BY <2>1, FlagRowsIs
<1> QED BY <1>1, <1>4, <1>5 DEF NoEditInv

LEMMA NoEditTables ==
  ASSUME "update" \notin Ops
  PROVE  Spec => []NoEditInv
<1>1. Spec => []TypeOK
  BY TypeCorrect
<1>2. NoEditInv /\ TypeOK' /\ [Next]_vars => NoEditInv'
  BY NoEditStep DEF NoEditInv
<1> QED BY <1>1, <1>2, NoEditInit, PTL DEF Spec

(* While no post is edited, a post never counts more flags than there are  *)
(* rows of flags for it, however many requests are served at once and      *)
(* however late the replica is (FlagPost and CancelFlagPost insert and     *)
(* delete the row and move the counter in one transaction).                *)
THEOREM FlagsAreBounded ==
  ASSUME "update" \notin Ops
  PROVE  Spec => []FlagCountBounded
<1>1. NoEditInv => FlagCountBounded
  BY DEF NoEditInv
<1> QED BY <1>1, NoEditTables, PTL

LEMMA OutcomeDeletes ==
  ASSUME NEW pr \in Proc, Outcome(pr), NEW p \in Post, posts[p].status = "deleted",
         Creating(pr) => posts[request[pr].post].status = "none"
  PROVE  posts'[p].status = "deleted"
<1>1. CASE Creates(pr)
  BY <1>1 DEF Creates
<1>2. CASE Removes(pr)
  BY <1>2 DEF Removes
<1>3. CASE Stays(pr) \/ \E i \in {1, -1} : Flagging(pr, i)
  BY <1>3 DEF Stays, Flagging, SameStatus
<1>4. CASE Asks(pr)
  BY <1>4 DEF Asks
<1> QED BY <1>1, <1>2, <1>3, <1>4 DEF Outcome

DeletionStands == \A p \in Post : posts[p].status = "deleted" => posts'[p].status = "deleted"

LEMMA NextDeletes ==
  ASSUME TypeOK, [Next]_vars, \A pr \in Proc : update(pr) => DeletionStands,
         \A pr \in Proc : Creating(pr) => posts[request[pr].post].status = "none"
  PROVE  DeletionStands
<1>1. CASE UNCHANGED posts
  BY <1>1 DEF DeletionStands
<1>2. CASE \E pr \in Proc : Outcome(pr)
  BY <1>2, OutcomeDeletes DEF DeletionStands
<1> QED BY <1>1, <1>2, NextOutcome DEF Replicate, vars, tables

(* While no post is edited, what is deleted stays deleted, however many    *)
(* requests are served at once and however late the replica is: only the   *)
(* UPDATE of the full row by an edit, which writes the row it read before, *)
(* can bring a post back (Update, store/sqlstore/post_store.go).           *)
THEOREM DeletionsStand ==
  ASSUME "update" \notin Ops
  PROVE  Spec => DeletedStaysDeleted
<1>1. NoEditInv /\ [Next]_vars => [DeletionStands]_vars
  <2> SUFFICES ASSUME NoEditInv, [Next]_vars PROVE DeletionStands
    OBVIOUS
  <2>1. TypeOK /\ \A pr \in Proc : Creating(pr) => posts[request[pr].post].status = "none"
    BY DEF NoEditInv, FreshKept
  <2>2. \A pr \in Proc : ~update(pr)
    BY <2>1, TheRequest DEF update, In
  <2> QED BY <2>1, <2>2, NextDeletes
<1> QED BY <1>1, NoEditTables, PTL DEF Spec, DeletedStaysDeleted, DeletionStands

(* With edits it stays deleted, too, while one request is served at a      *)
(* time, on one database: the row an edit writes back is the one there is. *)
THEOREM DeletionsStandAlone ==
  ASSUME NEW pr, Alone(pr)
  PROVE  Spec => DeletedStaysDeleted
<1>1. PostInv(pr) /\ [Next]_vars => [DeletionStands]_vars
  <2> SUFFICES ASSUME PostInv(pr), [Next]_vars PROVE DeletionStands
    OBVIOUS
  <2>1. TypeOK /\ Knows(request[pr]) /\ Proc = {pr}
    BY DEF PostInv, Alone
  <2>2. Creating(pr) => posts[request[pr].post].status = "none"
    BY <2>1 DEF Creating, Knows, KnowsNew
  <2>3. ASSUME update(pr) PROVE DeletionStands
    <3>1. request[pr].row = posts[request[pr].post] /\ request[pr].post \in Post
      BY <2>1, <2>3, TheRequest DEF update, In, Knows, KnowsPost
    <3>2. CASE UNCHANGED posts
      BY <3>2 DEF DeletionStands
    <3>3. CASE \E n : posts' = [posts EXCEPT ![request[pr].post] = [request[pr].row EXCEPT !.content = n]]
      BY <2>1, <3>1, <3>3, RowsAre DEF Row, DeletionStands
    <3> QED BY <2>3, <3>2, <3>3 DEF update, Reject, RollBack, tables
  <2> QED BY <2>1, <2>2, <2>3, NextDeletes
<1> QED BY <1>1, TablesKeptTogether, PTL DEF Spec, DeletedStaysDeleted, DeletionStands
=============================================================================
