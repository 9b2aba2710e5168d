-------------------------------- MODULE Inbox --------------------------------
(***************************************************************************)
(* Inbox messages about one question, and what their readers have read.    *)
(*                                                                         *)
(* A message has no mark of its own: it is unread if its CreateAt is later *)
(* than its reader's LastInboxMessageViewed, which setInboxMessageRead     *)
(* moves.  Messages are stamped before they are written.  GetMillis is a   *)
(* clock that moves on at every stamp.                                     *)
(***************************************************************************)
EXTENDS Requests

CONSTANTS
  User,                    \* the ids of users, in their order, behind 0
  Author,                  \* the author of the question
  GroupMembers,            \* the members of the group questions are sent to
  GROUP_MEMBER_SEARCH_DEFAULT_LIMIT, MAX_PARSE_REPLY_COUNT,
  Texts                    \* the texts of comments: the users named in
                           \* their words, a name may be there twice

ASSUME InboxAssumption ==
  /\ User \subseteq Nat \ {0} /\ IsFiniteSet(User)
  /\ Author \in User /\ GroupMembers \subseteq User
  /\ Texts \subseteq Seq(User)
  /\ GROUP_MEMBER_SEARCH_DEFAULT_LIMIT \in Nat /\ MAX_PARSE_REPLY_COUNT \in Nat \ {0}

VARIABLES
  live,      \* the users whose row is not deleted
  posts,     \* posts[k]: the k-th question, answer or comment saved
  messages,  \* messages[u]: the rows of InboxMessages to u, as inserted
  events,    \* the events published to web sockets: <<post, reader>>
  lastViewed,\* LastInboxMessageViewed of the rows of Users
  clock,     \* the last stamp given
  marks,     \* history: marks[u]: the stamps of the messages u marked as
             \* read, each with the number of messages he had by then
  told       \* history: the posts whose first messages were all written

inboxVars == <<live, posts, messages, events, lastViewed, clock, marks, told>>

InboxMessage(k, stamp) == [post |-> k, at |-> stamp]
IsUnread(u, m) == m.at > lastViewed[u]

(* The question that is discussed is open to everybody; those that are     *)
(* asked here are asked of a group, and so in its team.  The batch counts  *)
(* the messages without a team.                                            *)
TeamId(k) == IF posts[k].type = "question" THEN "team" ELSE ""
UnreadSince(u, date) ==
  {i \in DOMAIN messages[u] : messages[u][i].at > date /\ TeamId(messages[u][i].post) = ""}

(* The rows of posts: comments with every text they have had.              *)
Comments == {k \in DOMAIN posts : posts[k].type = "comment"}

(* The distinct names in a text, up to a limit, each by the place it first *)
(* has in it.                                                              *)
FirstPlaces(text) == {i \in DOMAIN text : \A j \in 1 .. i - 1 : text[j] # text[i]}

ParseReplies(text) ==
  LET first == FirstPlaces(text)
  IN {i \in first : Cardinality({j \in first : j =< i}) =< MAX_PARSE_REPLY_COUNT}

(* How often text names u, as one who takes part in the discussion.        *)
Replies(text, participants, u) ==
  Cardinality({i \in ParseReplies(text) : text[i] = u /\ u \in participants})

----------------------------------------------------------------------------
(* Posts.  Their rows are written as PostLifecycle has it.                 *)

SavePost(pr, op, post, phase) ==
  /\ Accept(pr, op) /\ post.user \in live \cap situation.posters
  /\ posts' = Append(posts, post)
  /\ Become(pr, [at |-> phase, force |-> TRUE, post |-> Len(posts) + 1])
  /\ UNCHANGED <<live, messages, events, lastViewed, clock, marks, told>>

Row(type, u, texts) == [type |-> type, user |-> u, texts |-> texts]
CreateQuestion(pr, u) == SavePost(pr, "ask", Row("question", u, <<>>), "ask")
CreateAnswer(pr, u) == SavePost(pr, "answer", Row("answer", u, <<>>), "answer")
CreateComment(pr, u, text) == SavePost(pr, "comment", Row("comment", u, <<text>>), "inform")

(* An edited comment is told to those it names, once more.  Both requests  *)
(* read the comment again before they do.                                  *)
Text(k) == posts[k].texts[Len(posts[k].texts)]
UpdateComment(pr, k, text) ==
  /\ Accept(pr, "edit_comment") /\ k \in Comments /\ posts[k].user \in live
  /\ text # Text(k)
  /\ posts' = [posts EXCEPT ![k].texts = Append(@, text)]
  /\ Become(pr, [at |-> "inform", force |-> FALSE, post |-> k])
  /\ UNCHANGED <<live, messages, events, lastViewed, clock, marks, told>>

(* A request stamps the messages it is going to write: to[u] to user u.    *)
Stamp(pr, to) ==
  /\ clock' = clock + 1
  /\ Become(pr, [at |-> "deliver", post |-> request[pr].post, force |-> request[pr].force,
                 to |-> to, stamp |-> clock + 1])
  /\ UNCHANGED <<live, posts, messages, events, lastViewed, marks, told>>

To(readers) == [u \in User |-> IF u \in readers THEN 1 ELSE 0]

(* A question goes to the first members of the group, if it has any.       *)
AskGroup(pr) ==
  /\ At(pr, "ask")
  /\ \E page \in SUBSET GroupMembers :
       /\ \/ page = GroupMembers
          \/ Cardinality(page) = GROUP_MEMBER_SEARCH_DEFAULT_LIMIT
       /\ Cardinality(page) =< GROUP_MEMBER_SEARCH_DEFAULT_LIMIT
       /\ Stamp(pr, To(page))

InformQuestioner(pr) == At(pr, "answer") /\ Stamp(pr, To({Author}))

(* Without a name in it a comment is told to the author of its parent.     *)
(* Else to those it names among that author and the live comments' users,  *)
(* and to that author in any case if it is new.                            *)
saveInboxMessagesForComment(pr) ==
  LET text == Text(request[pr].post)
      participants == ({Author} \cup {posts[k].user : k \in Comments}) \cap live
      named == [u \in User |-> Replies(text, participants, u)]
  IN /\ At(pr, "inform")
     /\ Stamp(pr, IF ParseReplies(text) = {} THEN To({Author})
                  ELSE IF request[pr].force /\ named[Author] = 0 THEN [named EXCEPT ![Author] = 1]
                  ELSE named)

(* One statement inserts all of them; one without rows is refused.         *)
SaveMultipleInboxMessages(pr) ==
  LET r == request[pr]
  IN /\ At(pr, "deliver")
     /\ IF \A u \in User : r.to[u] = 0
        THEN Finish(pr) /\ UNCHANGED <<messages, told>>
        ELSE /\ messages' = [u \in User |-> messages[u] \o
                               [i \in 1 .. r.to[u] |-> InboxMessage(r.post, r.stamp)]]
             /\ told' = IF r.force THEN told \cup {r.post} ELSE told
             /\ Become(pr, [at |-> "publish", post |-> r.post, to |-> r.to])
     /\ UNCHANGED <<live, posts, events, lastViewed, clock, marks>>

PublishInboxMessages(pr) ==
  LET r == request[pr]
  IN /\ At(pr, "publish") /\ Finish(pr)
     /\ events' = events \cup {<<r.post, u>> : u \in {v \in User : r.to[v] > 0}}
     /\ UNCHANGED <<live, posts, messages, lastViewed, clock, marks, told>>

----------------------------------------------------------------------------
(* Readers.                                                                *)

(* A message is read by its id; whether it is later than the last one      *)
(* viewed is looked up in another statement than the one that writes.      *)
setInboxMessageRead(pr, u, i) ==
  /\ Accept(pr, "read") /\ i \in DOMAIN messages[u]
  /\ IsUnread(u, messages[u][i])
  /\ Become(pr, [at |-> "mark", user |-> u, stamp |-> messages[u][i].at])
  /\ UNCHANGED inboxVars

UpdateLastInboxMessageViewed(pr) ==
  LET r == request[pr]
  IN /\ At(pr, "mark") /\ Finish(pr)
     /\ lastViewed' = [lastViewed EXCEPT ![r.user] = r.stamp]
     /\ marks' = [marks EXCEPT ![r.user] = @ \cup {<<r.stamp, Len(messages[r.user])>>}]
     /\ UNCHANGED <<live, posts, messages, events, clock, told>>

(* A user is deleted, as Accounts has it.                                  *)
DeleteUser(u) ==
  /\ Counted("delete_user") /\ u \in live
  /\ live' = live \ {u}
  /\ UNCHANGED <<request, posts, messages, events, lastViewed, clock, marks, told>>

----------------------------------------------------------------------------
InboxInit ==
  /\ live = User /\ posts = <<>> /\ messages = [u \in User |-> <<>>] /\ events = {}
  /\ lastViewed = [u \in User |-> 0] /\ clock = 0
  /\ marks = [u \in User |-> {}] /\ told = {}

InboxNext ==
  \/ \E pr \in Proc :
       \/ \E u \in User : \/ CreateQuestion(pr, u) \/ CreateAnswer(pr, u)
                          \/ \E text \in Texts : CreateComment(pr, u, text)
                          \/ \E i \in DOMAIN messages[u] : setInboxMessageRead(pr, u, i)
       \/ \E k \in DOMAIN posts, text \in Texts : UpdateComment(pr, k, text)
       \/ AskGroup(pr) \/ InformQuestioner(pr) \/ saveInboxMessagesForComment(pr)
       \/ SaveMultipleInboxMessages(pr) \/ PublishInboxMessages(pr)
       \/ UpdateLastInboxMessageViewed(pr)
       \/ Fault(pr) /\ UNCHANGED inboxVars
  \/ \E u \in User : DeleteUser(u)
=============================================================================
