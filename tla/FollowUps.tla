------------------------------ MODULE FollowUps ------------------------------
(***************************************************************************)
(* What follows a post - inbox messages and digests, webhooks, the counts  *)
(* kept in Redis and in the process, the search index - and the end of the   *)
(* server that does it, and what must be true of them.                     *)
(*                                                                         *)
(* The parts share no state: a behaviour is one of one part, that of the   *)
(* situation it started in.                                                *)
(***************************************************************************)
EXTENDS Digest, Webhooks, CachedCounts, SearchIndex, LRU, Shutdown

vars ==
  <<requestVars, notificationVars, webhookVars, cachedVars, searchVars, lruVars,
    shutdownVars>>

Init ==
  /\ RequestsInit /\ NotificationInit /\ WebhooksInit /\ CachedCountsInit
  /\ SearchInit /\ LRUInit /\ ShutdownInit

Notifying ==
  /\ situation.part = "inbox" /\ NotificationNext
  /\ UNCHANGED <<webhookVars, cachedVars, searchVars, lruVars, shutdownVars>>
Calling ==
  /\ situation.part = "webhooks" /\ WebhooksNext
  /\ UNCHANGED <<notificationVars, cachedVars, searchVars, lruVars, shutdownVars>>
Counting ==
  /\ situation.part = "counts" /\ CachedCountsNext
  /\ UNCHANGED <<notificationVars, webhookVars, searchVars, lruVars, shutdownVars>>
Searching ==
  /\ situation.part = "search" /\ SearchNext
  /\ UNCHANGED <<notificationVars, webhookVars, cachedVars, lruVars, shutdownVars>>
Remembering ==
  /\ situation.part = "lru" /\ LRUNext
  /\ UNCHANGED <<notificationVars, webhookVars, cachedVars, searchVars, shutdownVars>>
Stopping ==
  /\ situation.part = "shutdown" /\ ShutdownNext
  /\ UNCHANGED <<notificationVars, webhookVars, cachedVars, searchVars, lruVars>>

Next == Notifying \/ Calling \/ Counting \/ Searching \/ Remembering \/ Stopping

(* The job server goes on with its batch; goroutines end, and the main     *)
(* goroutine goes on once it is stopping.                                  *)
WithOthers(A) == A /\ UNCHANGED <<webhookVars, cachedVars, searchVars, lruVars, shutdownVars>>
Alike(A) == A /\ UNCHANGED <<notificationVars, webhookVars, cachedVars, searchVars, lruVars>>
Fairness ==
  /\ WF_vars(situation.part = "inbox" /\ WithOthers(Batch))
  /\ WF_vars(situation.part = "shutdown" /\ Alike(Main))
  /\ \A g \in Goroutines : WF_vars(situation.part = "shutdown" /\ Alike(Exit(g)))

Spec == Init /\ [][Next]_vars /\ Fairness

----------------------------------------------------------------------------
(* The values the tables and what requests and goroutines hold range over. *)
TypeOK ==
  /\ served \in 0 .. situation.requests
  /\ live \subseteq User /\ told \subseteq DOMAIN posts
  /\ \A u \in User : \A i \in DOMAIN messages[u] :
       messages[u][i].post \in DOMAIN posts /\ messages[u][i].at \in 1 .. clock
  /\ lastViewed \in [User -> 0 .. clock]
  /\ \A i \in DOMAIN settings : settings[i].user \in User
  /\ job.at \in {"page", "users", "over"} /\ counted \subseteq User
  /\ \A k \in DOMAIN digests : digests[k].to \in User \cup {0}
  /\ hooks \in [Hook -> HookRow] /\ tokens \in Nat
  /\ \A c \in calls : c.hook \in Hook /\ c.url \in URL /\ c.token \in 1 .. tokens
  /\ viewKeys \subseteq Viewer /\ favorites \subseteq Viewer
  /\ {counter, favoriteKey} \subseteq Nat \cup {NoKey}
  /\ viewsHistory =< views
  /\ rows \in [Doc -> {"unsaved", "live", "deleted"}] /\ index \subseteq Doc
  /\ \A c \in esCalls : rows[c.doc] # "unsaved"
  /\ goroutine \in [Goroutines -> {"new", "running", "signalling", "done"}]
  /\ DOMAIN items \subseteq CacheKey /\ Cardinality(DOMAIN items) =< CacheSize
  /\ goroutineCount \in Nat /\ exitSignals \in 0 .. Capacity /\ handlers \in Nat

(* A message counts as read just when its reader has marked it, or a later *)
(* one, while it was in his inbox, if requests come one at a time          *)
(* (UpdateLastInboxMessageViewed, store/sqlstore/user_store.go:273; a      *)
(* message is stamped at app/post.go:309 and inserted later).              *)
ReadIfMarked ==
  Alone => \A u \in User : \A i \in DOMAIN messages[u] :
    ~IsUnread(u, messages[u][i])
      <=> \E mark \in marks[u] : messages[u][i].at =< mark[1] /\ i =< mark[2]

Readers(k) == {u \in User : \E i \in DOMAIN messages[u] : messages[u][i].post = k}

(* However comments and edits interleave and whoever is named how often,   *)
(* nobody is told twice of the same text, the author of the parent is told *)
(* of every new answer and comment whose messages were written, and nobody *)
(* else but those who are named and take part                              *)
(* (saveInboxMessagesForComment, app/post.go:292).                         *)
ToldOnce ==
  /\ \A u \in User : \A i, j \in DOMAIN messages[u] :
       i # j => messages[u][i].at # messages[u][j].at
  /\ \A k \in told : posts[k].type # "question" => Author \in Readers(k)
  /\ \A k \in Comments : \A u \in Readers(k) \ {Author} :
       /\ \E t \in DOMAIN posts[k].texts : \E i \in DOMAIN posts[k].texts[t] :
            posts[k].texts[t][i] = u
       /\ \E c \in Comments : posts[c].user = u

(* A batch has counted the unread messages of every verified user who asks *)
(* for it and has not been deleted, in whatever order users are returned,  *)
(* if no statement fails and fewer users than a page has settings are      *)
(* deleted (emailBatchJob, app/email_batching.go:84).                      *)
EveryoneCounted ==
  (job.at = "over" /\ lost = {} /\ Cardinality(User \ live) < GetUsersLimit)
    => \A i \in DOMAIN settings :
         (settings[i].interval = Interval /\ settings[i].user \in live \ Unverified)
           => settings[i].user \in counted

(* What users are told of a discussion, by message, mark and digest, is    *)
(* all they should be told, once.                                          *)
ReadersAreTold == ReadIfMarked /\ ToldOnce /\ EveryoneCounted

(* A batch comes to an end, whatever is read, written and deleted          *)
(* meanwhile (app/email_batching.go:83).                                   *)
BatchEnds == ("digest" \in situation.ops) ~> (job.at = "over")

(* A user is in the digests of one interval at most: there is one row of   *)
(* settings for him, if requests come one at a time                        *)
(* (store/sqlstore/notification_setting_store.go:44).                      *)
OneSettingPerUser == Alone => \A u \in User : Cardinality(SettingsOf(u)) =< 1

(* No two live hooks of a team call the same URL, whatever sequence of     *)
(* creations, changes and deletions led to them, if they come one at a     *)
(* time (app/webhook.go:145, 174).                                         *)
NoSharedUrl ==
  Alone => \A g, h \in GetByTeam : g # h => hooks[g].urls \cap hooks[h].urls = {}

(* Settings and hooks stay apart as their tables need, without keys that   *)
(* would keep them so.                                                     *)
TablesAgree == TypeOK /\ OneSettingPerUser /\ NoSharedUrl

(* No call about a post carries a token that was replaced, or deleted with *)
(* its hook, before the post was made, if changes of hooks come one at a   *)
(* time (RegenWebhookToken and DeleteWebhook, app/webhook.go:192; goroutines*)
(* keep the token they have read).                                         *)
WithdrawnTokensUnused ==
  Alone => \A c \in calls : c.token \notin teamPosts[c.post].void

(* The views in the database and in Redis are no more than the views that  *)
(* were counted and one for each counter that was started, or so many      *)
(* times as much as there are viewers at once, who may all write the same  *)
(* window of views, if no Redis command fails (ViewPost,                   *)
(* store/cachelayer/post_layer.go:21).                                     *)
ViewsNotOverstated ==
  lost = {} =>
    views + (IF counter = NoKey THEN 0 ELSE counter) =< situation.slots * (viewed + windows)

(* The cached number of favourites is that of the database, if requests    *)
(* come one at a time and none is cut short before it has invalidated it   *)
(* (store/cachelayer/user_favorite_post_layer.go:38).                      *)
FavoritesCached ==
  (Alone /\ lost = {} /\ \A pr \in Proc : request[pr] = Idle)
    => favoriteKey \in {NoKey, Cardinality(favorites)}

(* What is counted beside the tables, in Redis and in the process, is      *)
(* neither lost sight of nor counted twice.                                *)
CountsHold == ViewsNotOverstated /\ FavoritesCached /\ LenIsExact

(* A question or answer is in the index just when it has been saved and    *)
(* not deleted, if requests come one at a time, nothing fails and no two   *)
(* goroutines about it ran at once (SearchPostStore,                       *)
(* store/searchlayer/post_layer.go:22, 74).                                *)
SearchFollowsPosts ==
  (Alone /\ lost = {} /\ \A pr \in Proc : request[pr] = Idle)
    => \A d \in Doc \ (CommentDoc \cup overtaken) :
         CallsAbout(d) = {} => (d \in index <=> rows[d] = "live")

(* A server that is stopped gets to the end: no signal that a goroutine    *)
(* has ended is missed by the one who waits (app/server.go:312, 326).      *)
ShutdownEnds == (main = "stopping") ~> (main = "closed")

(* What runs apart from the handlers comes to its end.                     *)
JobsEnd == BatchEnds /\ ShutdownEnds
=============================================================================
