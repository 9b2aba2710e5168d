# Verification of qa-discussion

TLA+ models of the question-and-answer server in this repository, translated
from its Go source; TLC configurations that check them on small instances; and
theorems that TLAPS proves for instances of any size.  `PROJECT.json` lists, in
a form for tools, the components, the runs, the source lines behind each
definition, the hazards and the theorems; this file explains them.

Contents: [1 the system](#1-the-system) · [2 the modules](#2-the-modules) ·
[3 how the code is modelled](#3-how-the-code-is-modelled) ·
[4 the runs](#4-the-runs) · [5 what is proved](#5-what-is-proved) ·
[6 findings](#6-where-the-code-disagrees-with-itself) ·
[7 not modelled](#7-not-modelled) · [8 plan](#8-plan)

Running things, in this directory:

    tlc -workers 2 -config MCPosts_many.cfg MCPosts
    tlapm PostsProofs.tla

## 1 The system

An HTTP API (`api/`) over an application layer (`app/`) over a stack of stores:
`store/searchlayer` (Elasticsearch) wraps `store/cachelayer` (Redis), which
wraps `store/sqlstore` (MySQL, one master and optional read replicas).  Browsers
also hold a WebSocket (`app/web_conn.go`) to a hub (`app/web_hub.go`) of the
server they are connected to.  Several servers may run side by side: they share
the databases and tell one another of ended sessions over Redis publish and
subscribe (`clusters/`).  A batch server (`cmd/.../jobserver.go`) mails digests.

What there is to get wrong, in short:

| Part | State | Operations | What makes it hard |
|---|---|---|---|
| Votes and flags | `Votes` rows, counters in `Posts`, points in `Users`, `UserPointHistory` | vote up or down, flag, take each back | counters computed from rows read before the transaction; history written beside it; lagging replica |
| Life of posts | `Posts`, old revisions | ask, answer, comment, edit, delete, choose the best answer, lock, protect | checks on rows read earlier; an edit writes the whole row back |
| Reviews | `Votes` rows of type review, flag, system | open, reject, complete (which deletes the post) | three statements that close the same rows, some on another connection |
| WebSocket hub | index of connections, channels, one goroutine | register, unregister, broadcast, answer, stop | channels in both directions between hub and pumps; slow connections; panics; removal during iteration |
| WebSocket sessions | a copy of the session per connection | authenticate (hub and reader), revoke, expire | look-up and store are two steps; other servers learn by lossy messages |
| Teams and members | `Teams`, `TeamMembers`, `Tokens`, a count in Redis | create, invite, join by token or id, leave, come back, change type, update, delete | limits and admins counted before the write; whole rows written back; tokens deleted after use; a cached count that never expires |
| User groups | `UserGroups`, `GroupMembers` | create, update, delete, add, remove, change type | membership of the team checked earlier; leaving a team takes a member out of its groups one by one |
| Accounts | `Users`, `Tokens` | sign up, verify, recover, log in, change, delete | mailed tokens deleted after use; failed attempts counted in several places; the first user becomes admin |
| Login sessions, OAuth | `Sessions`, applications, codes, access data | log in, log out, revoke all; authorize, exchange, refresh, deauthorize | sessions and access data written and removed apart, some in goroutines; codes deleted after use |
| Inbox, digests | messages, read marks, settings | answer, comment, ask a group, edit, read; the batch | messages stamped before they are saved; pages of users that change while they are read |
| Webhooks | hooks with URLs and tokens | create, change, new token, delete; call after a post | checks against other hooks read earlier; goroutines that keep a token |
| Redis counts, search index, in-process cache | view counter, count of favourites; documents; LRU | view, favourite; index, delete; set, get, purge | several commands for one decision; goroutines without an order; purge by generation |
| Shutdown | goroutine counter and signal channel | `Server.Go`, `Shutdown` | counting down and signalling are two steps; the last signal may be missed |
| the rest | section 7 | | |

How they meet: a handler reads its session, runs a post operation on the
stores, saves inbox messages and publishes events to the hub (`Server.Publish`);
the hub checks each connection's session before it sends; a session that ends
is deleted from the database, then from the hubs of all servers.

## 2 The modules

| Module | Stands for | Builds on |
|---|---|---|
| `PostStore` | the tables of the post operations, the master and replica, the phases of a request, points and their history | |
| `PostVotes` | votes, flags and their cancellation (`app/post.go`, `store/sqlstore/post_store.go`) | `PostStore` |
| `PostLifecycle` | creation, edit, deletion, best answer, lock, protection | `PostStore` |
| `PostReviews` | reviews, their rejection and completion (`app/vote.go`, `vote_store.go`) | `PostLifecycle` |
| `Posts` | all of these on one set of tables; their properties | the four above |
| `PostsProofs` | theorems about `Posts` | `Posts` |
| `HubConns` | abstract: a set of connections, and who is still to be offered a broadcast | |
| `HubIndex` | `hubConnectionIndex`: slices, positions, removal in place, the loops over them | refines `HubConns` |
| `HubIndexProofs` | theorems about `HubIndex`, the refinement included | `HubIndex` |
| `WebHub` | the hub's select loop with the pumps of its connections and the publishers | uses the set `HubConns` describes |
| `WebHubProofs` | theorems about `WebHub` | `WebHub` |
| `WebSessions` | sessions cached in connections, their checks and their revocation across servers | |
| `WebSessionsProofs` | theorems about `WebSessions` | `WebSessions` |
| `TeamStore` | tables of teams, groups and invitations, the cached count, the statements of a request | |
| `TeamMembers`, `TeamGroups` | `app/team.go` and `app/user_group.go` | `TeamStore` |
| `Teams` | both on one set of tables; their properties | the three above |
| `TeamsProofs` | theorems about `Teams`, one request at a time | `Teams` |
| `AccountStore` | tables of users, tokens, sessions and OAuth, the statements of a request | |
| `LoginSessions` | how sessions come and go (`app/session.go`, `RevokeAccessToken`) | `AccountStore` |
| `Accounts`, `OAuth` | `app/user.go`, `login.go`, `authentication.go`; `app/oauth.go` | `LoginSessions` |
| `Identity` | both on one set of tables; their properties | the four above |
| `IdentityProofs` | theorems about `Identity` | `Identity` |
| `Requests` | the statements and commands of a request, and their failures | |
| `Inbox`, `Digest` | messages and marks; settings and the batch job | `Requests`; `Inbox` |
| `Webhooks`, `CachedCounts`, `SearchIndex` | hooks and their calls; views and favourites in Redis; the index of posts | `Requests` |
| `RecentCache` | abstract: a cache that holds what was used last and forgets what it is told to | |
| `LRU` | the in-process cache with its generations | `Requests`; refines `RecentCache` |
| `LRUProofs` | theorems about `LRU`, the refinement included | `LRU` |
| `Shutdown` | goroutines, and who waits for them | `Requests` |
| `FollowUps` | these parts, one in each behaviour; their properties | the seven above |
| `FollowUpsProofs` | theorems about `FollowUps` and its parts | `FollowUps`, `LRUProofs` |
| `MC...` | the constants of small instances | |

Correspondence of state: `posts[p]` is the row of `Posts` (its `status` folds
`DeleteAt` and existence), `upVotes` and `downVotes` the rows of `Votes` by their
primary key, `reviews[k]` the state that `InvalidateAt`, `CompletedAt` and
`RejectedAt` encode, `points[u]` is `Users.Points`, `history[u]` the sum of the
user's `UserPointHistory`, `replica` what a `SELECT` through `GetReplica()` sees,
`request[pr]` a goroutine that serves a request.  In `WebHub`, `hub` is the
position of the hub's goroutine, `pump[c]` that of a connection's HTTP handler
(`Register`, `Pump`, `readPump`), `writer[c]` that of `writePump`, and `send[c]`,
`broadcast` are the buffered channels.  In `WebSessions`, `cached[c]` says that
`sessionExpiresAt` is not reset, `token[c]` that the session token is not empty.
In `Teams` and `Identity` each variable is a table and `request[pr]` a handler's
goroutine with what it has read; so in `FollowUps`, where `job` and `digests` are the
batch's loop and goroutines, `calls` the goroutines about to call a URL, `esCalls`
those about to call Elasticsearch, and `counter`, `viewKeys`, `favoriteKey` keys in
Redis.  `items` in `LRU` is the list and the map, which change together under a lock:
`usedAt` is an element's place in the list.

## 3 How the code is modelled

**Requests.** A request is a goroutine with up to four steps: *accept* (what the
API and App layers read and refuse), *read* (what the store reads again outside
its transaction), *write* (the transaction), and, for some, a last statement
after the commit.  Any step of any other request may come between.  The reads
of one phase are one step: no decision is made until all are there, and what
matters is their distance from the write.  A transaction is one step: MySQL's
row locks are held until it ends, and each touches its rows once.

**Refusals.** A request without permission, from a suspended user or with an
invalid body changes nothing; it is a request that is never made.  Checks of
rows (is the post there, locked, has it children) are guards.

**Failures.** With `Faulty`, any statement may fail and the server may stop before
a commit: the transaction leaves no trace, but what the code writes beside it
(history rows, invalidated reviews) stays, and ignored errors are ignored.

**Replica.** `README.md` of the repository offers read replicas as an option, so
`HasReplica` is a constant.  A replica shows some earlier state of the master,
whole and never going back.  Only `many` and `sessions` have one: teams,
accounts and what follows a post are read as the master has them.  Some of what is
checked there needs that.  Hooks are read from a replica (`webhook_store.go:50`, `76`), so that one
that lags gives a goroutine a token withdrawn before it began (`WithdrawnTokensUnused`); the
count of favourites, cached for ever, is read from one (`user_favorite_post_store.go:40`),
so that a count from before the change may stay (`FavoritesCached`); the admins of a
team are counted on one (`AdminsRemain`).

**Scope of posts.** Public posts, with `TeamId = ''`.  Their queries compare with
`TeamId IS NULL`, which is never true of `''`; so no post of a user is ever
counted, every creation opens a system review, and every review is of revision 1
(`GetPostCount`, `GetCurrentRevisionForPost`).  `createReviewVote` takes the user
id from a path that has none, so there is one review row for each post.

**Completion.** `CompleteReviewsForPost` deletes the post first, which invalidates
every pending review; what remains for the final statement is a review that
came in between.

**The hub.** Channels without a buffer are one joint step of sender and hub;
buffered ones are sequences.  A connection registers once in the program, so a
name registered again stands for a new connection.  What `IsAuthenticated`
answers is a choice at each check, no for ever once it fails, as the check
that fails clears the token; `WebSessions` models the check itself.  A hub that
panics (`doRecover`) starts its loop again with an empty index.  Numbers of
events (`Sequence`) and JSON are left out.

**Handlers without a transaction.** What `Teams`, `Identity` and `FollowUps` model
writes in statements of its own, one after the other.  There a request is
accepted with all it reads, then takes a step for each statement or command; a
failure (`Fault`) or a crash may come before each, and what was done stays.
Histories (`lost`, `proven`, `used`, `earned`, `told` ...) record what the
properties speak of and the tables do not keep.

**Situations.** A behaviour of `Identity` or `FollowUps` starts in one of several
situations: the rows there are, the operations clients ask for, how many at a
time and how many in all.  Situations keep the instances small, and put
together what has to do with each other.

**Failures are one at a time** in `FollowUps`: the handlers share one rule, to do
the next statement or stop, and a property that one failure excuses says
nothing of a second.

**`AuthorizedAppsMapped`.** No table is registered for authorizations, so that the
row behind each is never saved (section 6).  `accounts` checks what the rest
of the provider does if it were; `oauth` is the program as it is.

**Sessions.** All connections of a model are of one user, whose sessions a
revocation clears together.  A look-up may fail although the row is there (the
database may be down).  Time is an action: `Expire`, `FiveSeconds`.

## 4 The runs

| Run | Question | Size |
|---|---|---|
| `votes_one` (`MCPosts_votes_one.cfg`) | Served one at a time, with statements that fail and servers that stop: are the counters those of the rows, the points those of the deeds, are reviews of deleted posts closed? | 2 users, a question and its answer, 4 requests of 14 kinds; 670 000 states |
| `life_one` | Served one at a time: are answers counted, is nothing orphaned, is the best answer live, is the comment limit kept, does an edit save what it replaces? | a question, 2 answers (one by the asker), 2 comments with a limit of 1, 7 requests; 180 000 states |
| `many` | Two requests at a time, read from a lagging replica: do points and history agree, are decisions final, are flags never over-counted, is everything well typed? | 3 requests of every kind but edits; 120 000 states |
| `edit_race` | What an overlapping edit does to a deletion: a violation, section 6 | 2 requests |
| `hub_index` (`MCHubIndex.cfg`) | Do the index's maps agree while broadcasts remove connections, and does the index behave like `HubConns`? | 3 connections of one user, 1 of another; 3 000 states |
| `hub_safe` (`MCWebHub_safe.cfg`) | Are events written in order, none lost silently, closed channels never used again, finished connections forgotten? | 2 connections, 2 events, queues of 2 and 1, a panic at any check; 3.1 million states |
| `hub_live` | Does stopping return, do dropped connections end, are requests answered, do publishers go on? | 1 connection, 3 events, under fairness; 50 000 states |
| `sessions` (`MCWebSessions_all.cfg`) | Is a request after a revocation refused, is every copy left of a revoked session one the revocation has yet to reach or was under way when it came, and does it reach every registered connection whose message is not lost? | 2 sessions of a user, a connection, 2 servers, lagging replica, lossy messages; 203 000 states |
| `teams_one` (`MCTeams_one.cfg`) | Served one at a time, any statement of which may fail: do admins, limits, points, invitations, groups and the cached count stay as they must? | 3 users, 2 teams of at most 2 members, a group, a token, 4 requests of 21 kinds; 209 000 states |
| `accounts` (`MCIdentity_all.cfg`) | Are addresses verified only by who reads their mail, guesses bounded, tokens and codes used once, and do sessions go with accounts and access tokens? | 10 situations of up to 3 accounts, 1 or 2 applications, 2 to 4 requests, 1 or 2 at a time; 517 000 states |
| `oauth` (`MCIdentity_oauth.cfg`) | Does a saved code reach its application? A violation, section 6 | 1 user, 1 application |
| `followups` (`MCFollowUps_all.cfg`) | Messages, marks, batches, settings, hooks, counts, index, cache, shutdown: is everybody told once, counted, called with the present token; do counts, index and cache say what is true; does the batch end and the store outlive the goroutines? | 14 situations with one failure each; 877 000 states |

A property of several parts is a conjunction of named ones, defined and explained
next to each other; TLC names the whole when a part is violated.  The `TypeOK` of
`HubIndex` is a part of the invariant that is proved (section 5); that of
`WebSessions` documents its state and is in no run.

### Properties of posts

*One at a time.*  `CountersMatchVotes`, `AnswersCounted`: each counter in `Posts`
is the number of rows it counts.  `PointsMatchDeeds`: a user's points are what his
live posts, the votes and flags on them, and the best answers chosen are worth
(`Deeds` in `Posts`), with one oddity of the code written into it: an answer to
one's own question earns nothing but costs three points when it is deleted.
`PostsHangTogether` is `NoOrphans`, `BestAnswerIsLive` and `CommentLimitKept`, over
creation, choice and deletion in any order.  `DeletedPostHasNoPendingReview`,
`EditKeepsOldContent`.
These need requests one at a time: each is decided on rows read before the
transaction, and section 6 says what overlapping does to three.

*Any overlap.*  `PointsMatchHistory`: unless statements fail, points are the sum
of their history, since both take the same award.  `ReviewsDecidedOnce`: each of
the closing statements has the condition that the row is still open.
`FlagCountBounded`: without edits, a post shows no more flags than there are rows
(cancellations of one flag may be counted twice, never too little).
`DeletedStaysDeleted`, which edits break (section 6), is proved of everything else (section 5).

*Bounds.*  `MaxRequests` bounds the requests of a behaviour.  Every property is
about one post and the rows and users near it, and the shortest ways to violate
one take two to four requests (each property's mutant is found within the
bound): vote, lock and a second vote; creation, choice and deletion; creation of
two comments, deletion of one.  `life_one` has the seven that a question, both
answers, a choice, a comment, its deletion and another comment need.  The
constants of points are those of the code; the comment limit is 1 instead of 20.

### Properties of the hub

`IndexIsUsable`: what the hub's index holds can be sent to and closed once, and no
channel is over its limit (`ClosedIsForgotten`, `FinishedIsForgotten`, `TypeOK`).  `WrittenInOrder`, `NoSilentGap`: a connection gets
the events for its user since it registered, in order, after a hello, unless it
was slow, lost its session, or was dropped, which its client notices.
`StopReturns`: `HubStop`, which waits for every pump while pumps wait for the hub,
returns.  `DroppedConnsEnd`.  `CallersGoOn`: requests end and publishers get on
(`RequestsEnd`, `PublishersGoOn`).

*Bounds.*  A queue of two with a warning level of one has the cases full, slow
and empty; two connections give a broadcast that drops the one and reaches the
other.  For liveness one connection is enough for what it is asked: every wait
is of the hub for one pump or of one pump for the hub, and all give up on the
same channel; safety with two connections shows they do not disturb each other.

*Fairness* (`WebHub!Fairness`).  Go's `select` chooses among ready cases at random:
a case that is ready again and again is taken, strong fairness of what the hub
receives.  A goroutine that can go on does: weak fairness of the hub's own
steps, of each reader once its socket is closed and of each writer when it has
something to write or a reason to stop.  Clients may be silent for ever, nobody
need publish and the hub need not stop; a hub may panic as
often as it checks a session.

### Properties of sessions

`RevokedServesNothing`: a WebSocket request that arrives when its session is gone
from every database is refused, since the handler looks again.
`StaleCopiesAreDue`: a good copy of a revoked session is on a server the revocation
has yet to reach (`ResetIsDue`), or was under way when it came.  Under way (`UnderWay`)
is a connection that has copied its session and is not registered yet, a reader
that has found the row and not stored it, and a row the replica alone still shows;
what was none of these when its hub was told (`missed`) is reset, and nothing brings it
back: no check that begins later, of hub or reader, and nothing that becomes of the
user's other sessions, whose revocation resets good copies, too, so that they are read again.
What was under way keeps its copy (section 6), hence the exemption.
`RevocationReachesConns`: every connection registered when the
row goes is reset in the end, on every server whose message is not lost.

*Fairness.*  Weak for a revocation's own next step and for a check that has read
the row and stores the answer; strong for what a hub receives, as above.

### Properties of teams

`AdminsRemain`: a live team, and a live group, that has an admin
keeps one, whatever sequence of leaving, coming back, changes of type and
failures; a team loses its last one only with his account, a group only as he
leaves the team.  `TablesAgree`: rows are well formed, and members of a group are in
its team (`GroupMembersAreTeamMembers`), also when leaving a team stops half-way.
`MembersAreCounted`: the limit holds, with the members counted on the master or in
Redis (`MaxMembersKept`), as the cached count, which never expires, is never below
the real one (`CachedCountCovers`).  `InvitationsEnd`: by id (`InviteStaysWithdrawn`) and
by token (`TokenAdmitsOnce`).  `PointsAreEarned`: no rewriting of the
row loses a member's points.  All are of requests one at a time (section 6).

*Bounds.*  Two members a team make the limit bind with three users; four requests
are an invitation, two ways in and a way out, or the change of both admins' types
and one leaving.

### Properties of accounts

`VerifiedWasProven`, over changes of address and old tokens.  `GuessesBounded`: at
the three places where a password is asked for, with the one counter.
`OnceOnly`: with as many requests at once as may race, no more than that many are
the first account (`FirstIsAdmin`) or use a token (`TokenWorksOnce`), and one exchanges a
code (`CodeMakesOneSession`).  `TablesAgree`: rows are well formed; `RevokeAllSessions` skips
what fails, and what it leaves of a deleted account is what failed
(`DeletedHasNoSession`); a live session of an application has the access token that
revokes it, and the other way round, over exchange, renewal, revocation and
deletion (`TokensMatchSessions`).

*Bounds.*  The situations have two login attempts, so that the third is one too
many; codes and tokens that are used, expire and come again need four requests.

### Properties of what follows a post

`ReadersAreTold`: read is what was marked while it was there (`ReadIfMarked`); each
reader is told of each text once (`ToldOnce`); the batch, which pages by the last user
it saw, reaches every user who asks for it, in whatever order they are returned
(`EveryoneCounted`).  `TablesAgree`: rows are well formed, with one setting for a user
and no URL in two hooks of a team (`OneSettingPerUser`, `NoSharedUrl`).
`WithdrawnTokensUnused`.  `CountsHold`: views are overstated by no more than one for each
counter started, as the first view is both set and added, and once more for each
viewer at the same time (`ViewsNotOverstated`), the count of favourites is right
(`FavoritesCached`), and so is that of the in-process cache (`LenIsExact`).
`SearchFollowsPosts`, of what the code gets right: existence of questions and answers.
`RecentSpec`: old generations never show.  `StoreOutlivesGoroutines`.  `JobsEnd`: the batch
and the shutdown do (`BatchEnds`, `ShutdownEnds`).

*Bounds.*  Pages of two users and three users give a full page, a short one and an
empty one; a counter is written back at three views, so that two windows fit;
three goroutines, one of which starts another while one ends and the channel holds
a signal, are every case of the counter; a cache of two entries with three keys
overflows with old and with new ones.

*Fairness* (`FollowUps!Fairness`).  Weak, of the batch's own steps, of each goroutine's
end and of the main goroutine once it stops: each is a goroutine that can go on.
Handlers need not come, nor finish; a signal to stop need not.

## 5 What is proved

`PostsProofs`, for any users, posts, number of requests in flight and lag:

- `TypeCorrect`: `Spec => []TypeOK`.  `TypeOK` is inductive: it says of each request
  in flight that its user, post and the row it carries are of the right kind, which
  its later steps rely on.  One lemma for each action.
  It gives, among other things, that no vote counter goes below zero.
- `PointsAreTheirHistory`: `Spec => []PointsMatchHistory`.  Every action either leaves
  points and history alone, or adds the same award to both (`BooksTogether`,
  `BooksUntouched`), or statements may fail and nothing is claimed.
- `DecisionsAreFinal`: `Spec => ReviewsDecidedOnce`, an action property: each action
  that writes `reviews` writes it by a function that keeps decided rows
  (`CloseStands`, `InvalidateStands`) or touches a row that is not decided.

One request at a time and no replica (`Alone(pr)`: `Proc = {pr} /\ ~HasReplica`), for any
users, posts and number of requests, with failures and without: `CountersAreVotes`
(`CountersMatchVotes`), `AnswersAreCounted` (`AnswersCounted`), `PointsAreDeeds`
(`PointsMatchDeeds`), `DeletedPostsAreReviewed` (`DeletedPostHasNoPendingReview`),
`CommentsAreLimited`, `PostsDoHangTogether` (`PostsHangTogether`), `EditsKeepOldContent`
(`EditKeepsOldContent`) and `DeletionsStandAlone` (`DeletedStaysDeleted`).  They rest on
`TablesKeptTogether`: `PostInv` is inductive.

- `TablesKept`: counters are the numbers of rows, points are `Deeds`, reviews of a
  deleted post are decided, the comment limit is kept, and (`Hang`) parents are
  live and best answers are answers to the question.
- `Knows`: what the request has read, and every condition it has passed, is still so
  when it writes.  This is what a second request would break, and why two at once
  are left to the properties of any overlap.
- The points are a sum over posts and votes, that is a sum of cardinalities of sets.  Each
  action changes each of those sets by one row or not at all; the lemmas say what a
  row more or less, and a post that comes to count or no longer does, is worth, and
  that the award of the action is just that.
- `PostsDoHangTogether` assumes `"complete" \notin Ops`.  A completed review deletes a post
  without the checks of a deletion: a question goes and leaves its answers.  This is
  what the code does, and why `life_one` has no reviews.
- Of the posts there are to begin with (`Born`) the proofs need `BornAssumption`: their
  parents are among them, and none has more comments than the limit.

For any number of requests at once and any lag, if no post is edited:

- `FlagsAreBounded` (`FlagCountBounded`) and `DeletionsStand` (`DeletedStaysDeleted`).  Their
  invariant, `NoEditInv`, adds to the types that a post about to be created is not there yet
  and is created by one request, that one about to be deleted is there, and that the
  replica shows none that the master lacks (`FreshKept`).  `DeletionsStand` is the other half of
  `edit_race` (section 6): edits alone bring a deleted post back, and with requests one at
  a time not even they do.

`HubIndexProofs`, for any connections and users:

- `IndexIsConsistent` (`MapsAgree`) and `BroadcastIsUndisturbed` (`SweepIsSafe`) from one
  inductive invariant, `IInv`: types, `MapsAgree` and `SweepIsSafe` together.  Neither
  is inductive alone.  A removal in mid-broadcast overwrites a place of the very
  array the loop reads; that it does no harm needs that each element the loop has
  yet to read is either in its place or was moved to a place already passed
  (`at[c] = k \/ at[c] < next`), and that needs the maps to agree.
- `IndexImplementsConns`: `Spec => ConnsSpec`.  Each step of the index, read through
  `registered <- DOMAIN at` and `todo <- ` the elements the loop has yet to read, is
  a step of `HubConns` or leaves it unchanged.  So the order of a slice, the moves
  and the stale ends of the array never show: every connection of the broadcast is
  offered the message exactly once.

`LRUProofs`, for any keys, values, size and calls:

- `LengthIsExact` (`LenIsExact`) and `ImplementsRecentCache`: `LRUSpec => RecentSpec`, read
  through `held <- ` the entries of the present generation.  The invariant needs
  `StaleIsOlder`: whatever is of the present generation was used after everything that
  is not.  So when the list overflows, what is evicted is old as long as anything
  is, and `RecentCache` evicts nothing; once nothing is, both hold the same and evict
  the same (`EvictKeeps`).

`FollowUpsProofs`, for any users, texts, hooks, viewers, posts, goroutines and situations,
with a failure anywhere.  Each part has an invariant of its own; the part a
behaviour is about keeps it while the others stay as they began (`FollowUpsInv`).

- `TablesDoAgree` (`TablesAgree`).  A request that saves a setting has found the rows
  there are; so does one that saves a hook, which shares no URL with any hook as long
  as no other request comes between (`SettingsApart`, `UrlsApart`).
- `ReadersGetTold` (`ReadersAreTold`) has three arguments.  *Told once*: no two requests
  about to write, and no message and such a request, have a stamp in common, and
  `to` names each reader once and only who is concerned (`StampsApart`, `RightlyTold`).
  *Read if marked*: with one request at a time whatever a user did not have when he
  marked is stamped later than what he marked (`ViewedLast`).  *Everyone counted*: who
  asks for mails has been counted, is on the page from the present place on, or has
  an id behind the page (`Reached`); the page holds all rows up to its last one because
  rows come in the order of users (`FirstRows`), and the batch is over only when a page
  was all deleted users, which takes a page full of them.  The theorem assumes of the
  situations that settings rest while a batch runs: who asks for mails when the batch
  is past him is rightly left to the next.
- `WithdrawnTokensRest` (`WithdrawnTokensUnused`).  Tokens are numbered, and given to one hook
  each; what a goroutine carries was a live hook's when it read it, and what was
  withdrawn by then is no live hook's (`TokensApart`, `VoidUnused`).
- `CountsDoHold` (`CountsHold`).  A view that is counted, and a counter that is started, pays
  as much as there are requests at once; `Funded` says that this pays for the views saved, for
  those that requests have yet to save or to add, and for the value of the counter (`Paid`).
  The hard step is the reset: the request that sets the counter to 0 takes it from
  whatever it has grown to, and others may have seen it at its limit, too.
- `IndexFollowsPosts` (`SearchFollowsPosts`).  A post never overtaken has one goroutine at
  most, and what that does is what the row asks for (`DocFollows`).
- `StoreIsClosedLast`, of `ShutdownSpec`, and `StoreOutlives`, of `Spec`
  (`StoreOutlivesGoroutines`).  The counter is the number of
  goroutines that run (`CountIsExact`), and after the HTTP server has stopped without
  leaving a handler nobody but a goroutine that runs can start one (`Drained`): when
  the counter is found to be zero it stays so.
- `RecentIsKept` (`RecentSpec`): the refinement that `LRUProofs` proves, of the whole.

`WebHubProofs`, for any connections, audiences, queue sizes and numbers of events,
with panics of the hub and without, from two invariants:

- `TheIndexIsUsable` (`IndexIsUsable`): a connection in the index has an open channel
  and a pump that runs; what is closed is forgotten.  `IndexInv` adds what a new
  connection looks like (`Fresh`), which `Register` relies on, and that a broadcast goes
  through connections the index still holds (`SweepsRegistered`), which makes closing the
  channel of a slow one safe.
- `EventsInOrder` (`WrittenInOrder`) and `NoEventIsLost` (`NoSilentGap`): `FlowInv` follows the
  numbers of the events along their way.  Those in `h.broadcast` ascend and come after
  the one the hub sends (`Queued`), what a connection has got is older than what it
  is still to get (`Behind`), written comes before queued (`InOrder`), and the hello is in
  front of both (`HelloLeads`).  So what a connection is owed is written, in its
  channel, at the hub, or in `h.broadcast`.

`WebSessionsProofs`, for any connections, servers and sessions, whatever is lost between
the servers and however far the replica lags:

- `LateRequestsAreRefused` (`RevokedServesNothing`).  The invariant `SessionsInv` needs that a
  row that was gone when the request came is gone until it is answered (`LateIsLate`):
  nothing brings a session back.
- `LeftCopiesAreDue` (`StaleCopiesAreDue`).  Its invariant, `CopiesInv`, says the same of all a
  copy may come from, as long as the row is gone: the copy itself, a check of the reader or the
  hub that has found the row, and the replica that still shows it (`SourcesAreDue`); and
  a connection that is not there has none of them (`AbsentHasNone`), which one that
  opens relies on.  A revocation that reaches a server (`ResetsKeepCopies`) leaves only
  sources it counts as missed.

`TeamsProofs`, for any users, teams, groups, tokens and limits, with one request at a time,
any statement of which may fail and which may die between any two: `TeamsAndGroupsAgree`
(`TablesAgree`), `TheLimitHolds` (`MembersAreCounted`), `InvitationsDoEnd` (`InvitationsEnd`),
`PointsAreKept` (`PointsAreEarned`) and `AnAdminRemains` (`AdminsRemain`).  Two requests at once
break them (section 6), which is why the theorems assume `Proc = {pr}`: the model with
one slot for requests is what they are about.  One inductive invariant, `TeamInv`,
has two parts.

- `TablesKept`: what the tables are between any two statements.  The cached count covers
  the members but while a request is about to delete it (`Counted`); the invite ids a team
  has had are below the next one, so that a new one is new (`InvitesOrdered`); who used a
  token is about to delete it (`TokensSpent`); whoever is not there has no rows
  (`NoStrangers`).
- `Knows`: what the request has read, and the conditions it has passed, are still so
  when it writes: the row it gives another type is the present one and not the
  last admin's, the groups it has still to leave are all that are left, the count
  it goes by is not below the present one.

The lemmas `...Is` say what each action writes, for any number of requests; the lemmas
`...Keeps` take the invariant through it.

`IdentityProofs`, for any users, applications and situations, with failures and without.
For any number of requests at once:

- `VerifiedAddressesAreProven` (`VerifiedWasProven`): a verified address has been shown to be
  read by the user, since whatever writes `EmailVerified` writes it with an address
  that was - of the token, or in the row that was read (`ProvenInv`).
- `OnceIsOnce` (`OnceOnly`).  `SignInv` counts the admins there are with the sign-ups that found
  no account and have yet to save: their sum never exceeds the slots for requests.
  `UsesBounded` counts the uses of a token with the requests that hold it and have
  yet to delete it.  That a code makes one session needs requests one at a time
  (`CodesInv`), and says so.

For requests one at a time (`Alone`, a condition in the properties themselves):

- `GuessesAreBounded` (`GuessesBounded`): the request that compares a password counts on from
  what it read (`GuessInv`).
- `AccountsAndSessionsAgree` (`TablesAgree`).  Types hold for any number of requests.
  A deleted account has the sessions that failed to go or that the request at
  work has still to revoke (`DeletedInv`); an access token and its session go
  together but for the session the request is at work on, or a goroutine is
  about to delete (`MatchInv`).

Assumptions: those named `...Assumption` in the modules (shape of the constants),
which TLC evaluates in the runs.  Two say more than what kind of thing a constant
is.  `InboxAssumption` has no user 0, the id the batch begins behind: that is the string of
26 zeros (`app/email_batching.go:77`), which sorts before every other id and is none
itself, as no UUID of version 4 is encoded so (`NewId`, `model/utils.go:263`).
`SettingsAssumption` lets a behaviour start with one row of settings for a user
at most, as `OneSettingPerUser` then keeps it.

Only model-checked: all liveness (`StopReturns`, `DroppedConnsEnd`, `CallersGoOn`,
`RevocationReachesConns`, `JobsEnd`), which rests on `ENABLED` and is beyond TLAPS.  Every
invariant and action property of a passing run is the property of a theorem, with the
hypotheses named above.

## 6 Where the code disagrees with itself

Each is a run in which TLC finds the property violated; `PROJECT.json` quotes the
sentence of the code it contradicts.

- `edit_race`, `DeletedStaysDeleted`: an edit writes back the row it read, `DeleteAt`
  included, and revives a post that was deleted meanwhile.
- `oauth`, `SavedCodesAreDelivered`: the row of an authorization cannot be inserted,
  as its type was never registered (`store/sqlstore/oauth_store.go:16`).  So the code,
  which has been saved, never gets into the redirect: every authorization answers
  `server_error`.

Met while modelling, and part of the models or a limit of what the properties
say; none has a run of its own.

*Posts.*  A question is deleted while an answer to it is saved, and leaves an orphan
(`app/post.go:745`).  A cancelled vote sets the counter to what was read less one, and
loses a vote in between (`post_store.go:1426`).  A tag used again gets the count two
(`post_store.go:389`).

*Hub and sessions.*  A connection that copied its session before a revocation and is
registered after it (`api/websocket.go:29`), or whose check read the row before and stores
it after (`web_conn.go:111`), keeps its copy until it expires, and is sent the user's
events, although `app/session.go:103` says that the copies are deleted, too; requests
over it are refused (`RevokedServesNothing`).  The check every five seconds stops at its first success
(`web_conn.go:216`).  A connection whose registration gave up because the hub stops, or
that an earlier panic made the hub forget, is not closed by `HubStop`; the read
deadline of a socket is set once and never extended.

*Teams.*  Two admins who step down together leave none (`app/team.go:646`); so in
groups.  Leaving writes no `LogLeaveEvent`.  A question asked to an empty group is
saved and answered with an error.

*Accounts.*  A change to an address that is taken counts as a guess, as the password is
asked for first (`api/user.go:567`).  An account whose type is changed while it is deleted comes back with the
row that was read (`UpdateUserType`); `Update` writes an old password over a new one;
parallel wrong passwords count once.  A token for an address since replaced sets
that address again.  `updateOAuthApp` may bring back a secret that was
regenerated.  A second authorization by the same user would answer `server_error`,
a second implicit one leaves a session without access data, and deauthorizing
leaves unused codes.

*Inbox and digests.*  The batch counts messages without a team only (`email_batching.go:106`,
`115`).  A question to a group is in its team, and so are answers and comments to it: nobody is
mailed of those, however he set his mails.  `Digest` has it so (`UnreadSince`).  A message stamped before, and saved after, one that was marked
counts as read.  A comment edited before its own messages are sent names users
twice.  The goroutines that send digests share the loop variable: a mail may go to a
later user (`email_batching.go:123`).  A page of which every user is deleted ends the
batch; users may be counted twice.  The job server shuts itself down inside
`NewServer`, closes its store, and goes on to wait for a signal.  Two first
settings saved together are two rows, and an error at every read thereafter.
A cached setting, like a cached vote type, is always found and always empty
(`notification_setting_layer.go:51`, `vote_layer.go:17`).

*Webhooks.*  The goroutines that call a post's URLs share one reader of the body, so
that one URL at most is sure to get it; the body of an answer is decoded after it
was drained.  Changing a hook while it is deleted, or its token replaced, brings
back the old row, and is not validated.

*Caches and index.*  An increment after the view counter expired makes one that never
does.  Indexing uses Elasticsearch's create, which refuses a document that exists,
and does not look at the answer (`elasticsearch.go:60`): edits never reach the index,
edited comments enter it and deleted ones stay.  `HotSearch` asserts the wrong
type of a pointer and panics whenever Elasticsearch answers
(`searchlayer/post_layer.go:249`).

*Others.*  No collection can be created (section 7).  Nobody is shown online.  The
goroutines that make thumbnails are not waited for, and one whose transfer fails
leaves the encoder blocked on its pipe (`app/file.go:395`).

## 7 Not modelled

| Part | Why |
|---|---|
| Collections | None can come to be: the first of a team is always refused, because counting those there are makes an error of an empty result (`collection_store.go:53`, `app/collection.go:15`). |
| Tag counters | `PostCount` is set to two at each reuse, so that it bears no relation to the posts. |
| Posts of teams | They differ from public ones in the table that holds the points; `Teams` has the awards to a member. |
| User status | Coming online writes only a time (`app/status.go:31`); being online is never shown, in whatever order things happen. |
| Uploaded files | Transfer to S3 and image processing; the goroutines share a pipe each and no table. |
| Searches, reports, lists | Plain reads; their queries are translations of parameters. |
| Schedule of batches, text of mails, `Sequence` numbers, JSON | Formatting, or outside the process. |
| Rate limiter, audit, configuration, logging, migrations, validation, import | No state of their own, output only, or a stub (import). |

## 8 Plan

What is left goes beyond the properties of the runs.

1. Requests at once: bounds on how far overlapping votes, memberships and favourites can
   drive a counter from its rows, in place of the equalities that hold one at a time.
2. `PostsHangTogether` with completed reviews: what remains true of the answers to a
   question that a review has deleted.
3. A batch while settings change: whoever asked for mails before the page that would
   hold him was read is counted.
