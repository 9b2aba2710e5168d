---------------------------- MODULE CachedCounts ----------------------------
(***************************************************************************)
(* What Redis holds of a question: who has viewed it lately, its views     *)
(* that are not yet in the database, and the number of its favourites.     *)
(*                                                                         *)
(* Every Redis command is a step: the cache layer uses no transaction and  *)
(* no answer of INCRBY.  A command that fails is not noticed, and the      *)
(* request goes on (RedisFails).                                           *)
(***************************************************************************)
EXTENDS Requests

CONSTANTS
  Viewer,            \* those who view the question, by account or address
  POST_COUNTER_MAX,
  NoKey              \* the answer of Redis for a key that is not there

ASSUME CachedCountsAssumption ==
  IsFiniteSet(Viewer) /\ POST_COUNTER_MAX \in Nat \ {0, 1} /\ NoKey \notin Nat

VARIABLES
  viewKeys,     \* the viewers whose key is there, for fifteen minutes
  counter,      \* the value of the counter's key, or NoKey
  expires,      \* has the counter's key a time to live?
  views,        \* Views of the row of Posts
  viewsHistory, \* the sum of ViewsCount of the rows of PostViewsHistory
  favorites,    \* the users with a row of UserFavoritePosts
  favoriteKey,  \* the value of the key of the favourites' count, or NoKey
  viewed,       \* history: the number of views that were counted
  windows       \* history: how often a missing counter was set to 1

viewTables == <<viewKeys, counter, expires, views, viewsHistory, viewed, windows>>
favoriteTables == <<favorites, favoriteKey>>
cachedVars == <<viewTables, favoriteTables>>

----------------------------------------------------------------------------
(* Views.                                                                  *)

viewPost(pr, v) ==
  /\ Accept(pr, "view")
  /\ Become(pr, [at |-> "view_exists", viewer |-> v])
  /\ UNCHANGED cachedVars

(* A view within fifteen minutes of the viewer's last one is not counted.  *)
ExistsKey(pr) ==
  /\ At(pr, "view_exists")
  /\ IF request[pr].viewer \in viewKeys
     THEN Finish(pr) /\ UNCHANGED viewed
     ELSE Goto(pr, "view_key") /\ viewed' = viewed + 1
  /\ UNCHANGED <<viewKeys, counter, expires, views, viewsHistory, windows, favoriteTables>>

AddViewKey(pr) ==
  /\ At(pr, "view_key") /\ Goto(pr, "view_counter")
  /\ viewKeys' = viewKeys \cup {request[pr].viewer}
  /\ UNCHANGED <<counter, expires, views, viewsHistory, viewed, windows, favoriteTables>>

(* A missing counter is set to 1 and counts as 0: its first view is        *)
(* counted by the 1 and again by INCRBY.                                   *)
AfterReading(n) == IF n + 1 >= POST_COUNTER_MAX THEN "view_reset" ELSE "view_incr"
ReadCounter(pr) ==
  /\ At(pr, "view_counter")
  /\ Goto(pr, IF counter = NoKey THEN "view_start" ELSE AfterReading(counter))
  /\ UNCHANGED cachedVars

StartCounter(pr) ==
  /\ At(pr, "view_start") /\ Goto(pr, AfterReading(0))
  /\ counter' = 1 /\ expires' = TRUE /\ windows' = windows + 1
  /\ UNCHANGED <<viewKeys, views, viewsHistory, viewed, favoriteTables>>

(* Mutant: the counter goes on.                                            *)
KeepCounter(pr) ==
  /\ At(pr, "view_reset") /\ Goto(pr, "view_save")
  /\ UNCHANGED cachedVars

ResetCounter(pr) ==
  /\ At(pr, "view_reset") /\ Goto(pr, "view_save")
  /\ counter' = 0 /\ expires' = TRUE
  /\ UNCHANGED <<viewKeys, views, viewsHistory, viewed, windows, favoriteTables>>

(* INCRBY makes a key that is not there, without a time to live, and       *)
(* leaves that of a key that is there alone.                               *)
incrementBy(pr) ==
  /\ At(pr, "view_incr") /\ Finish(pr)
  /\ counter' = IF counter = NoKey THEN 1 ELSE counter + 1
  /\ expires' = (counter # NoKey /\ expires)
  /\ UNCHANGED <<viewKeys, views, viewsHistory, viewed, windows, favoriteTables>>

ViewPost(pr) ==
  /\ At(pr, "view_save") /\ Goto(pr, "view_log")
  /\ views' = views + POST_COUNTER_MAX
  /\ UNCHANGED <<viewKeys, counter, expires, viewsHistory, viewed, windows, favoriteTables>>

(* A failure of this insert is not looked at.                              *)
SavePostViewsHistory(pr) ==
  /\ At(pr, "view_log") /\ Finish(pr)
  /\ viewsHistory' = viewsHistory + POST_COUNTER_MAX
  /\ UNCHANGED <<viewKeys, counter, expires, views, viewed, windows, favoriteTables>>

Passing == "expiry" \in situation.ops /\ UNCHANGED <<requestVars, favoriteTables>>
ExpireViewKey(v) ==
  /\ Passing /\ v \in viewKeys /\ viewKeys' = viewKeys \ {v}
  /\ UNCHANGED <<counter, expires, views, viewsHistory, viewed, windows>>
ExpireCounter ==
  /\ Passing /\ counter # NoKey /\ expires
  /\ counter' = NoKey /\ expires' = FALSE
  /\ UNCHANGED <<viewKeys, views, viewsHistory, viewed, windows>>

----------------------------------------------------------------------------
(* Favourites.                                                             *)

(* PostId and UserId are the key: the insert for a user who has the row    *)
(* already fails, now or when another request was faster.                  *)
favoritePost(pr, u) ==
  /\ Accept(pr, "favorite")
  /\ Become(pr, [at |-> "favorite_save", user |-> u])
  /\ UNCHANGED cachedVars
SaveFavorite(pr) ==
  LET u == request[pr].user
  IN /\ At(pr, "favorite_save")
     /\ IF u \in favorites THEN Finish(pr) ELSE Goto(pr, "favorite_invalidate")
     /\ favorites' = favorites \cup {u}
     /\ UNCHANGED <<viewTables, favoriteKey>>

cancelFavoritePost(pr, u) ==
  /\ Accept(pr, "cancel_favorite")
  /\ Become(pr, [at |-> "favorite_delete", user |-> u])
  /\ UNCHANGED cachedVars

DeleteFavorite(pr) ==
  /\ At(pr, "favorite_delete") /\ Goto(pr, "favorite_invalidate")
  /\ favorites' = favorites \ {request[pr].user}
  /\ UNCHANGED <<viewTables, favoriteKey>>

InvalidateFavoriteCount(pr) ==
  /\ At(pr, "favorite_invalidate") /\ Finish(pr)
  /\ favoriteKey' = NoKey
  /\ UNCHANGED <<viewTables, favorites>>

(* Whoever reads the question and finds no cached count, or no Redis,      *)
(* reads it from the database and caches it, for ever.                     *)
GetCountByPostId(pr) ==
  /\ Accept(pr, "read_favorites") /\ (favoriteKey = NoKey \/ Faulty)
  /\ Become(pr, [at |-> "favorite_cache", count |-> Cardinality(favorites)])
  /\ UNCHANGED cachedVars
CacheFavoriteCount(pr) ==
  /\ At(pr, "favorite_cache") /\ Finish(pr)
  /\ favoriteKey' = request[pr].count
  /\ UNCHANGED <<viewTables, favorites>>

----------------------------------------------------------------------------
(* What follows a Redis command that failed: the next one.                 *)
AfterFailure ==
  [view_exists |-> "view_key", view_key |-> "view_counter", view_counter |-> "view_start",
   view_start |-> AfterReading(0), view_reset |-> "view_save"]
RedisFails(pr) ==
  /\ MayFail
  /\ \/ /\ request[pr].at \in DOMAIN AfterFailure
        /\ Goto(pr, AfterFailure[request[pr].at])
     \/ /\ request[pr].at \in {"view_incr", "favorite_invalidate", "favorite_cache"}
        /\ Finish(pr)
  /\ lost' = lost \cup {"redis"}
  /\ UNCHANGED <<situation, served, cachedVars>>

CachedCountsInit ==
  /\ viewKeys = {} /\ counter = NoKey /\ expires = FALSE
  /\ views = 0 /\ viewsHistory = 0 /\ viewed = 0 /\ windows = 0
  /\ favorites = {} /\ favoriteKey = NoKey

CachedCountsNext ==
  \/ \E pr \in Proc :
       \/ \E v \in Viewer : viewPost(pr, v) \/ favoritePost(pr, v) \/ cancelFavoritePost(pr, v)
       \/ ExistsKey(pr) \/ AddViewKey(pr) \/ ReadCounter(pr) \/ StartCounter(pr) \/ ResetCounter(pr)
       \/ incrementBy(pr) \/ ViewPost(pr) \/ SavePostViewsHistory(pr)
       \/ SaveFavorite(pr) \/ DeleteFavorite(pr) \/ InvalidateFavoriteCount(pr)
       \/ GetCountByPostId(pr) \/ CacheFavoriteCount(pr)
       \/ RedisFails(pr)
       \/ Fault(pr) /\ UNCHANGED cachedVars
  \/ \E v \in Viewer : ExpireViewKey(v)
  \/ ExpireCounter
=============================================================================
