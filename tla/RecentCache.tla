---------------------------- MODULE RecentCache ----------------------------
(***************************************************************************)
(* What an in-process cache (services/l1cache/cache.go) promises: it holds *)
(* the value last stored under each of at most CacheSize keys, forgets the *)
(* key that was not used for longest when it needs room, forgets all when  *)
(* it is purged, and answers with nothing it has forgotten or that is past *)
(* its time.  How the LRU does it is the subject of LRU.                   *)
(***************************************************************************)
EXTENDS Integers, FiniteSets

CONSTANTS CacheKey, CacheValue,
          CacheSize,   \* the number of keys there is room for
          NotFound     \* the answer for a key that is not held

VARIABLES held,        \* held[k]: what is held under key k
          now,         \* the number of uses so far
          answer       \* what the last Get returned

rvars == <<held, now, answer>>

Without(f, k) == [j \in DOMAIN f \ {k} |-> f[j]]
With(f, k, e) == [j \in DOMAIN f \cup {k} |-> IF j = k THEN e ELSE f[j]]
LongestUnused(f) == {k \in DOMAIN f : \A j \in DOMAIN f : f[k].usedAt =< f[j].usedAt}

Init == held = [k \in {} |-> NotFound] /\ now = 0 /\ answer = NotFound

Used(k, v, expiry) == With(held, k, [value |-> v, expiry |-> expiry, usedAt |-> now + 1])

Set(k, v, expiry) ==
  /\ now' = now + 1 /\ UNCHANGED answer
  /\ IF Cardinality(DOMAIN Used(k, v, expiry)) =< CacheSize
     THEN held' = Used(k, v, expiry)
     ELSE \E j \in LongestUnused(Used(k, v, expiry)) : held' = Without(Used(k, v, expiry), j)

Hit(k) ==
  /\ k \in DOMAIN held /\ held[k].expiry # "past"
  /\ now' = now + 1 /\ answer' = held[k].value
  /\ held' = Used(k, held[k].value, held[k].expiry)
Miss(k) ==
  /\ k \notin DOMAIN held \/ held[k].expiry = "past"
  /\ held' = Without(held, k) /\ answer' = NotFound /\ UNCHANGED now

Remove(k) == held' = Without(held, k) /\ UNCHANGED <<now, answer>>
Purge == held' = [k \in {} |-> NotFound] /\ UNCHANGED <<now, answer>>

\* The time of an entry that has one comes.
Expire(k) ==
  /\ k \in DOMAIN held /\ held[k].expiry = "later"
  /\ held' = [held EXCEPT ![k].expiry = "past"] /\ UNCHANGED <<now, answer>>

Next ==
  \/ Purge
  \/ \E k \in CacheKey : \/ Hit(k) \/ Miss(k) \/ Remove(k) \/ Expire(k)
                         \/ \E v \in CacheValue, e \in {"never", "later"} : Set(k, v, e)

Spec == Init /\ [][Next]_rvars
=============================================================================
