-------------------------------- MODULE LRU --------------------------------
(***************************************************************************)
(* The in-process cache of services/l1cache/lru.go: a list of entries in   *)
(* the order of their last use and a map from keys to its elements.  A     *)
(* purge only raises the generation: entries of earlier ones stay, in the  *)
(* list, the map and the way, until they are looked up, set again or       *)
(* evicted, and len counts those of the present one.                       *)
(*                                                                         *)
(* items stands for the list and the map, which change together under the  *)
(* lock: its order is that of usedAt, the highest in front.  Values that   *)
(* gob cannot encode are never stored.                                     *)
(***************************************************************************)
EXTENDS Requests

CONSTANTS CacheKey, CacheValue, CacheSize, NotFound

ASSUME LRUAssumption == IsFiniteSet(CacheKey) /\ CacheSize \in Nat

VARIABLES items,               \* items[k]: the entry of key k
          len,
          currentGeneration,
          now,                 \* the number of moves to the front so far
          answer               \* what the last Get returned

lruVars == <<items, len, currentGeneration, now, answer>>

Alongside == UNCHANGED <<situation, request, lost>>

IsCurrent(e) == e.generation = currentGeneration
One(condition) == IF condition THEN 1 ELSE 0

(* The list and the map with key k in front, and without key k.            *)
PushFront(k, v, expiry) ==
  [j \in DOMAIN items \cup {k} |->
     IF j = k THEN [value |-> v, expiry |-> expiry, usedAt |-> now + 1,
                    generation |-> currentGeneration]
     ELSE items[j]]
Back(list) == {k \in DOMAIN list : \A j \in DOMAIN list : list[k].usedAt =< list[j].usedAt}

(* The count before is n: a new element has been counted already.          *)
removeElement(list, k, n) ==
  /\ items' = [j \in DOMAIN list \ {k} |-> list[j]]
  /\ len' = n - One(IsCurrent(list[k]))

LRUPurge ==
  /\ Counted("purge") /\ UNCHANGED <<request, items, now, answer>>
  /\ len' = 0 /\ currentGeneration' = currentGeneration + 1

(* Mutant: what was set again stays where it was in the list.              *)
UpdateInPlace(k, v, expiry) ==
  /\ k \in DOMAIN items /\ now' = now + 1
  /\ items' = [PushFront(k, v, expiry) EXCEPT ![k].usedAt = items[k].usedAt]
  /\ len' = len + One(~IsCurrent(items[k]))

(* A key that is there already, of whatever generation and time.           *)
UpdateItem(k, v, expiry) ==
  /\ k \in DOMAIN items /\ now' = now + 1
  /\ items' = PushFront(k, v, expiry)
  /\ len' = len + One(~IsCurrent(items[k]))
AddItem(k, v, expiry) ==
  /\ k \notin DOMAIN items /\ now' = now + 1
  /\ IF Cardinality(DOMAIN PushFront(k, v, expiry)) > CacheSize
     THEN \E j \in Back(PushFront(k, v, expiry)) :
            removeElement(PushFront(k, v, expiry), j, len + 1)
     ELSE items' = PushFront(k, v, expiry) /\ len' = len + 1

SetWithExpiry(k, v, expiry) ==
  /\ Counted("set") /\ UNCHANGED <<request, currentGeneration, answer>>
  /\ UpdateItem(k, v, expiry) \/ AddItem(k, v, expiry)

MoveToFront(k) ==
  /\ k \in DOMAIN items /\ IsCurrent(items[k]) /\ items[k].expiry # "past"
  /\ now' = now + 1 /\ answer' = items[k].value
  /\ items' = PushFront(k, items[k].value, items[k].expiry) /\ UNCHANGED len
ErrKeyNotFound(k) ==
  /\ answer' = NotFound /\ UNCHANGED now
  /\ \/ /\ k \in DOMAIN items /\ (~IsCurrent(items[k]) \/ items[k].expiry = "past")
        /\ removeElement(items, k, len)
     \/ k \notin DOMAIN items /\ UNCHANGED <<items, len>>

Get(k) ==
  /\ Counted("get") /\ UNCHANGED <<request, currentGeneration>>
  /\ MoveToFront(k) \/ ErrKeyNotFound(k)

RemoveItem(k) ==
  /\ Counted("remove") /\ UNCHANGED <<request, currentGeneration, now, answer>>
  /\ k \in DOMAIN items /\ removeElement(items, k, len)

(* The time of an entry that has one comes.                                *)
ExpireItem(k) ==
  /\ Alongside /\ UNCHANGED <<served, len, currentGeneration, now, answer>>
  /\ k \in DOMAIN items /\ items[k].expiry = "later"
  /\ items' = [items EXCEPT ![k].expiry = "past"]

LRUInit ==
  /\ items = [k \in {} |-> NotFound] /\ len = 0 /\ currentGeneration = 0
  /\ now = 0 /\ answer = NotFound

LRUNext ==
  \/ LRUPurge
  \/ \E k \in CacheKey :
       \/ Get(k) \/ RemoveItem(k) \/ ExpireItem(k)
       \/ \E v \in CacheValue, expiry \in {"never", "later"} : SetWithExpiry(k, v, expiry)

LRUSpec == LRUInit /\ [][LRUNext]_lruVars

----------------------------------------------------------------------------
InGeneration == {k \in DOMAIN items : IsCurrent(items[k])}

(* len is the number of entries of the present generation: Keys, which     *)
(* fills an array of that length with them, neither runs over its end nor  *)
(* leaves empty keys in it (services/l1cache/lru.go:99).                   *)
LenIsExact == len = Cardinality(InGeneration)

Trim(e) == [value |-> e.value, expiry |-> e.expiry, usedAt |-> e.usedAt]
Shown == [k \in InGeneration |-> Trim(items[k])]
Recent == INSTANCE RecentCache WITH held <- Shown

(* What an earlier generation has left behind is never seen: not in an     *)
(* answer, and not in what is evicted when there is no room (Purge,        *)
(* services/l1cache/lru.go:50).                                            *)
RecentSpec == Recent!Spec
=============================================================================
