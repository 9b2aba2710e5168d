----------------------------- MODULE LRUProofs -----------------------------
(***************************************************************************)
(* The LRU implements RecentCache and its length is exact, for any keys,   *)
(* values, size and number of calls.                                       *)
(*                                                                         *)
(* What a purge leaves behind must never get in the way.  It does not,     *)
(* because whatever is of the present generation was used after all that   *)
(* is not (StaleIsOlder): as long as there is any of it, the entry at the  *)
(* back of the list is one of those.  And once there is none, the list     *)
(* holds just what RecentCache holds, and overflows when that does.        *)
(***************************************************************************)
EXTENDS LRU, FiniteSetTheorems, TLAPS

Entry == [value : CacheValue, expiry : {"never", "later", "past"}, usedAt : Nat,
          generation : Nat]

LRUType ==
  /\ DOMAIN items \subseteq CacheKey
  /\ items = [k \in DOMAIN items |-> items[k]]
  /\ \A k \in DOMAIN items : items[k] \in Entry
  /\ len \in Int /\ currentGeneration \in Nat /\ now \in Nat

Bounded ==
  \A k \in DOMAIN items : items[k].usedAt =< now /\ items[k].generation =< currentGeneration

StaleIsOlder ==
  \A j, k \in DOMAIN items :
    (IsCurrent(items[k]) /\ ~IsCurrent(items[j])) => items[j].usedAt < items[k].usedAt

ListFits == Cardinality(DOMAIN items) =< CacheSize

LRUInv == LRUType /\ Bounded /\ StaleIsOlder /\ ListFits /\ LenIsExact

----------------------------------------------------------------------------
(* Keys are finitely many, and so is what is there and what is current.    *)
LEMMA KeysAreFinite ==
  ASSUME LRUType
  PROVE  IsFiniteSet(DOMAIN items) /\ IsFiniteSet(InGeneration)
<1>1. InGeneration \in SUBSET CacheKey /\ DOMAIN items \in SUBSET CacheKey
  BY DEF LRUType, InGeneration
<1> QED BY <1>1, FS_Subset, LRUAssumption

(* How many are current after one becomes current, or one is gone.         *)
LEMMA OneMore ==
  ASSUME LRUType, NEW k, InGeneration' = InGeneration \cup {k}
  PROVE  Cardinality(InGeneration') = Cardinality(InGeneration) + One(k \notin InGeneration)
BY KeysAreFinite, FS_AddElement, FS_CardinalityType DEF One

LEMMA OneLess ==
  ASSUME LRUType, NEW k, InGeneration' = InGeneration \ {k}
  PROVE  Cardinality(InGeneration') = Cardinality(InGeneration) - One(k \in InGeneration)
BY KeysAreFinite, FS_RemoveElement, FS_CardinalityType DEF One

(* PushFront changes one entry, and makes it current and the latest.       *)
LEMMA Pushed ==
  ASSUME LRUType, Bounded, StaleIsOlder, NEW k \in CacheKey, NEW v \in CacheValue,
         NEW expiry \in {"never", "later", "past"}
  PROVE  LET list == PushFront(k, v, expiry) IN
         /\ DOMAIN list = DOMAIN items \cup {k}
         /\ list = [j \in DOMAIN list |-> list[j]]
         /\ \A j \in DOMAIN list : list[j] \in Entry /\ list[j].usedAt =< now + 1
                                    /\ list[j].generation =< currentGeneration
         /\ \A j \in DOMAIN items : j # k => list[j] = items[j]
         /\ list[k] = [value |-> v, expiry |-> expiry, usedAt |-> now + 1,
                       generation |-> currentGeneration]
         /\ IsCurrent(list[k])
         /\ \A i, j \in DOMAIN list :
              (IsCurrent(list[i]) /\ ~IsCurrent(list[j])) => list[j].usedAt < list[i].usedAt
<1> DEFINE e == [value |-> v, expiry |-> expiry, usedAt |-> now + 1,
                 generation |-> currentGeneration]
           list == PushFront(k, v, expiry)
<1>1. DOMAIN list = DOMAIN items \cup {k} /\ list = [j \in DOMAIN list |-> list[j]]
  BY DEF PushFront
<1>2. list[k] = e /\ \A j \in DOMAIN items : j # k => list[j] = items[j]
  BY DEF PushFront
<1>3. e \in Entry /\ IsCurrent(e) /\ e.usedAt = now + 1 /\ e.generation = currentGeneration
  BY DEF LRUType, Entry, IsCurrent
<1>4. \A j \in DOMAIN items : items[j] \in Entry /\ items[j].usedAt < now + 1
                               /\ items[j].generation =< currentGeneration
  BY DEF LRUType, Bounded, Entry
<1> HIDE DEF e, list
<1>5. \A j \in DOMAIN list : j = k \/ (j \in DOMAIN items /\ list[j] = items[j])
  BY <1>1, <1>2
<1>6. now + 1 =< now + 1 /\ currentGeneration =< currentGeneration
  BY DEF LRUType
<1>7. \A j \in DOMAIN list : list[j] \in Entry /\ list[j].usedAt =< now + 1
                              /\ list[j].generation =< currentGeneration
  BY <1>2, <1>3, <1>4, <1>5, <1>6 DEF LRUType, Entry
<1>8. ASSUME NEW i \in DOMAIN list, NEW j \in DOMAIN list,
             IsCurrent(list[i]), ~IsCurrent(list[j])
      PROVE  list[j].usedAt < list[i].usedAt
  <2>1. j # k /\ j \in DOMAIN items /\ list[j] = items[j]
    BY <1>2, <1>3, <1>5, <1>8
  <2> QED BY <1>2, <1>3, <1>4, <1>5, <1>8, <2>1 DEF StaleIsOlder
<1> QED BY <1>1, <1>2, <1>3, <1>7, <1>8 DEF e, list

(* The state after such a push.                                            *)
LEMMA PushKeeps ==
  ASSUME LRUType, Bounded, StaleIsOlder, NEW k \in CacheKey, NEW v \in CacheValue,
         NEW expiry \in {"never", "later", "past"},
         items' = PushFront(k, v, expiry), now' = now + 1,
         currentGeneration' = currentGeneration, len' \in Int
  PROVE  /\ LRUType' /\ Bounded' /\ StaleIsOlder'
         /\ DOMAIN items' = DOMAIN items \cup {k}
         /\ InGeneration' = InGeneration \cup {k}
         /\ Shown' = Recent!Used(k, v, expiry)
<1>1. /\ DOMAIN items' = DOMAIN items \cup {k}
      /\ items' = [j \in DOMAIN items' |-> items'[j]]
      /\ \A j \in DOMAIN items' : items'[j] \in Entry /\ items'[j].usedAt =< now'
                                  /\ items'[j].generation =< currentGeneration'
      /\ \A j \in DOMAIN items : j # k => items'[j] = items[j]
      /\ items'[k] = [value |-> v, expiry |-> expiry, usedAt |-> now + 1,
                      generation |-> currentGeneration]
      /\ IsCurrent(items'[k])
      /\ \A i, j \in DOMAIN items' :
           (IsCurrent(items'[i]) /\ ~IsCurrent(items'[j])) => items'[j].usedAt < items'[i].usedAt
  <2> DEFINE list == PushFront(k, v, expiry)
  <2>1. items' = list /\ now' = now + 1 /\ currentGeneration' = currentGeneration
    OBVIOUS
  <2>2. /\ DOMAIN list = DOMAIN items \cup {k}
        /\ list = [j \in DOMAIN list |-> list[j]]
        /\ \A j \in DOMAIN list : list[j] \in Entry /\ list[j].usedAt =< now + 1
                                   /\ list[j].generation =< currentGeneration
        /\ \A j \in DOMAIN items : j # k => list[j] = items[j]
        /\ list[k] = [value |-> v, expiry |-> expiry, usedAt |-> now + 1,
                      generation |-> currentGeneration]
        /\ IsCurrent(list[k])
        /\ \A i, j \in DOMAIN list :
             (IsCurrent(list[i]) /\ ~IsCurrent(list[j])) => list[j].usedAt < list[i].usedAt
    BY SMTT(30), Pushed, Zenon
  <2> HIDE DEF list
  <2> QED BY <2>1, <2>2
<1>2. LRUType' /\ Bounded'
  BY <1>1 DEF LRUType, Bounded
<1>3. StaleIsOlder'
  BY <1>1 DEF StaleIsOlder, IsCurrent
<1>4. InGeneration' = InGeneration \cup {k}
  BY <1>1 DEF InGeneration, IsCurrent
<1>5. \A j \in InGeneration \cup {k} :
        Trim(items'[j]) = IF j = k THEN [value |-> v, expiry |-> expiry, usedAt |-> now + 1]
                          ELSE Shown[j]
  BY <1>1 DEF Trim, Shown, InGeneration
<1>6. Shown' = [j \in InGeneration \cup {k} |-> Trim(items'[j])]
  BY <1>4 DEF Shown, Trim
<1>7. DOMAIN Shown = InGeneration
  BY DEF Shown
<1>8. Shown' = Recent!Used(k, v, expiry)
  BY <1>5, <1>6, <1>7 DEF Recent!Used, Recent!With
<1> QED BY <1>1, <1>2, <1>3, <1>4, <1>8

(* The state after one element is removed.                                 *)
LEMMA RemoveKeeps ==
  ASSUME LRUInv, NEW k \in DOMAIN items, removeElement(items, k, len),
         UNCHANGED <<now, currentGeneration>>
  PROVE  LRUInv' /\ Shown' = Recent!Without(Shown, k)
<1> USE DEF LRUInv
<1>1. DOMAIN items' = DOMAIN items \ {k} /\ \A j \in DOMAIN items' : items'[j] = items[j]
  BY DEF removeElement
<1>2. InGeneration' = InGeneration \ {k}
  BY <1>1 DEF InGeneration, IsCurrent
<1>3. IsCurrent(items[k]) <=> k \in InGeneration
  BY DEF InGeneration
<1>4. LenIsExact'
  BY <1>2, <1>3, OneLess DEF removeElement, LenIsExact, One
<1>5. LRUType'
  BY <1>1 DEF LRUType, removeElement, One
<1>6. Bounded' /\ StaleIsOlder'
  BY <1>1 DEF Bounded, StaleIsOlder, IsCurrent
<1>7. ListFits'
  BY <1>1, KeysAreFinite, FS_Subset, FS_CardinalityType, LRUAssumption DEF ListFits
<1>8. Shown' = Recent!Without(Shown, k)
  <2>1. DOMAIN Shown = InGeneration
    BY DEF Shown
  <2>2. \A j \in InGeneration \ {k} : Trim(items'[j]) = Shown[j]
    BY <1>1 DEF Shown, InGeneration, Trim
  <2>3. Shown' = [j \in InGeneration \ {k} |-> Trim(items'[j])]
    BY <1>2 DEF Shown, Trim
  <2> QED BY <2>1, <2>2, <2>3 DEF Recent!Without
<1> QED BY <1>4, <1>5, <1>6, <1>7, <1>8

(* RecentCache counts as its refinement does.                              *)
LEMMA SameCardinality == \A S : Recent!Cardinality(S) = Cardinality(S)
BY DEF Recent!Cardinality, Cardinality

(* The state after a push for which something had to go: of an earlier     *)
(* generation if there was any of it, else what RecentCache lets go.       *)
LEMMA EvictKeeps ==
  ASSUME LRUInv, NEW k \in CacheKey, NEW v \in CacheValue, NEW expiry \in {"never", "later"},
         k \notin DOMAIN items, Cardinality(DOMAIN PushFront(k, v, expiry)) > CacheSize,
         NEW j \in Back(PushFront(k, v, expiry)),
         removeElement(PushFront(k, v, expiry), j, len + 1),
         now' = now + 1, UNCHANGED <<currentGeneration, answer>>
  PROVE  LRUInv' /\ Recent!Set(k, v, expiry)
<1> DEFINE list == PushFront(k, v, expiry)
           used == Recent!Used(k, v, expiry)
<1> USE DEF LRUInv
<1>1. /\ DOMAIN list = DOMAIN items \cup {k}
      /\ \A i \in DOMAIN list : list[i] \in Entry /\ list[i].usedAt =< now + 1
                                 /\ list[i].generation =< currentGeneration
      /\ \A i \in DOMAIN items : i # k => list[i] = items[i]
      /\ list[k] = [value |-> v, expiry |-> expiry, usedAt |-> now + 1,
                    generation |-> currentGeneration]
      /\ IsCurrent(list[k])
      /\ \A h, i \in DOMAIN list :
           (IsCurrent(list[h]) /\ ~IsCurrent(list[i])) => list[i].usedAt < list[h].usedAt
  <2>1. LRUType /\ Bounded /\ StaleIsOlder /\ expiry \in {"never", "later", "past"}
    OBVIOUS
  <2> QED BY SMTT(30), <2>1, Pushed, Zenon
<1>2. j \in DOMAIN list /\ \A i \in DOMAIN list : list[j].usedAt =< list[i].usedAt
  BY DEF Back
<1>3. /\ items' = [i \in DOMAIN list \ {j} |-> list[i]]
      /\ len' = (len + 1) - One(IsCurrent(list[j]))
  BY DEF removeElement
<1>4. DOMAIN used = InGeneration \cup {k}
  BY DEF Recent!Used, Recent!With, Shown
<1>5. \A i \in DOMAIN used : used[i] = Trim(list[i])
  BY <1>1 DEF Recent!Used, Recent!With, Shown, InGeneration, Trim
<1>6. used = [i \in DOMAIN used |-> used[i]]
  BY DEF Recent!Used, Recent!With
<1>7. Cardinality(DOMAIN list) > CacheSize
  OBVIOUS
<1> HIDE DEF list, used
<1>8. /\ DOMAIN items' = DOMAIN list \ {j}
      /\ \A i \in DOMAIN items' : items'[i] = list[i]
  BY <1>3
<1>9. \A i \in DOMAIN list : IsCurrent(list[i]) <=> i \in DOMAIN used
  BY <1>1, <1>4 DEF InGeneration
<1>10. InGeneration' = DOMAIN used \ {j}
  BY <1>1, <1>4, <1>8, <1>9 DEF InGeneration, IsCurrent
<1>11. LRUType'
  <2>1. DOMAIN items' \subseteq CacheKey /\ \A i \in DOMAIN items' : items'[i] \in Entry
    BY <1>1, <1>8 DEF LRUType
  <2>2. items' = [i \in DOMAIN items' |-> items'[i]]
    BY <1>3
  <2>3. len' \in Int /\ currentGeneration' \in Nat /\ now' \in Nat
    BY <1>3 DEF LRUType, One
  <2> QED BY <2>1, <2>2, <2>3 DEF LRUType
<1>12. Bounded' /\ StaleIsOlder'
  BY <1>1, <1>8 DEF Bounded, StaleIsOlder, IsCurrent
<1>13. Cardinality(DOMAIN used) = len + 1 /\ IsFiniteSet(DOMAIN used)
  <2>1. k \notin InGeneration
    BY DEF InGeneration
  <2> QED BY <2>1, <1>4, KeysAreFinite, FS_AddElement DEF LenIsExact
<1>14. LenIsExact'
  <2>1. Cardinality(InGeneration') = Cardinality(DOMAIN used) - One(j \in DOMAIN used)
    BY <1>10, <1>13, FS_RemoveElement, FS_CardinalityType DEF One
  <2>2. One(IsCurrent(list[j])) = One(j \in DOMAIN used)
    BY <1>2, <1>9 DEF One
  <2> QED BY <1>3, <1>13, <2>1, <2>2 DEF LenIsExact
<1>15. /\ IsFiniteSet(DOMAIN items') /\ Cardinality(DOMAIN items') = Cardinality(DOMAIN items)
       /\ Cardinality(DOMAIN items') \in Nat
  <2>1. IsFiniteSet(DOMAIN list) /\ Cardinality(DOMAIN list) = Cardinality(DOMAIN items) + 1
    BY <1>1, KeysAreFinite, FS_AddElement
  <2>2. /\ IsFiniteSet(DOMAIN items')
        /\ Cardinality(DOMAIN items') = Cardinality(DOMAIN list) - 1
    BY <1>2, <1>8, <2>1, FS_RemoveElement
  <2>3. Cardinality(DOMAIN items) \in Nat
    BY KeysAreFinite, FS_CardinalityType
  <2> QED BY <2>1, <2>2, <2>3
<1>16. ListFits'
  BY <1>15 DEF ListFits
<1>17. Shown' = Recent!Without(used, j)
  <2>1. Shown' = [i \in DOMAIN used \ {j} |-> Trim(items'[i])]
    BY <1>10 DEF Shown, Trim
  <2>2. \A i \in DOMAIN used \ {j} : Trim(items'[i]) = used[i]
    BY <1>1, <1>4, <1>5, <1>8 DEF Trim, InGeneration
  <2> QED BY <2>1, <2>2 DEF Recent!Without
<1>18. CASE IsCurrent(list[j])
  <2>1. \A i \in DOMAIN list : IsCurrent(list[i])
    BY <1>1, <1>2, <1>18 DEF Entry
  <2>2. DOMAIN used = DOMAIN list
    BY <1>1, <1>4, <1>9, <2>1 DEF InGeneration
  <2>3. j \in Recent!LongestUnused(used)
    BY <1>2, <1>5, <2>2 DEF Recent!LongestUnused, Trim
  <2>4. ~(Cardinality(DOMAIN used) =< CacheSize)
    BY <1>7, <1>13, <2>2, FS_CardinalityType, LRUAssumption
  <2> QED BY <1>11, <1>12, <1>14, <1>16, <1>17, <2>3, <2>4, SameCardinality DEF Recent!Set, used
<1>19. CASE ~IsCurrent(list[j])
  <2>1. j \notin DOMAIN used
    BY <1>2, <1>9, <1>19
  <2>2. Recent!Without(used, j) = used
    BY <1>6, <2>1 DEF Recent!Without
  <2>3. DOMAIN used \in SUBSET DOMAIN items'
    BY <1>1, <1>4, <1>8, <2>1 DEF InGeneration
  <2>4. Cardinality(DOMAIN used) =< CacheSize
    BY <1>13, <1>15, <1>16, <2>3, FS_Subset, FS_CardinalityType, LRUAssumption DEF ListFits
  <2> QED BY <1>11, <1>12, <1>14, <1>16, <1>17, <2>2, <2>4, SameCardinality DEF Recent!Set, used
<1> QED BY <1>18, <1>19

----------------------------------------------------------------------------
(* One call at a time: each keeps the invariant and is a call of the cache *)
(* that is promised.                                                       *)
Promised == [Recent!Next]_(Recent!rvars)

LEMMA InitLRU == LRUInit => LRUInv /\ Recent!Init
<1> SUFFICES ASSUME LRUInit PROVE LRUInv /\ Recent!Init
  OBVIOUS
<1>1. DOMAIN items = {} /\ InGeneration = {}
  BY DEF LRUInit, InGeneration
<1>2. Cardinality({}) = 0
  BY FS_EmptySet
<1>3. LRUType /\ Bounded /\ StaleIsOlder
  BY <1>1 DEF LRUInit, LRUType, Bounded, StaleIsOlder
<1>4. ListFits /\ LenIsExact
  BY <1>1, <1>2, LRUAssumption DEF LRUInit, ListFits, LenIsExact
<1>5. Shown = [k \in {} |-> NotFound]
  BY <1>1 DEF Shown
<1> QED BY <1>3, <1>4, <1>5 DEF LRUInv, Recent!Init, LRUInit

LEMMA PurgeStep == LRUInv /\ LRUPurge => LRUInv' /\ Recent!Purge
<1> SUFFICES ASSUME LRUInv, LRUPurge PROVE LRUInv' /\ Recent!Purge
  OBVIOUS
<1> USE DEF LRUInv, LRUPurge
<1>1. \A k \in DOMAIN items : items[k].generation # currentGeneration'
  BY DEF LRUType, Bounded, Entry
<1>2. InGeneration' = {}
  BY <1>1 DEF InGeneration, IsCurrent
<1>3. LRUType' /\ ListFits'
  BY DEF LRUType, ListFits
<1>4. Bounded'
  BY DEF LRUType, Bounded, Entry
<1>5. StaleIsOlder'
  BY <1>1 DEF StaleIsOlder, IsCurrent
<1>6. LenIsExact'
  BY <1>2, FS_EmptySet DEF LenIsExact
<1>7. Shown' = [k \in {} |-> NotFound]
  BY <1>2 DEF Shown
<1> QED BY <1>3, <1>4, <1>5, <1>6, <1>7 DEF Recent!Purge

LEMMA UpdateStep ==
  ASSUME LRUInv, NEW k \in CacheKey, NEW v \in CacheValue, NEW expiry \in {"never", "later"},
         UpdateItem(k, v, expiry), UNCHANGED <<currentGeneration, answer>>
  PROVE  LRUInv' /\ Recent!Set(k, v, expiry)
<1> USE DEF LRUInv
<1>1. k \in DOMAIN items /\ items' = PushFront(k, v, expiry) /\ now' = now + 1
      /\ len' = len + One(~IsCurrent(items[k]))
  BY DEF UpdateItem
<1>2. len' \in Int
  BY <1>1 DEF LRUType, One
<1>3. /\ LRUType' /\ Bounded' /\ StaleIsOlder' /\ DOMAIN items' = DOMAIN items \cup {k}
      /\ InGeneration' = InGeneration \cup {k} /\ Shown' = Recent!Used(k, v, expiry)
  BY <1>1, <1>2, PushKeeps
<1>4. LenIsExact'
  BY <1>1, <1>3, OneMore DEF LenIsExact, One, InGeneration
<1>5. DOMAIN items' = DOMAIN items
  BY <1>1, <1>3
<1>6. ListFits'
  BY <1>5 DEF ListFits
<1>7. Cardinality(DOMAIN Recent!Used(k, v, expiry)) =< CacheSize
  <2>1. DOMAIN Recent!Used(k, v, expiry) \in SUBSET DOMAIN items
    BY <1>1 DEF Recent!Used, Recent!With, Shown, InGeneration
  <2> QED BY <2>1, KeysAreFinite, FS_Subset, FS_CardinalityType, LRUAssumption DEF ListFits
<1> QED BY <1>1, <1>3, <1>4, <1>6, <1>7, SameCardinality DEF Recent!Set

LEMMA AddStep ==
  ASSUME LRUInv, NEW k \in CacheKey, NEW v \in CacheValue, NEW expiry \in {"never", "later"},
         AddItem(k, v, expiry), UNCHANGED <<currentGeneration, answer>>
  PROVE  LRUInv' /\ Recent!Set(k, v, expiry)
<1> USE DEF LRUInv
<1>1. k \notin DOMAIN items /\ now' = now + 1
  BY DEF AddItem
<1>2. CASE Cardinality(DOMAIN PushFront(k, v, expiry)) > CacheSize
  BY <1>1, <1>2, EvictKeeps DEF AddItem
<1>3. CASE ~(Cardinality(DOMAIN PushFront(k, v, expiry)) > CacheSize)
  <2>1. items' = PushFront(k, v, expiry) /\ len' = len + 1
    BY <1>3 DEF AddItem
  <2>2. len' \in Int
    BY <2>1 DEF LRUType
  <2>3. /\ LRUType' /\ Bounded' /\ StaleIsOlder' /\ DOMAIN items' = DOMAIN items \cup {k}
        /\ InGeneration' = InGeneration \cup {k} /\ Shown' = Recent!Used(k, v, expiry)
    BY <1>1, <2>1, <2>2, PushKeeps
  <2>4. LenIsExact'
    BY <1>1, <2>1, <2>3, OneMore DEF LenIsExact, One, InGeneration
  <2>5. IsFiniteSet(DOMAIN items') /\ Cardinality(DOMAIN items') \in Nat
    BY <2>3, KeysAreFinite, FS_AddElement, FS_CardinalityType
  <2>6. ListFits'
    BY <1>3, <2>1, <2>5, LRUAssumption DEF ListFits
  <2>7. Cardinality(DOMAIN Recent!Used(k, v, expiry)) =< CacheSize
    <3>1. DOMAIN Recent!Used(k, v, expiry) \in SUBSET DOMAIN items'
      BY <2>3 DEF Recent!Used, Recent!With, Shown, InGeneration
    <3> QED BY <3>1, <2>5, <2>6, FS_Subset, FS_CardinalityType, LRUAssumption DEF ListFits
  <2> QED BY <1>1, <2>3, <2>4, <2>6, <2>7, SameCardinality DEF Recent!Set
<1> QED BY <1>2, <1>3

LEMMA GetStep ==
  ASSUME LRUInv, NEW k \in CacheKey, Get(k)
  PROVE  LRUInv' /\ (Recent!Hit(k) \/ Recent!Miss(k))
<1> USE DEF LRUInv
<1>1. UNCHANGED currentGeneration /\ (MoveToFront(k) \/ ErrKeyNotFound(k))
  BY DEF Get
<1>2. k \in DOMAIN Shown <=> k \in DOMAIN items /\ IsCurrent(items[k])
  BY DEF Shown, InGeneration
<1>3. k \in DOMAIN Shown => Shown[k].expiry = items[k].expiry /\ Shown[k].value = items[k].value
  BY DEF Shown, Trim
<1>4. CASE MoveToFront(k)
  <2>1. /\ k \in DOMAIN items /\ IsCurrent(items[k]) /\ items[k].expiry # "past"
        /\ now' = now + 1 /\ answer' = items[k].value /\ len' = len
        /\ items' = PushFront(k, items[k].value, items[k].expiry)
    BY <1>4 DEF MoveToFront
  <2>2. items[k].value \in CacheValue /\ items[k].expiry \in {"never", "later", "past"}
        /\ len' \in Int
    BY <2>1 DEF LRUType, Entry
  <2>3. /\ LRUType' /\ Bounded' /\ StaleIsOlder' /\ DOMAIN items' = DOMAIN items \cup {k}
        /\ InGeneration' = InGeneration \cup {k}
        /\ Shown' = Recent!Used(k, items[k].value, items[k].expiry)
    BY <1>1, <2>1, <2>2, PushKeeps
  <2>4. InGeneration' = InGeneration /\ DOMAIN items' = DOMAIN items
    BY <2>1, <2>3 DEF InGeneration
  <2>5. LenIsExact' /\ ListFits'
    BY <2>1, <2>4 DEF LenIsExact, ListFits
  <2> QED BY <1>2, <1>3, <2>1, <2>3, <2>5 DEF Recent!Hit
<1>5. CASE ErrKeyNotFound(k) /\ k \in DOMAIN items
  <2>1. /\ ~IsCurrent(items[k]) \/ items[k].expiry = "past"
        /\ removeElement(items, k, len) /\ answer' = NotFound /\ now' = now
    BY <1>5 DEF ErrKeyNotFound
  <2>2. LRUInv' /\ Shown' = Recent!Without(Shown, k)
    BY <1>1, <1>5, <2>1, RemoveKeeps
  <2> QED BY <1>2, <1>3, <2>1, <2>2 DEF Recent!Miss
<1>6. CASE ErrKeyNotFound(k) /\ k \notin DOMAIN items
  <2>1. UNCHANGED <<items, len, now>> /\ answer' = NotFound
    BY <1>6 DEF ErrKeyNotFound
  <2>2. LRUInv'
    BY <1>1, <2>1 DEF LRUType, Bounded, StaleIsOlder, ListFits, LenIsExact, InGeneration, IsCurrent
  <2>3. Shown' = Shown
    BY <1>1, <2>1 DEF Shown, InGeneration, IsCurrent, Trim
  <2>4. k \notin DOMAIN Shown
    BY <1>2, <1>6
  <2>5. Recent!Without(Shown, k) = Shown
    BY <2>4 DEF Recent!Without, Shown
  <2> QED BY <2>1, <2>2, <2>3, <2>4, <2>5 DEF Recent!Miss
<1> QED BY <1>1, <1>4, <1>5, <1>6

LEMMA ExpireStep ==
  ASSUME LRUInv, NEW k \in CacheKey, ExpireItem(k)
  PROVE  LRUInv' /\ (Recent!Expire(k) \/ UNCHANGED Recent!rvars)
<1> USE DEF LRUInv
<1>1. /\ k \in DOMAIN items /\ items[k].expiry = "later"
      /\ items' = [items EXCEPT ![k].expiry = "past"]
      /\ UNCHANGED <<len, currentGeneration, now, answer>>
  BY DEF ExpireItem
<1>2. /\ DOMAIN items' = DOMAIN items
      /\ \A j \in DOMAIN items : j # k => items'[j] = items[j]
      /\ items'[k] = [items[k] EXCEPT !.expiry = "past"]
  BY <1>1
<1>3. items[k] \in Entry
  BY <1>1 DEF LRUType
<1>4. /\ items'[k] \in Entry /\ items'[k].usedAt = items[k].usedAt
      /\ items'[k].generation = items[k].generation
      /\ items'[k].value = items[k].value /\ items'[k].expiry = "past"
  BY <1>2, <1>3 DEF Entry
<1>5. \A j \in DOMAIN items : /\ items'[j] \in Entry /\ items'[j].usedAt = items[j].usedAt
                              /\ items'[j].generation = items[j].generation
  BY <1>2, <1>4 DEF LRUType
<1>6. LRUType'
  <2>1. items' = [j \in DOMAIN items' |-> items'[j]]
    BY <1>1 DEF LRUType
  <2> QED BY <1>1, <1>2, <1>5, <2>1 DEF LRUType
<1>7. Bounded' /\ StaleIsOlder'
  BY <1>1, <1>2, <1>5 DEF Bounded, StaleIsOlder, IsCurrent
<1>8. InGeneration' = InGeneration
  BY <1>1, <1>2, <1>5 DEF InGeneration, IsCurrent
<1>9. ListFits' /\ LenIsExact'
  BY <1>1, <1>2, <1>8 DEF ListFits, LenIsExact
<1>10. Shown' = [j \in InGeneration |-> Trim(items'[j])]
  BY <1>8 DEF Shown, Trim
<1>11. CASE k \in InGeneration
  <2>1. \A j \in InGeneration : Trim(items'[j]) = [Shown EXCEPT ![k].expiry = "past"][j]
    BY <1>2, <1>4 DEF Shown, Trim, InGeneration
  <2>2. Shown' = [Shown EXCEPT ![k].expiry = "past"]
    BY <1>10, <2>1 DEF Shown
  <2>3. k \in DOMAIN Shown /\ Shown[k].expiry = "later"
    BY <1>1, <1>11 DEF Shown, Trim
  <2> QED BY <1>1, <1>6, <1>7, <1>9, <2>2, <2>3 DEF Recent!Expire
<1>12. CASE k \notin InGeneration
  <2>1. \A j \in InGeneration : Trim(items'[j]) = Trim(items[j])
    BY <1>2, <1>12 DEF InGeneration, Trim
  <2>2. Shown' = Shown
    BY <1>10, <2>1 DEF Shown
  <2> QED BY <1>1, <1>6, <1>7, <1>9, <2>2 DEF Recent!rvars
<1> QED BY <1>11, <1>12

LEMMA NextLRU == LRUInv /\ [LRUNext]_lruVars => LRUInv' /\ Promised
<1> SUFFICES ASSUME LRUInv, [LRUNext]_lruVars PROVE LRUInv' /\ Promised
  OBVIOUS
<1> USE DEF Promised, Recent!Next
<1>1. CASE LRUPurge
  BY <1>1, PurgeStep
<1>2. ASSUME NEW k \in CacheKey, NEW v \in CacheValue, NEW expiry \in {"never", "later"},
             SetWithExpiry(k, v, expiry)
      PROVE  LRUInv' /\ Promised
  <2>1. LRUInv' /\ Recent!Set(k, v, expiry)
    BY <1>2, UpdateStep, AddStep DEF SetWithExpiry
  <2> QED BY <2>1
<1>3. ASSUME NEW k \in CacheKey, Get(k) PROVE LRUInv' /\ Promised
  BY <1>3, GetStep
<1>4. ASSUME NEW k \in CacheKey, RemoveItem(k) PROVE LRUInv' /\ Promised
  <2>1. /\ k \in DOMAIN items /\ removeElement(items, k, len)
        /\ UNCHANGED <<now, currentGeneration, answer>>
    BY <1>4 DEF RemoveItem
  <2>2. LRUInv' /\ Shown' = Recent!Without(Shown, k)
    BY <2>1, RemoveKeeps
  <2> QED BY <2>1, <2>2 DEF Recent!Remove
<1>5. ASSUME NEW k \in CacheKey, ExpireItem(k) PROVE LRUInv' /\ Promised
  BY <1>5, ExpireStep
<1>6. CASE UNCHANGED lruVars
  <2>1. LRUInv'
    BY <1>6 DEF lruVars, LRUInv, LRUType, Bounded, StaleIsOlder, ListFits, LenIsExact,
                InGeneration, IsCurrent
  <2>2. UNCHANGED Recent!rvars
    BY <1>6 DEF lruVars, Recent!rvars, Shown, InGeneration, IsCurrent, Trim
  <2> QED BY <2>1, <2>2
<1> QED BY <1>1, <1>2, <1>3, <1>4, <1>5, <1>6 DEF LRUNext

(* For any keys, values, size and calls, the length is the number of       *)
(* entries of the present generation (Len and Keys,                        *)
(* services/l1cache/lru.go:99).                                            *)
THEOREM LengthIsExact == LRUSpec => []LenIsExact
<1>1. LRUInv => LenIsExact
  BY DEF LRUInv
<1> QED BY <1>1, InitLRU, NextLRU, PTL DEF LRUSpec

(* For any keys, values, size and calls, the LRU with its generations is   *)
(* the cache that RecentCache promises (Purge, services/l1cache/lru.go:50).*)
THEOREM ImplementsRecentCache == LRUSpec => RecentSpec
BY InitLRU, NextLRU, PTL DEF LRUSpec, RecentSpec, Recent!Spec, Promised
=============================================================================
