--------------------------- MODULE HubIndexProofs ---------------------------
(***************************************************************************)
(* Proofs about HubIndex, for any connections and users: the two maps of   *)
(* the index always agree, a broadcast's loop is never disturbed by the    *)
(* removals it makes, and the index implements HubConns.                   *)
(***************************************************************************)
EXTENDS HubIndex, TLAPS

(* What the variables look like when a step has been taken.                *)
IndexTyped == /\ slots \in [User -> Seq(Conn)]
              /\ size \in [User -> Nat]
              /\ DOMAIN at \subseteq Conn /\ \A c \in DOMAIN at : at[c] \in Nat

IInv == IndexTyped /\ sweep \in Sweep /\ MapsAgree /\ SweepIsSafe

-----------------------------------------------------------------------------
(* What Add does.                                                          *)
LEMMA AddKeeps ==
  ASSUME IndexTyped, MapsAgree, NEW c \in Conn, ~Has(c), Add(c)
  PROVE  IndexTyped' /\ MapsAgree' /\ All' = All \cup {c}
<1> DEFINE v == UserOf[c]
           short == SubSeq(slots[v], 1, size[v])
<1>1. v \in User
  BY UserOfAssumption
<1>2. /\ short \in Seq(Conn) /\ Len(short) = size[v]
      /\ \A k \in 1..size[v] : short[k] = slots[v][k]
  BY <1>1 DEF IndexTyped, MapsAgree
<1>3. /\ slots' = [slots EXCEPT ![v] = Append(short, c)]
      /\ size' = [size EXCEPT ![v] = @ + 1]
      /\ at' = [d \in DOMAIN at \cup {c} |-> IF d = c THEN size[v] + 1 ELSE at[d]]
  BY DEF Add
<1> HIDE DEF short
<1>4. /\ Append(short, c) \in Seq(Conn) /\ Len(Append(short, c)) = size[v] + 1
      /\ Append(short, c)[size[v] + 1] = c
      /\ \A k \in 1..size[v] : Append(short, c)[k] = slots[v][k]
  BY <1>1, <1>2 DEF IndexTyped
<1>5. IndexTyped'
  BY <1>1, <1>3, <1>4 DEF IndexTyped
<1>6. /\ \A u \in User : u # v => slots'[u] = slots[u] /\ size'[u] = size[u]
      /\ slots'[v] = Append(short, c) /\ size'[v] = size[v] + 1
      /\ DOMAIN at' = DOMAIN at \cup {c}
      /\ at'[c] = size[v] + 1 /\ \A d \in DOMAIN at : at'[d] = at[d]
  BY <1>1, <1>3 DEF IndexTyped, Has
<1>7. MapsAgree'
  <2>1. ASSUME NEW u \in User PROVE size'[u] <= Len(slots'[u])
    <3>1. CASE u = v
      BY <1>1, <1>4, <1>6, <3>1
    <3>2. CASE u # v
      BY <1>6, <3>2 DEF MapsAgree
    <3>3. QED
      BY <3>1, <3>2
  <2>2. ASSUME NEW d \in DOMAIN at'
        PROVE  at'[d] \in 1..size'[UserOf[d]] /\ slots'[UserOf[d]][at'[d]] = d
    <3>1. CASE d = c
      BY <1>1, <1>4, <1>6, <3>1 DEF IndexTyped
    <3>2. CASE d # c
      <4>1. /\ d \in DOMAIN at /\ UserOf[d] \in User /\ at'[d] = at[d]
            /\ at[d] \in 1..size[UserOf[d]] /\ slots[UserOf[d]][at[d]] = d
        BY <1>6, <3>2, UserOfAssumption DEF MapsAgree, IndexTyped
      <4>2. CASE UserOf[d] = v
        <5>1. size[v] \in Nat
          BY <1>1 DEF IndexTyped
        <5>2. QED
          BY <1>4, <1>6, <4>1, <4>2, <5>1
      <4>3. CASE UserOf[d] # v
        BY <1>6, <4>1, <4>3
      <4>4. QED
        BY <4>2, <4>3
    <3>3. QED
      BY <3>1, <3>2
  <2>3. ASSUME NEW u \in User, NEW k \in 1..size'[u]
        PROVE  slots'[u][k] \in DOMAIN at' /\ UserOf[slots'[u][k]] = u /\ at'[slots'[u][k]] = k
    <3>1. CASE u # v
      BY <1>6, <3>1 DEF MapsAgree
    <3>2. CASE u = v /\ k = size[v] + 1
      BY <1>4, <1>6, <3>2
    <3>3. CASE u = v /\ k # size[v] + 1
      <4>1. k \in 1..size[v] /\ size[v] \in Nat
        BY <1>1, <1>6, <3>3 DEF IndexTyped
      <4>2. slots'[u][k] = slots[v][k]
        BY <1>4, <1>6, <3>3, <4>1
      <4>3. QED
        BY <1>1, <1>6, <3>3, <4>1, <4>2 DEF MapsAgree
    <3>4. QED
      BY <3>1, <3>2, <3>3
  <2>4. QED
    BY <2>1, <2>2, <2>3 DEF MapsAgree
<1>8. QED
  BY <1>5, <1>6, <1>7 DEF All

(* What Remove does to a registered connection.  Of the arrays it changes  *)
(* one element, the one the connection was in; the connection that moves   *)
(* there was the last of the slice.                                        *)
LEMMA RemoveKeeps ==
  ASSUME IndexTyped, MapsAgree, NEW c \in Conn, Has(c), Remove(c)
  PROVE  /\ IndexTyped' /\ MapsAgree' /\ All' = All \ {c}
         /\ \A u \in User : Len(slots'[u]) = Len(slots[u])
         /\ \A u \in User : \A k \in 1..Len(slots[u]) :
               ~(u = UserOf[c] /\ k = at[c]) => slots'[u][k] = slots[u][k]
         /\ \A d \in All' : at'[d] = at[d] \/ (UserOf[d] = UserOf[c] /\ at'[d] = at[c])
<1> DEFINE v == UserOf[c]
           moved == slots[v][size[v]]
           filled == [slots[v] EXCEPT ![at[c]] = moved]
<1>1. /\ v \in User /\ c \in DOMAIN at /\ at[c] \in 1..size[v] /\ slots[v][at[c]] = c
      /\ size[v] \in Nat /\ size[v] >= 1 /\ size[v] <= Len(slots[v])
  BY UserOfAssumption DEF MapsAgree, Has, IndexTyped
<1>2. moved \in DOMAIN at /\ UserOf[moved] = v /\ at[moved] = size[v] /\ moved \in Conn
  BY SMTT(30), <1>1 DEF MapsAgree, IndexTyped
<1>3. /\ slots' = [slots EXCEPT ![v] = filled]
      /\ size' = [size EXCEPT ![v] = @ - 1]
      /\ at' = [d \in DOMAIN at \ {c} |-> IF d = moved THEN at[c] ELSE at[d]]
  BY DEF Remove, Has
<1>4. /\ filled \in Seq(Conn) /\ Len(filled) = Len(slots[v])
      /\ filled[at[c]] = moved
      /\ \A k \in 1..Len(slots[v]) : k # at[c] => filled[k] = slots[v][k]
  BY <1>1, <1>2 DEF IndexTyped
<1> HIDE DEF filled, moved
<1>5. IndexTyped'
  BY <1>1, <1>3, <1>4 DEF IndexTyped
<1>6. /\ \A u \in User : u # v => slots'[u] = slots[u] /\ size'[u] = size[u]
      /\ slots'[v] = filled /\ size'[v] = size[v] - 1
      /\ DOMAIN at' = DOMAIN at \ {c}
      /\ \A d \in DOMAIN at' : at'[d] = IF d = moved THEN at[c] ELSE at[d]
  BY <1>1, <1>3 DEF IndexTyped
<1>7. MapsAgree'
  <2>1. ASSUME NEW u \in User PROVE size'[u] <= Len(slots'[u])
    <3>1. CASE u = v
      BY <1>1, <1>4, <1>6, <3>1
    <3>2. CASE u # v
      BY <1>6, <3>2 DEF MapsAgree
    <3>3. QED
      BY <3>1, <3>2
  <2>2. ASSUME NEW d \in DOMAIN at'
        PROVE  at'[d] \in 1..size'[UserOf[d]] /\ slots'[UserOf[d]][at'[d]] = d
    <3>1. /\ d \in DOMAIN at /\ d # c /\ d \in Conn /\ UserOf[d] \in User
          /\ at[d] \in 1..size[UserOf[d]] /\ slots[UserOf[d]][at[d]] = d
      BY <1>6, UserOfAssumption DEF MapsAgree, IndexTyped
    <3>2. CASE UserOf[d] # v
      BY <1>2, <1>6, <3>1, <3>2
    <3>3. CASE d = moved
      <4>1. at'[d] = at[c] /\ UserOf[d] = v
        BY <1>2, <1>6, <3>3
      <4>2. at[c] # size[v]
        BY <1>1, <1>2, <3>1, <3>3 DEF moved
      <4>3. QED
        BY <1>1, <1>4, <1>6, <3>3, <4>1, <4>2
    <3>4. CASE UserOf[d] = v /\ d # moved
      <4>1. at'[d] = at[d] /\ at[d] # at[c] /\ at[d] # size[v]
        BY <1>1, <1>6, <3>1, <3>4 DEF moved
      <4>2. QED
        BY <1>1, <1>4, <1>6, <3>1, <3>4, <4>1
    <3>5. QED
      BY <3>2, <3>3, <3>4, <1>2
  <2>3. ASSUME NEW u \in User, NEW k \in 1..size'[u]
        PROVE  slots'[u][k] \in DOMAIN at' /\ UserOf[slots'[u][k]] = u /\ at'[slots'[u][k]] = k
    <3>1. CASE u # v
      <4>1. /\ slots[u][k] \in DOMAIN at /\ UserOf[slots[u][k]] = u /\ at[slots[u][k]] = k
            /\ slots'[u][k] = slots[u][k]
        BY <1>6, <3>1 DEF MapsAgree
      <4>2. QED
        BY <1>2, <1>6, <3>1, <4>1
    <3>2. CASE u = v /\ k = at[c]
      <4>1. slots'[u][k] = moved /\ moved # c
        BY <1>1, <1>2, <1>4, <1>6, <3>2
      <4>2. QED
        BY <1>2, <1>6, <3>2, <4>1
    <3>3. CASE u = v /\ k # at[c]
      <4>1. k \in 1..size[v] /\ k # size[v] /\ slots'[u][k] = slots[u][k]
        BY <1>1, <1>4, <1>6, <3>3
      <4>2. slots[u][k] \in DOMAIN at /\ UserOf[slots[u][k]] = u /\ at[slots[u][k]] = k
        BY <3>3, <4>1 DEF MapsAgree
      <4>3. QED
        BY <1>2, <1>6, <3>3, <4>1, <4>2
    <3>4. QED
      BY <3>1, <3>2, <3>3
  <2>4. QED
    BY <2>1, <2>2, <2>3 DEF MapsAgree
<1>8. All' = All \ {c}
  BY <1>6 DEF All
<1>9. \A u \in User : Len(slots'[u]) = Len(slots[u])
  BY <1>4, <1>6
<1>10. \A u \in User : \A k \in 1..Len(slots[u]) :
          ~(u = UserOf[c] /\ k = at[c]) => slots'[u][k] = slots[u][k]
  BY <1>4, <1>6
<1>11. \A d \in All' : at'[d] = at[d] \/ (UserOf[d] = UserOf[c] /\ at'[d] = at[c])
  BY <1>2, <1>6 DEF All
<1>12. QED
  BY <1>5, <1>7, <1>8, <1>9, <1>10, <1>11

(* The walk of a broadcast survives a removal of the connection it offers. *)
LEMMA OfferNextKeeps ==
  ASSUME IInv, OfferNext
  PROVE  /\ IInv'
         /\ Todo' = Todo \ {slots[sweep.user][sweep.next]}
         /\ slots[sweep.user][sweep.next] \in Todo
         /\ All' \in {All, All \ {slots[sweep.user][sweep.next]}}
<1> DEFINE u == sweep.user
           n == sweep.next
           c == slots[u][n]
<1>1. /\ sweep.over = "user" /\ u \in User /\ n \in Nat /\ sweep.last \in Nat /\ n <= sweep.last
      /\ n >= 1 /\ sweep.last <= Len(slots[u])
      /\ sweep = [over |-> "user", user |-> u, next |-> n, last |-> sweep.last]
  BY DEF IInv, OfferNext, SweepIsSafe, Sweep
<1>2. sweep' = [over |-> "user", user |-> u, next |-> n + 1, last |-> sweep.last]
  BY <1>1 DEF OfferNext
<1>3. /\ sweep' \in Sweep /\ sweep'.over = "user" /\ sweep'.user = u
      /\ sweep'.next = n + 1 /\ sweep'.last = sweep.last
  BY <1>1, <1>2 DEF Sweep
<1>4. /\ \A k \in n..sweep.last :
            /\ slots[u][k] \in DOMAIN at /\ UserOf[slots[u][k]] = u
            /\ at[slots[u][k]] = k \/ at[slots[u][k]] < n
      /\ \A j, k \in n..sweep.last : slots[u][j] = slots[u][k] => j = k
  BY <1>1 DEF IInv, SweepIsSafe
<1>5. c \in DOMAIN at /\ c \in Conn /\ UserOf[c] = u /\ at[c] <= n /\ at[c] \in Nat
  BY <1>1, <1>4 DEF IInv, IndexTyped
<1>6. Todo = {slots[u][k] : k \in n..sweep.last}
  BY <1>1 DEF Todo
<1>7. Todo' = {slots'[u][k] : k \in (n + 1)..sweep.last}
  BY <1>3 DEF Todo
<1> HIDE DEF c, n, u
<1>8. /\ IndexTyped' /\ MapsAgree' /\ All' \in {All, All \ {c}}
      /\ Len(slots'[u]) = Len(slots[u])
      /\ \A k \in (n + 1)..sweep.last : slots'[u][k] = slots[u][k]
      /\ \A d \in All' : at'[d] = at[d] \/ at'[d] <= n
  <2>1. CASE Remove(c)
    <3>1. IndexTyped /\ MapsAgree /\ Has(c)
      BY <1>5 DEF IInv, Has
    <3>2. /\ IndexTyped' /\ MapsAgree' /\ All' = All \ {c}
          /\ \A w \in User : Len(slots'[w]) = Len(slots[w])
          /\ \A w \in User : \A k \in 1..Len(slots[w]) :
                ~(w = UserOf[c] /\ k = at[c]) => slots'[w][k] = slots[w][k]
          /\ \A d \in All' : at'[d] = at[d] \/ (UserOf[d] = UserOf[c] /\ at'[d] = at[c])
      BY <1>5, <2>1, <3>1, RemoveKeeps
    <3>3. Len(slots[u]) \in Nat
      BY <1>1, <3>1 DEF IndexTyped
    <3>4. \A k \in (n + 1)..sweep.last : slots'[u][k] = slots[u][k]
      BY <1>1, <1>5, <3>2, <3>3
    <3>5. QED
      BY <1>1, <1>5, <3>2, <3>4
  <2>2. CASE UNCHANGED <<slots, size, at>>
    BY <2>2 DEF IInv, IndexTyped, MapsAgree, All
  <2>3. QED
    BY <1>5, <2>1, <2>2 DEF OfferNext, Offered, Has, c, n, u
<1>9. Todo' = Todo \ {c} /\ c \in Todo
  <2>1. Todo' = {slots[u][k] : k \in (n + 1)..sweep.last}
    BY <1>7, <1>8
  <2>2. QED
    BY <1>1, <1>4, <1>6, <2>1 DEF c
<1>10. All' \subseteq All /\ \A k \in (n + 1)..sweep.last : slots[u][k] \in All'
  <2>1. \A k \in (n + 1)..sweep.last : slots[u][k] \in All /\ slots[u][k] # c
    BY <1>1, <1>4 DEF c, All
  <2>2. QED
    BY <1>8, <2>1
<1>11. SweepIsSafe'
  <2>1. sweep'.next >= 1 /\ sweep'.last <= Len(slots'[sweep'.user])
    BY <1>1, <1>3, <1>8
  <2>2. ASSUME NEW k \in sweep'.next..sweep'.last
        PROVE  /\ slots'[u][k] \in DOMAIN at' /\ UserOf[slots'[u][k]] = u
               /\ at'[slots'[u][k]] = k \/ at'[slots'[u][k]] < n + 1
    <3>1. k \in (n + 1)..sweep.last /\ k \in n..sweep.last /\ slots'[u][k] = slots[u][k]
      BY <1>1, <1>3, <1>8
    <3>2. slots[u][k] \in All' /\ slots[u][k] \in All
      BY <1>10, <3>1
    <3>3. at[slots[u][k]] = k \/ at[slots[u][k]] < n
      BY <1>4, <3>1
    <3>4. at'[slots[u][k]] \in Nat
      BY <1>8, <3>2 DEF IndexTyped, All
    <3>5. at'[slots[u][k]] = k \/ at'[slots[u][k]] < n + 1
      BY <1>1, <1>8, <3>2, <3>3, <3>4
    <3>6. QED
      BY <1>4, <3>1, <3>2, <3>5 DEF All
  <2>3. \A j, k \in sweep'.next..sweep'.last : slots'[u][j] = slots'[u][k] => j = k
    BY <1>1, <1>3, <1>4, <1>8
  <2>4. QED
    BY <1>3, <2>1, <2>2, <2>3 DEF SweepIsSafe
<1>12. QED
  BY <1>3, <1>8, <1>9, <1>11 DEF IInv, c, n, u

(* The walk over the map.                                                  *)
LEMMA OfferAnyKeeps ==
  ASSUME IInv, NEW c \in Conn, OfferAny(c)
  PROVE  IInv' /\ Todo' = Todo \ {c} /\ c \in Todo /\ All' \in {All, All \ {c}}
<1>1. /\ sweep.over = "all" /\ sweep.left \in SUBSET Conn /\ c \in sweep.left
      /\ sweep = [over |-> "all", left |-> sweep.left] /\ sweep.left \subseteq DOMAIN at
  BY DEF IInv, OfferAny, SweepIsSafe, Sweep
<1>2. sweep' = [over |-> "all", left |-> sweep.left \ {c}]
  BY <1>1 DEF OfferAny
<1>3. sweep' \in Sweep /\ sweep'.over = "all" /\ sweep'.left = sweep.left \ {c}
  BY <1>1, <1>2 DEF Sweep
<1>4. IndexTyped' /\ MapsAgree' /\ All' \in {All, All \ {c}}
  <2>1. CASE Remove(c)
    BY <1>1, <2>1, RemoveKeeps DEF IInv, Has
  <2>2. CASE UNCHANGED <<slots, size, at>>
    BY <2>2 DEF IInv, IndexTyped, MapsAgree, All
  <2>3. QED
    BY <1>1, <2>1, <2>2 DEF OfferAny, Offered, Has
<1>5. Todo' = Todo \ {c} /\ c \in Todo
  BY <1>1, <1>3 DEF Todo
<1>6. SweepIsSafe'
  BY <1>1, <1>3, <1>4 DEF SweepIsSafe, All
<1>7. QED
  BY <1>3, <1>4, <1>5, <1>6 DEF IInv

-----------------------------------------------------------------------------
(* The invariant.                                                          *)
LEMMA InitInv == Init => IInv
  BY DEF Init, IInv, IndexTyped, MapsAgree, SweepIsSafe, NoSweep, Sweep

(* A step outside a broadcast.                                             *)
LEMMA RegisterKeeps ==
  ASSUME IInv, NEW c \in Conn, Register(c)
  PROVE  IInv' /\ Todo = {} /\ Todo' = {} /\ c \notin All /\ All' = All \cup {c}
<1>1. sweep = NoSweep /\ sweep' = NoSweep
  BY DEF Register, Idle
<1>2. IndexTyped' /\ MapsAgree' /\ All' = All \cup {c}
  BY AddKeeps DEF IInv, Register
<1>3. QED
  BY <1>1, <1>2 DEF IInv, Register, Has, All, Todo, NoSweep, SweepIsSafe

LEMMA UnregisterKeeps ==
  ASSUME IInv, NEW c \in Conn, Unregister(c)
  PROVE  IInv' /\ Todo = {} /\ Todo' = {} /\ All' = All \ {c}
<1>1. sweep = NoSweep /\ sweep' = NoSweep
  BY DEF Unregister, Idle
<1>2. IndexTyped' /\ MapsAgree' /\ All' = All \ {c}
  <2>1. CASE Has(c)
    BY <2>1, RemoveKeeps DEF IInv, Unregister
  <2>2. CASE ~Has(c)
    <3>1. slots' = slots /\ size' = size /\ at' = at
      BY <2>2 DEF Unregister, Remove
    <3>2. QED
      BY ZenonT(60), <2>2, <3>1 DEF IInv, IndexTyped, MapsAgree, All, Has
  <2>3. QED
    BY <2>1, <2>2
<1>3. QED
  BY <1>1, <1>2 DEF IInv, Todo, NoSweep, SweepIsSafe

(* A broadcast begins: over the places of the user's slice, each of which  *)
(* holds another connection of the user.                                   *)
LEMMA BroadcastUserKeeps ==
  ASSUME IInv, NEW u \in User, BroadcastUser(u)
  PROVE  IInv' /\ Todo = {} /\ Todo' = {c \in All : UserOf[c] = u} /\ All' = All
<1>1. /\ sweep = NoSweep /\ slots' = slots /\ size' = size /\ at' = at
      /\ sweep' = [over |-> "user", user |-> u, next |-> 1, last |-> size[u]]
  BY DEF BroadcastUser, Idle
<1>2. /\ size[u] \in Nat /\ size[u] <= Len(slots[u])
      /\ \A c \in DOMAIN at : at[c] \in 1..size[UserOf[c]] /\ slots[UserOf[c]][at[c]] = c
      /\ \A k \in 1..size[u] :
            slots[u][k] \in DOMAIN at /\ UserOf[slots[u][k]] = u /\ at[slots[u][k]] = k
  BY DEF IInv, IndexTyped, MapsAgree
<1>3. IndexTyped' /\ MapsAgree' /\ All' = All
  BY <1>1 DEF IInv, IndexTyped, MapsAgree, All
<1>4. sweep' \in Sweep
  BY <1>1, <1>2 DEF Sweep
<1>5. SweepIsSafe'
  BY <1>1, <1>2 DEF SweepIsSafe
<1>6. Todo' = {slots[u][k] : k \in 1..size[u]}
  BY <1>1 DEF Todo
<1>7. {slots[u][k] : k \in 1..size[u]} = {c \in All : UserOf[c] = u}
  BY <1>2 DEF All
<1>8. Todo = {}
  BY <1>1 DEF Todo, NoSweep
<1>9. QED
  BY <1>3, <1>4, <1>5, <1>6, <1>7, <1>8 DEF IInv

LEMMA BroadcastAllKeeps ==
  ASSUME IInv, BroadcastAll
  PROVE  IInv' /\ Todo = {} /\ Todo' = All /\ All' = All
<1>1. /\ sweep = NoSweep /\ sweep' = [over |-> "all", left |-> DOMAIN at]
      /\ slots' = slots /\ size' = size /\ at' = at
  BY DEF BroadcastAll, Idle, All
<1>2. IndexTyped' /\ MapsAgree' /\ All' = All
  BY <1>1 DEF IInv, IndexTyped, MapsAgree, All
<1>3. DOMAIN at \subseteq Conn
  BY DEF IInv, IndexTyped
<1>4. sweep' \in Sweep /\ SweepIsSafe'
  BY <1>1, <1>3 DEF Sweep, SweepIsSafe
<1>5. QED
  BY <1>1, <1>2, <1>4 DEF IInv, Todo, NoSweep, All

LEMMA SweepDoneKeeps ==
  ASSUME IInv, SweepDone
  PROVE  IInv' /\ Todo = {} /\ Todo' = {} /\ All' = All
<1>1. sweep' = NoSweep /\ slots' = slots /\ size' = size /\ at' = at
  BY DEF SweepDone
<1>2. IndexTyped' /\ MapsAgree' /\ All' = All
  BY <1>1 DEF IInv, IndexTyped, MapsAgree, All
<1>3. Todo = {}
  <2>1. CASE sweep.over = "user" /\ sweep.next > sweep.last
    <3>1. sweep.next \in Nat /\ sweep.last \in Nat
      BY <2>1 DEF IInv, Sweep
    <3>2. sweep.next..sweep.last = {}
      BY <2>1, <3>1
    <3>3. QED
      BY <2>1, <3>2 DEF Todo
  <2>2. CASE sweep.over = "all" /\ sweep.left = {}
    BY <2>2 DEF Todo
  <2>3. QED
    BY <2>1, <2>2 DEF SweepDone
<1>4. QED
  BY <1>1, <1>2, <1>3 DEF IInv, Todo, NoSweep, Sweep, SweepIsSafe

LEMMA StutterKeeps ==
  ASSUME IInv, UNCHANGED ivars
  PROVE  IInv' /\ All' = All /\ Todo' = Todo
BY DEF ivars, IInv, IndexTyped, MapsAgree, SweepIsSafe, All, Todo

LEMMA StepKeeps == IInv /\ [Next]_ivars => IInv'
<1> SUFFICES ASSUME IInv, [Next]_ivars PROVE IInv'
  OBVIOUS
<1>1. ASSUME NEW c \in Conn, Register(c) PROVE IInv'
  BY <1>1, RegisterKeeps
<1>2. ASSUME NEW c \in Conn, Unregister(c) PROVE IInv'
  BY <1>2, UnregisterKeeps
<1>3. ASSUME NEW c \in Conn, OfferAny(c) PROVE IInv'
  BY <1>3, OfferAnyKeeps
<1>4. ASSUME NEW u \in User, BroadcastUser(u) PROVE IInv'
  BY <1>4, BroadcastUserKeeps
<1>5. QED
  BY <1>1, <1>2, <1>3, <1>4, BroadcastAllKeeps, OfferNextKeeps, SweepDoneKeeps, StutterKeeps
     DEF Next

(* The two maps of the index agree in every state (Add and Remove of       *)
(* hubConnectionIndex), however registrations, removals and broadcasts     *)
(* that drop connections alternate.                                        *)
THEOREM IndexIsConsistent == Spec => []MapsAgree
<1>1. Spec => []IInv
  BY InitInv, StepKeeps, PTL DEF Spec
<1>2. IInv => MapsAgree
  BY DEF IInv
<1>3. QED
  BY <1>1, <1>2, PTL

(* What a running broadcast has still to read stays in its array: distinct *)
(* registered connections of the user it is for.                           *)
THEOREM BroadcastIsUndisturbed == Spec => []SweepIsSafe
<1>1. Spec => []IInv
  BY InitInv, StepKeeps, PTL DEF Spec
<1>2. IInv => SweepIsSafe
  BY DEF IInv
<1>3. QED
  BY <1>1, <1>2, PTL

(* The index implements HubConns: every connection a broadcast is for is   *)
(* offered it exactly once, and a connection leaves only when it is        *)
(* removed.                                                                *)
THEOREM IndexImplementsConns == Spec => ConnsSpec
<1>1. Init => Conns!Init
  BY DEF Init, Conns!Init, All, Todo, NoSweep
<1>2. IInv /\ [Next]_ivars => [Conns!Next]_<<All, Todo>>
  <2> SUFFICES ASSUME IInv, [Next]_ivars PROVE Conns!Next \/ (All' = All /\ Todo' = Todo)
    OBVIOUS
  <2> DEFINE Goal == Conns!Next \/ (All' = All /\ Todo' = Todo)
  <2>1. ASSUME NEW c \in Conn, Register(c) PROVE Goal
    BY <2>1, RegisterKeeps DEF Conns!Next, Conns!Register
  <2>2. ASSUME NEW c \in Conn, Unregister(c) PROVE Goal
    BY <2>2, UnregisterKeeps DEF Conns!Next, Conns!Remove
  <2>3. ASSUME NEW c \in Conn, OfferAny(c) PROVE Goal
    BY <2>3, OfferAnyKeeps DEF Conns!Next, Conns!Offer
  <2>4. ASSUME NEW u \in User, BroadcastUser(u) PROVE Goal
    <3>1. Todo = {} /\ Todo' = {c \in All : UserOf[c] = u} /\ All' = All
      BY <2>4, BroadcastUserKeeps
    <3>2. CASE \E c \in Conn : UserOf[c] = u
      <4>1. Conns!Broadcast(Conns!OfUser(u))
        BY <3>1 DEF Conns!Broadcast, Conns!OfUser
      <4>2. u \in {UserOf[c] : c \in Conn}
        BY <3>2
      <4>3. QED
        BY <4>1, <4>2 DEF Conns!Next
    <3>3. CASE ~\E c \in Conn : UserOf[c] = u
      <4>1. All \subseteq Conn
        BY DEF IInv, IndexTyped, All
      <4>2. QED
        BY <3>1, <3>3, <4>1
    <3>4. QED
      BY <3>2, <3>3
  <2>5. ASSUME BroadcastAll PROVE Goal
    BY <2>5, BroadcastAllKeeps DEF Conns!Next, Conns!Broadcast
  <2>6. ASSUME OfferNext PROVE Goal
    <3>1. slots[sweep.user][sweep.next] \in Conn
      <4>1. sweep.user \in User /\ sweep.next \in sweep.next..sweep.last
        BY <2>6 DEF IInv, Sweep, OfferNext
      <4>2. QED
        BY <2>6, <4>1 DEF IInv, SweepIsSafe, IndexTyped, OfferNext
    <3>2. Conns!Offer(slots[sweep.user][sweep.next])
      BY <2>6, OfferNextKeeps DEF Conns!Offer
    <3>3. QED
      BY <3>1, <3>2 DEF Conns!Next
  <2>7. ASSUME SweepDone PROVE Goal
    BY <2>7, SweepDoneKeeps
  <2>8. ASSUME UNCHANGED ivars PROVE Goal
    BY <2>8, StutterKeeps
  <2>9. QED
    BY <2>1, <2>2, <2>3, <2>4, <2>5, <2>6, <2>7, <2>8 DEF Next
<1>3. Spec => []IInv
  BY InitInv, StepKeeps, PTL DEF Spec
<1>4. QED
  BY <1>1, <1>2, <1>3, PTL DEF Spec, ConnsSpec, Conns!Spec, Conns!cvars
=============================================================================
