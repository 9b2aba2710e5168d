------------------------------ MODULE HubIndex ------------------------------
(***************************************************************************)
(* hubConnectionIndex of app/web_hub.go: how a hub stores its connections, *)
(* and how a broadcast walks over them while it removes some.              *)
(*                                                                         *)
(* byUserId maps a user to a slice of connections.  Remove moves the last  *)
(* element of the slice into the gap and shortens the slice, in place: the *)
(* loop of a broadcast, which holds the slice as it was when it began,     *)
(* reads its elements one by one from the SAME array.  So the model keeps  *)
(* the array (slots) apart from the length of the slice over it (size).    *)
(* Positions start at 1 here and at 0 in the code.                         *)
(*                                                                         *)
(* A connection registers once in the program; a name that registers anew  *)
(* here is a new connection.                                               *)
(***************************************************************************)
EXTENDS Integers, Sequences

CONSTANTS Conn, User, UserOf

ASSUME UserOfAssumption == UserOf \in [Conn -> User]

VARIABLES slots,   \* the array under byUserId[u], with what lies beyond the slice
          size,    \* the length of the slice byUserId[u]
          at,      \* byConnection: where in its user's slice a connection is
          sweep    \* the broadcast loop: over a user's slice, over the map, or none

ivars == <<slots, size, at, sweep>>

Sweep == [over : {"none"}]
    \cup [over : {"user"}, user : User, next : Nat, last : Nat]
    \cup [over : {"all"}, left : SUBSET Conn]

NoSweep == [over |-> "none"]

TypeOK == /\ slots \in [User -> Seq(Conn)]
          /\ size \in [User -> Nat]
          /\ DOMAIN at \subseteq Conn /\ \A c \in DOMAIN at : at[c] \in Nat
          /\ sweep \in Sweep

Init == /\ slots = [u \in User |-> << >>]
        /\ size = [u \in User |-> 0]
        /\ at = [c \in {} |-> 0]
        /\ sweep = NoSweep

Idle == sweep = NoSweep

Has(c) == c \in DOMAIN at
ForUser(u) == {slots[u][k] : k \in 1..size[u]}
All == DOMAIN at

-----------------------------------------------------------------------------
(* Add and Remove.                                                         *)

Add(c) == LET u == UserOf[c]
          IN  /\ slots' = [slots EXCEPT ![u] = Append(SubSeq(@, 1, size[u]), c)]
              /\ size' = [size EXCEPT ![u] = @ + 1]
              /\ at' = [d \in DOMAIN at \cup {c} |-> IF d = c THEN size[u] + 1 ELSE at[d]]

\* Mutant: byConnection keeps the old place of the connection that was moved.
RemoveForgetsMoved(c) ==
    IF ~Has(c) THEN UNCHANGED <<slots, size, at>>
    ELSE LET u == UserOf[c]
         IN  /\ slots' = [slots EXCEPT ![u] = [@ EXCEPT ![at[c]] = slots[u][size[u]]]]
             /\ size' = [size EXCEPT ![u] = @ - 1]
             /\ at' = [d \in DOMAIN at \ {c} |-> at[d]]

\* Mutant: the gap is closed by moving the rest of the slice down, in place, as
\* append(s[:i], s[i+1:]...) does: a broadcast then misses the next connection.
RemoveShifts(c) ==
    IF ~Has(c) THEN UNCHANGED <<slots, size, at>>
    ELSE LET u == UserOf[c]
             gone == at[c]
         IN  /\ slots' = [slots EXCEPT ![u] =
                    [k \in DOMAIN @ |-> IF k \in gone..(size[u] - 1) THEN @[k + 1] ELSE @[k]]]
             /\ size' = [size EXCEPT ![u] = @ - 1]
             /\ at' = [d \in DOMAIN at \ {c} |->
                         IF UserOf[d] = u /\ at[d] > gone THEN at[d] - 1 ELSE at[d]]

Remove(c) ==
    IF ~Has(c) THEN UNCHANGED <<slots, size, at>>
    ELSE LET u == UserOf[c]
             moved == slots[u][size[u]]
         IN  /\ slots' = [slots EXCEPT ![u] = [@ EXCEPT ![at[c]] = moved]]
             /\ size' = [size EXCEPT ![u] = @ - 1]
             /\ at' = [d \in DOMAIN at \ {c} |-> IF d = moved THEN at[c] ELSE at[d]]

-----------------------------------------------------------------------------
(* The hub's use of the index.                                             *)

Register(c) == Idle /\ ~Has(c) /\ Add(c) /\ UNCHANGED sweep

\* An unregistration, of a connection that may have been dropped before, or a
\* direct message to a connection that has no room for it.
Unregister(c) == Idle /\ Remove(c) /\ UNCHANGED sweep

\* A broadcast to one user: the loop ranges over the slice as it is now.
BroadcastUser(u) ==
    /\ Idle
    /\ sweep' = [over |-> "user", user |-> u, next |-> 1, last |-> size[u]]
    /\ UNCHANGED <<slots, size, at>>

\* A broadcast to everyone ranges over the map.
BroadcastAll == /\ Idle
                /\ sweep' = [over |-> "all", left |-> All]
                /\ UNCHANGED <<slots, size, at>>

\* The message is offered to c: a connection without room for it is removed.
Offered(c) == IF Has(c) THEN Remove(c) \/ UNCHANGED <<slots, size, at>>
                        ELSE UNCHANGED <<slots, size, at>>

OfferNext == /\ sweep.over = "user" /\ sweep.next <= sweep.last
             /\ Offered(slots[sweep.user][sweep.next])
             /\ sweep' = [sweep EXCEPT !.next = @ + 1]

\* Go's range over a map yields each entry once, in any order; the loop
\* removes no entry but the present one.
OfferAny(c) == /\ sweep.over = "all" /\ c \in sweep.left
               /\ Offered(c)
               /\ sweep' = [sweep EXCEPT !.left = @ \ {c}]

SweepDone == /\ \/ sweep.over = "user" /\ sweep.next > sweep.last
                \/ sweep.over = "all" /\ sweep.left = {}
             /\ sweep' = NoSweep
             /\ UNCHANGED <<slots, size, at>>

Next == \/ \E c \in Conn : Register(c) \/ Unregister(c) \/ OfferAny(c)
        \/ \E u \in User : BroadcastUser(u)
        \/ BroadcastAll \/ OfferNext \/ SweepDone

Spec == Init /\ [][Next]_ivars

-----------------------------------------------------------------------------
(* Properties.                                                             *)

\* The two maps of the index agree: a connection is where byConnection says it
\* is, and every place of a user's slice holds a connection of that user which
\* byConnection knows to be there.
MapsAgree ==
    /\ \A u \in User : size[u] <= Len(slots[u])
    /\ \A c \in DOMAIN at : /\ at[c] \in 1..size[UserOf[c]]
                            /\ slots[UserOf[c]][at[c]] = c
    /\ \A u \in User : \A k \in 1..size[u] :
          /\ slots[u][k] \in DOMAIN at
          /\ UserOf[slots[u][k]] = u
          /\ at[slots[u][k]] = k

\* The connections the present broadcast has yet to reach.
Todo == CASE sweep.over = "none" -> {}
          [] sweep.over = "user" -> {slots[sweep.user][k] : k \in sweep.next..sweep.last}
          [] sweep.over = "all" -> sweep.left

\* The array under a broadcast keeps what the loop has still to read: distinct
\* registered connections of the user, each in its place or moved to a place
\* the loop has passed.
SweepIsSafe ==
    /\ sweep.over = "user" =>
          /\ sweep.next >= 1 /\ sweep.last <= Len(slots[sweep.user])
          /\ \A k \in sweep.next..sweep.last :
                LET c == slots[sweep.user][k]
                IN  /\ c \in DOMAIN at /\ UserOf[c] = sweep.user
                    /\ at[c] = k \/ at[c] < sweep.next
          /\ \A j, k \in sweep.next..sweep.last :
                slots[sweep.user][j] = slots[sweep.user][k] => j = k
    /\ sweep.over = "all" => sweep.left \subseteq DOMAIN at

\* The index implements a hub that offers a broadcast to every connection it is
\* for exactly once, however many of them it drops on the way.
Conns == INSTANCE HubConns WITH registered <- All, todo <- Todo
ConnsSpec == Conns!Spec

=============================================================================
