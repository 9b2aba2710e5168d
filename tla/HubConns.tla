------------------------------ MODULE HubConns ------------------------------
(***************************************************************************)
(* What a WebSocket hub (app/web_hub.go) promises about its connections,   *)
(* apart from how it stores them: a set of registered connections, and,    *)
(* while a message is being broadcast, the connections still to be offered *)
(* it.  Every connection the message is for is offered it exactly once,    *)
(* and one that has no room for it is removed on the spot.  HubIndex,      *)
(* which is how the code stores them, implements this specification.       *)
(***************************************************************************)
CONSTANTS Conn,         \* the connections
          UserOf        \* the user of each connection

VARIABLES registered,   \* the connections the hub knows
          todo          \* those still to be offered the present message

cvars == <<registered, todo>>

Init == registered = {} /\ todo = {}

\* The hub's loop takes nothing else while it broadcasts.
Register(c) == /\ todo = {} /\ c \notin registered
               /\ registered' = registered \cup {c}
               /\ UNCHANGED todo

\* A connection's pump ended, or a direct message found its channel full.
Remove(c) == /\ todo = {}
             /\ registered' = registered \ {c}
             /\ UNCHANGED todo

\* A message for the connections in "to", all of them registered.
Broadcast(to) == /\ todo = {} /\ to \subseteq registered
                 /\ todo' = to
                 /\ UNCHANGED registered

\* A connection takes the message, or is dropped because it has no room.
Offer(c) == /\ c \in todo
            /\ todo' = todo \ {c}
            /\ registered' \in {registered, registered \ {c}}

OfUser(u) == {c \in registered : UserOf[c] = u}

Next == \/ \E c \in Conn : Register(c) \/ Remove(c) \/ Offer(c)
        \/ \E u \in {UserOf[c] : c \in Conn} : Broadcast(OfUser(u))
        \/ Broadcast(registered)

Spec == Init /\ [][Next]_cvars
=============================================================================
