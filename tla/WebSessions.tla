---------------------------- MODULE WebSessions ----------------------------
(***************************************************************************)
(* How a WebSocket connection knows that its user's session is good        *)
(* (WebConn.IsAuthenticated, app/web_conn.go), while sessions expire or    *)
(* are revoked (app/session.go), on this server or on another one of the   *)
(* cluster (app/cluster_handlers.go, clusters/cluster.go).                 *)
(*                                                                         *)
(* A connection keeps a copy of its session with the time it expires.      *)
(* Until then the copy is good; once it is not, the session is read from   *)
(* the database again.  A revocation deletes the row, then sends the       *)
(* user to the hub of this server, which resets the copies of the user's   *)
(* connections in its index, then tells the other servers, which do the    *)
(* same.  Two goroutines check a connection: the hub, before it sends an   *)
(* event, and the connection's own reader, when a request arrives; reading *)
(* the row and storing what was read are two steps of theirs.              *)
(*                                                                         *)
(* All connections here are of one user: a revocation of any session       *)
(* resets them all.                                                        *)
(***************************************************************************)
EXTENDS FiniteSets

CONSTANTS Conn, Session, Node,
          SessionOf,     \* the session a connection was opened with
          NodeOf,        \* the server it is connected to
          HasReplica,    \* sessions are read from a replica that may lag
          Lossy          \* a cluster message may be lost

ASSUME WebSessionsAssumption ==
    /\ SessionOf \in [Conn -> Session] /\ NodeOf \in [Conn -> Node]
    /\ HasReplica \in BOOLEAN /\ Lossy \in BOOLEAN

VARIABLES
    row,        \* the sessions that have a row in the database
    replica,    \* the rows the replica has
    expired,    \* the sessions whose time is over
    revoking,   \* how far the revocation of each session is
    missed,     \* history: connections whose copy was under way when their hub reset the others
    mail,       \* the cluster messages under way: whose revocation, to which server
    conn,       \* absent, opening (session checked, not registered), open, closed
    cached,     \* the copy of the session is there (sessionExpiresAt is not reset)
    token,      \* the connection has a session token
    ticker,     \* writePump's authTicker runs
    hubCheck,   \* the check the hub of each server is in the middle of
    reader,     \* where the reader of each connection is in its present request
    late,       \* history: that request came when the session's row was gone everywhere
    wronged,    \* history: connections served a request that came late
    lost        \* history: the cluster messages that were lost

dbVars == <<row, replica, expired>>
checkVars == <<hubCheck, reader, late, wronged>>
connVars == <<conn, cached, token, ticker>>
clusterVars == <<mail, lost>>
revokeVars == <<revoking, missed>>
vars == <<dbVars, checkVars, connVars, revokeVars, clusterVars>>

NoCheck == [conn |-> "none"]

TypeOK ==
    /\ row \subseteq Session /\ replica \subseteq Session /\ expired \subseteq Session
    /\ row \subseteq replica /\ (~HasReplica => replica = row)
    /\ revoking \in [Session -> [at : {"no"}]
                                  \cup [at : {"removed", "cleared", "announced"}, node : Node]]
    /\ mail \subseteq Session \X Node /\ lost \subseteq Session \X Node
    /\ conn \in [Conn -> {"absent", "opening", "open", "closed"}]
    /\ {cached, token, ticker, late} \subseteq [Conn -> BOOLEAN]
    /\ hubCheck \in [Node -> {NoCheck} \cup [conn : Conn, found : BOOLEAN]]
    /\ reader \in [Conn -> {"idle", "found", "lost", "handling"}]
    /\ \A c \in Conn : reader[c] # "idle" => conn[c] \in {"open", "closed"}
    /\ wronged \subseteq Conn /\ missed \subseteq Conn

Init ==
    /\ row = Session /\ replica = Session /\ expired = {}
    /\ revoking = [s \in Session |-> [at |-> "no"]] /\ mail = {}
    /\ conn = [c \in Conn |-> "absent"]
    /\ cached = [c \in Conn |-> FALSE] /\ token = [c \in Conn |-> FALSE]
    /\ ticker = [c \in Conn |-> FALSE]
    /\ hubCheck = [n \in Node |-> NoCheck] /\ reader = [c \in Conn |-> "idle"]
    /\ late = [c \in Conn |-> FALSE] /\ wronged = {} /\ missed = {} /\ lost = {}

\* App.GetSession: the row is there (in the replica) and its time is not over.
GetSession(s) == s \in replica /\ s \notin expired

\* What a look-up may come to: the session as it is, or a failure of the database.
Looked(s) == {GetSession(s), FALSE}

\* GetSessionExpiresAt() >= now
Fresh(c) == cached[c] /\ SessionOf[c] \notin expired

OnNode(n) == {c \in Conn : NodeOf[c] = n}
HubIdle(n) == hubCheck[n] = NoCheck

-----------------------------------------------------------------------------
(* A connection's life.                                                    *)

\* connectWebSocket: the request's session was read and found good, the socket
\* is upgraded and NewWebConn has copied the session.
Upgrade(c) == /\ conn[c] = "absent" /\ GetSession(SessionOf[c])
              /\ conn' = [conn EXCEPT ![c] = "opening"]
              /\ cached' = [cached EXCEPT ![c] = TRUE]
              /\ token' = [token EXCEPT ![c] = TRUE]
              /\ UNCHANGED <<dbVars, checkVars, ticker, revokeVars, clusterVars>>

\* The client leaves, or the read deadline of the socket passes.
Leave(c) == /\ conn[c] = "open" /\ reader[c] = "idle"
            /\ conn' = [conn EXCEPT ![c] = "closed"]
            /\ UNCHANGED <<dbVars, checkVars, cached, token, ticker, revokeVars, clusterVars>>

\* Five seconds pass: authTicker fires, if it still runs.  Its first check that
\* finds a token stops it.
FiveSeconds(c) ==
    /\ conn[c] = "open"
    /\ IF ticker[c] /\ ~token[c]
       THEN conn' = [conn EXCEPT ![c] = "closed"] /\ UNCHANGED ticker
       ELSE /\ ticker' = [ticker EXCEPT ![c] = FALSE]
            /\ UNCHANGED conn
    /\ UNCHANGED <<dbVars, checkVars, cached, token, revokeVars, clusterVars>>

-----------------------------------------------------------------------------
(* IsAuthenticated, by the hub and by the reader.                          *)

\* What IsAuthenticated stores when it has looked for the row.
Store(c, found) == /\ cached' = [cached EXCEPT ![c] = found]
                   /\ token' = [token EXCEPT ![c] = @ /\ found]

\* The hub checks c before it sends it an event, and has to read the row.
HubReads(c) == /\ conn[c] = "open" /\ HubIdle(NodeOf[c]) /\ ~Fresh(c) /\ token[c]
               /\ \E found \in Looked(SessionOf[c]) :
                     hubCheck' = [hubCheck EXCEPT ![NodeOf[c]] = [conn |-> c, found |-> found]]
               /\ UNCHANGED <<dbVars, connVars, reader, late, wronged, revokeVars, clusterVars>>

HubStores(n) == /\ ~HubIdle(n)
                /\ Store(hubCheck[n].conn, hubCheck[n].found)
                /\ hubCheck' = [hubCheck EXCEPT ![n] = NoCheck]
                /\ UNCHANGED <<dbVars, conn, ticker, reader, late, wronged, revokeVars, clusterVars>>

\* HubRegister: the hub takes the connection into its index and checks it at once.
\* Then Pump starts writePump and its ticker.
Register(c) ==
    /\ conn[c] = "opening" /\ HubIdle(NodeOf[c])
    /\ conn' = [conn EXCEPT ![c] = "open"]
    /\ ticker' = [ticker EXCEPT ![c] = TRUE]
    /\ \/ Fresh(c) /\ UNCHANGED hubCheck
       \/ /\ ~Fresh(c)
          /\ \E found \in Looked(SessionOf[c]) :
                hubCheck' = [hubCheck EXCEPT ![NodeOf[c]] = [conn |-> c, found |-> found]]
    /\ UNCHANGED <<dbVars, cached, token, reader, late, wronged, revokeVars, clusterVars>>

\* ServeWebSocket: a request arrives.  A connection without a token is refused.
Ask(c) == /\ conn[c] = "open" /\ reader[c] = "idle"
          /\ Fresh(c) \/ token[c]
          /\ \/ Fresh(c) /\ reader' = [reader EXCEPT ![c] = "handling"]
             \/ /\ ~Fresh(c)
                /\ \E found \in Looked(SessionOf[c]) :
                      reader' = [reader EXCEPT ![c] = IF found THEN "found" ELSE "lost"]
          /\ late' = [late EXCEPT ![c] = SessionOf[c] \notin replica]
          /\ UNCHANGED <<dbVars, connVars, hubCheck, wronged, revokeVars, clusterVars>>

ReaderStores(c) ==
    /\ reader[c] \in {"found", "lost"}
    /\ Store(c, reader[c] = "found")
    /\ reader' = [reader EXCEPT ![c] = IF @ = "found" THEN "handling" ELSE "idle"]
    /\ UNCHANGED <<dbVars, conn, ticker, hubCheck, late, wronged, revokeVars, clusterVars>>

\* Mutant: the handler trusts the check of ServeWebSocket.
HandleTrusting(c) ==
    /\ reader[c] = "handling"
    /\ reader' = [reader EXCEPT ![c] = "idle"]
    /\ wronged' = IF late[c] THEN wronged \cup {c} ELSE wronged
    /\ UNCHANGED <<dbVars, connVars, hubCheck, late, revokeVars, clusterVars>>

\* wsapi's handler looks for the session once more, whatever the copy says, and
\* serves the request if it finds it.
Handle(c) ==
    /\ reader[c] = "handling"
    /\ reader' = [reader EXCEPT ![c] = "idle"]
    /\ wronged' = IF token[c] /\ GetSession(SessionOf[c]) /\ late[c] THEN wronged \cup {c} ELSE wronged
    /\ UNCHANGED <<dbVars, connVars, hubCheck, late, revokeVars, clusterVars>>

-----------------------------------------------------------------------------
(* The end of a session.                                                   *)

Expire(s) == /\ s \notin expired
             /\ expired' = expired \cup {s}
             /\ UNCHANGED <<row, replica, checkVars, connVars, revokeVars, clusterVars>>

CatchUp == /\ replica # row /\ replica' = row
           /\ UNCHANGED <<row, expired, checkVars, connVars, revokeVars, clusterVars>>

\* RevokeSession on server n: the row goes first.
Revoke(s, n) == /\ revoking[s].at = "no" /\ GetSession(s)
                /\ row' = row \ {s}
                /\ replica' = IF HasReplica THEN replica ELSE row'
                /\ revoking' = [revoking EXCEPT ![s] = [at |-> "removed", node |-> n]]
                /\ UNCHANGED <<expired, checkVars, connVars, missed, clusterVars>>

\* A copy of c's session is under way to where the hub does not reset it: c is not
\* registered yet, its reader has found the row and not stored it, or the row is gone
\* and the replica still shows it.
UnderWay(c) == \/ conn[c] = "opening" \/ reader[c] = "found"
               \/ SessionOf[c] \in replica \ row

\* Hub.InvalidateUser: the hub resets the copies of the connections it has.
InvalidateUser(n) ==
    /\ HubIdle(n)
    /\ missed' = (missed \ OnNode(n)) \cup {c \in OnNode(n) : UnderWay(c)}
    /\ cached' = [c \in Conn |-> IF c \in OnNode(n) /\ conn[c] = "open" THEN FALSE ELSE cached[c]]
    /\ UNCHANGED <<conn, token, ticker>>

\* Mutant: the cluster is told, but not this server's own hub.
ClearNothing(s) == /\ revoking[s].at = "removed"
                   /\ revoking' = [revoking EXCEPT ![s].at = "cleared"]
                   /\ UNCHANGED <<dbVars, checkVars, connVars, missed, clusterVars>>

\* ClearLocalSessionCacheForUser
ClearLocal(s) == /\ revoking[s].at = "removed"
                 /\ InvalidateUser(revoking[s].node)
                 /\ revoking' = [revoking EXCEPT ![s].at = "cleared"]
                 /\ UNCHANGED <<dbVars, checkVars, clusterVars>>

\* Mutant: the servers take the messages they should pass over (OmitCluster).
AnnounceToOneself(s) ==
    /\ revoking[s].at = "cleared"
    /\ revoking' = [revoking EXCEPT ![s].at = "announced"]
    /\ mail' = mail \cup {<<s, revoking[s].node>>}
    /\ UNCHANGED <<dbVars, checkVars, connVars, missed, lost>>

\* SendClusterMessage, in a goroutine of its own.
Announce(s) == /\ revoking[s].at = "cleared"
               /\ revoking' = [revoking EXCEPT ![s].at = "announced"]
               /\ mail' = mail \cup {<<s, n>> : n \in Node \ {revoking[s].node}}
               /\ UNCHANGED <<dbVars, checkVars, connVars, missed, lost>>

\* Another server gets the message (clusterClearSessionCacheForUserHandler).
Deliver(s, n) == /\ <<s, n>> \in mail
                 /\ mail' = mail \ {<<s, n>>}
                 /\ InvalidateUser(n)
                 /\ UNCHANGED <<dbVars, checkVars, revoking, lost>>

\* Redis pub/sub keeps nothing for a server that is not connected just then.
Lose(s, n) == /\ Lossy /\ <<s, n>> \in mail
              /\ mail' = mail \ {<<s, n>>} /\ lost' = lost \cup {<<s, n>>}
              /\ UNCHANGED <<dbVars, checkVars, connVars, revokeVars>>

Next == \/ \E c \in Conn : \/ Upgrade(c) \/ Register(c) \/ Leave(c) \/ FiveSeconds(c)
                           \/ HubReads(c) \/ Ask(c) \/ ReaderStores(c) \/ Handle(c)
        \/ \E s \in Session : Expire(s) \/ ClearLocal(s) \/ Announce(s)
        \/ \E s \in Session, n \in Node : Revoke(s, n) \/ Deliver(s, n) \/ Lose(s, n)
        \/ \E n \in Node : HubStores(n)
        \/ CatchUp

Spec == Init /\ [][Next]_vars

\* A revocation that has begun goes on; the hub takes what waits for it again
\* and again, since its select is fair; a check that has begun ends.
Fairness == /\ \A s \in Session : SF_vars(ClearLocal(s)) /\ WF_vars(Announce(s))
            /\ \A s \in Session, n \in Node : SF_vars(Deliver(s, n))
            /\ \A n \in Node : WF_vars(HubStores(n))

FairSpec == Spec /\ Fairness

-----------------------------------------------------------------------------
(* Properties.                                                             *)

\* No request that came after its session was gone is served, whatever the
\* connection's copy says: "the session is checked whenever a request comes"
\* (wsapi/websocket_handler.go:30).
RevokedServesNothing == wronged = {}

\* A check that may still store a session it has found.
InFlight(c) == \/ reader[c] = "found"
               \/ hubCheck[NodeOf[c]] # NoCheck /\ hubCheck[NodeOf[c]].conn = c
                                                /\ hubCheck[NodeOf[c]].found

\* The reset of the copies of s on server n is still to come, or its message was lost.
ResetIsDue(s, n) == \/ revoking[s].at = "removed"
                    \/ revoking[s].at = "cleared" /\ revoking[s].node # n
                    \/ <<s, n>> \in mail \cup lost

\* A copy of a session whose row is gone is one that a reset is due for.
StaleCopyIsDue(c) == (conn[c] = "open" /\ cached[c] /\ SessionOf[c] \notin row)
                        => ResetIsDue(SessionOf[c], NodeOf[c])

\* A good copy of a session that was revoked is on a server the revocation has yet to
\* reach, or was under way when it came: all others are reset, by whichever server the
\* user leaves, and nothing brings one back, neither the hub's checks nor the reader's
\* nor what becomes of the user's other sessions (app/session.go:88, 109,
\* app/web_hub.go:197).
StaleCopiesAreDue == \A c \in Conn : StaleCopyIsDue(c) \/ c \in missed

\* Every connection that is registered when its session's row goes has its copy
\* reset in the end, on whatever server it is, unless the message is lost.
RevocationReachesConns == \A c \in Conn :
    (conn[c] = "open" /\ revoking[SessionOf[c]].at = "removed")
        ~> (~cached[c] \/ conn[c] = "closed" \/ <<SessionOf[c], NodeOf[c]>> \in lost)
=============================================================================
