------------------------- MODULE WebSessionsProofs -------------------------
(***************************************************************************)
(* A revoked session serves nothing, and every copy of it that is left is  *)
(* one the revocation has yet to reach or was under way when it came, for  *)
(* any connections, sessions and servers, whatever is lost on the way      *)
(* between the servers and however far the replica lags.                   *)
(***************************************************************************)
EXTENDS WebSessions, TLAPS

(* What is gone from the replica stays gone: a request that came late is   *)
(* late until it is done with.                                             *)
LateIsLate == \A c \in Conn :
    late[c] /\ reader[c] # "idle" => SessionOf[c] \notin replica

(* The hub of a server checks the connections that server has.             *)
ChecksAtHome == \A n \in Node :
    ~HubIdle(n) => NodeOf[hubCheck[n].conn] = n /\ conn[hubCheck[n].conn] # "absent"

SessionsInv == TypeOK /\ LateIsLate /\ ChecksAtHome /\ RevokedServesNothing

-----------------------------------------------------------------------------
LEMMA InitSessions == Init => SessionsInv
BY WebSessionsAssumption
   DEF Init, SessionsInv, TypeOK, LateIsLate, ChecksAtHome, RevokedServesNothing, HubIdle, NoCheck

(* Types and the two facts about checks and requests, step by step: first  *)
(* what a connection and its reader do.                                    *)
LEMMA ConnSteps ==
    ASSUME SessionsInv, NEW c \in Conn,
           \/ Upgrade(c) \/ Register(c) \/ Leave(c) \/ FiveSeconds(c)
           \/ HubReads(c) \/ Ask(c) \/ ReaderStores(c) \/ Handle(c)
    PROVE  SessionsInv'
<1> USE WebSessionsAssumption
    DEF SessionsInv, TypeOK, LateIsLate, ChecksAtHome, RevokedServesNothing, HubIdle, NoCheck
<1> USE DEF dbVars, checkVars, connVars, clusterVars, revokeVars
<1>1. CASE Upgrade(c)
  BY <1>1 DEF Upgrade
<1>2. CASE Register(c)
  <2>1. CASE UNCHANGED hubCheck
    BY <1>2, <2>1 DEF Register
  <2>2. CASE ~UNCHANGED hubCheck
    <3>1. PICK found \in BOOLEAN : hubCheck' = [hubCheck EXCEPT ![NodeOf[c]] = [conn |-> c, found |-> found]]
      BY <1>2, <2>2 DEF Register, Looked, GetSession
    <3> QED BY <1>2, <3>1 DEF Register
  <2> QED BY <2>1, <2>2
<1>3. CASE Leave(c)
  BY <1>3 DEF Leave
<1>4. CASE FiveSeconds(c)
  <2>1. CASE ticker[c] /\ ~token[c]
    BY <1>4, <2>1 DEF FiveSeconds
  <2>2. CASE ~(ticker[c] /\ ~token[c])
    <3>1. ticker' = [ticker EXCEPT ![c] = FALSE] /\ UNCHANGED conn
      BY <1>4, <2>2 DEF FiveSeconds
    <3> QED BY <1>4, <3>1 DEF FiveSeconds
  <2> QED BY <2>1, <2>2
<1>5. CASE HubReads(c)
  <2>1. PICK found \in BOOLEAN : hubCheck' = [hubCheck EXCEPT ![NodeOf[c]] = [conn |-> c, found |-> found]]
    BY <1>5 DEF HubReads, Looked, GetSession
  <2> QED BY <1>5, <2>1 DEF HubReads
<1>6. CASE Ask(c)
  <2>1. PICK answer \in {"handling", "found", "lost"} : reader' = [reader EXCEPT ![c] = answer]
    BY <1>6 DEF Ask
  <2>2. conn[c] = "open" /\ late' = [late EXCEPT ![c] = SessionOf[c] \notin replica]
    BY <1>6 DEF Ask
  <2>3. late' \in [Conn -> BOOLEAN]
    BY <2>2
  <2>4. LateIsLate'
    BY <1>6, <2>1, <2>2 DEF Ask
  <2>5. UNCHANGED <<dbVars, connVars, hubCheck, wronged, revokeVars, clusterVars>>
    BY <1>6 DEF Ask
  <2> QED BY <2>1, <2>2, <2>3, <2>4, <2>5
<1>7. CASE ReaderStores(c)
  BY <1>7 DEF ReaderStores, Store
<1>8. CASE Handle(c)
  BY <1>8 DEF Handle, GetSession
<1> QED BY <1>1, <1>2, <1>3, <1>4, <1>5, <1>6, <1>7, <1>8

LEMMA SessionSteps ==
    ASSUME SessionsInv, NEW s \in Session,
           \/ Expire(s) \/ ClearLocal(s) \/ Announce(s)
           \/ \E n \in Node : Revoke(s, n) \/ Deliver(s, n) \/ Lose(s, n)
    PROVE  SessionsInv'
<1> USE WebSessionsAssumption
    DEF SessionsInv, TypeOK, LateIsLate, ChecksAtHome, RevokedServesNothing, HubIdle, NoCheck
<1> USE DEF dbVars, checkVars, connVars, clusterVars, revokeVars
<1>1. CASE Expire(s)
  BY <1>1 DEF Expire
<1>2. CASE ClearLocal(s)
  <2>1. cached' \in [Conn -> BOOLEAN]
    BY <1>2 DEF ClearLocal, InvalidateUser
  <2>2. revoking' \in [Session -> [at : {"no"}]
                                 \cup [at : {"removed", "cleared", "announced"}, node : Node]]
    BY <1>2 DEF ClearLocal
  <2>3. UNCHANGED <<dbVars, checkVars, conn, token, ticker, clusterVars>>
    BY <1>2 DEF ClearLocal, InvalidateUser
  <2>4. missed' \subseteq Conn
    BY <1>2 DEF ClearLocal, InvalidateUser, OnNode
  <2> QED BY <2>1, <2>2, <2>3, <2>4
<1>3. CASE Announce(s)
  BY <1>3 DEF Announce
<1>4. ASSUME NEW n \in Node, Revoke(s, n) PROVE SessionsInv'
  BY <1>4 DEF Revoke
<1>5. ASSUME NEW n \in Node, Deliver(s, n) PROVE SessionsInv'
  <2>1. cached' \in [Conn -> BOOLEAN]
    BY <1>5 DEF Deliver, InvalidateUser
  <2>2. mail' \subseteq mail /\ UNCHANGED <<dbVars, checkVars, conn, token, ticker, revoking, lost>>
    BY <1>5 DEF Deliver, InvalidateUser
  <2>3. missed' \subseteq Conn
    BY <1>5 DEF Deliver, InvalidateUser, OnNode
  <2> QED BY <2>1, <2>2, <2>3
<1>6. ASSUME NEW n \in Node, Lose(s, n) PROVE SessionsInv'
  BY <1>6 DEF Lose
<1> QED BY <1>1, <1>2, <1>3, <1>4, <1>5, <1>6

LEMMA NextSessions == SessionsInv /\ [Next]_vars => SessionsInv'
<1> SUFFICES ASSUME SessionsInv, [Next]_vars PROVE SessionsInv'
  OBVIOUS
<1> USE WebSessionsAssumption
    DEF SessionsInv, TypeOK, LateIsLate, ChecksAtHome, RevokedServesNothing, HubIdle, NoCheck
<1> USE DEF dbVars, checkVars, connVars, clusterVars, revokeVars
<1>1. ASSUME NEW n \in Node, HubStores(n) PROVE SessionsInv'
  BY <1>1 DEF HubStores, Store
<1>2. CASE CatchUp
  BY <1>2 DEF CatchUp
<1>3. CASE UNCHANGED vars
  BY <1>3 DEF vars
<1> QED BY ConnSteps, SessionSteps, <1>1, <1>2, <1>3 DEF Next

LEMMA SessionsInvariant == Spec => []SessionsInv
BY InitSessions, NextSessions, PTL DEF Spec

(* No request that comes when its session's row is gone is served: every   *)
(* handler looks for the row once more (wsapi/websocket_handler.go:30),    *)
(* and no row ever comes back.                                             *)
THEOREM LateRequestsAreRefused == Spec => []RevokedServesNothing
<1>1. SessionsInv => RevokedServesNothing
  BY DEF SessionsInv
<1> QED BY <1>1, SessionsInvariant, PTL

-----------------------------------------------------------------------------
(* A connection that is not there has no copy.                             *)
AbsentHasNone == \A c \in Conn : conn[c] = "absent" => ~cached[c]

(* Where a copy of c's session is, or comes from.                          *)
Source(c) == cached[c] \/ InFlight(c) \/ SessionOf[c] \in replica

(* StaleCopiesAreDue, with what a copy may still be made of.               *)
Due(c) == ResetIsDue(SessionOf[c], NodeOf[c]) \/ c \in missed
SourcesAreDue == \A c \in Conn :
    conn[c] # "closed" /\ SessionOf[c] \notin row /\ Source(c) => Due(c)

CopiesInv == SessionsInv /\ AbsentHasNone /\ SourcesAreDue

LEMMA InitCopies == Init => CopiesInv
<1> SUFFICES ASSUME Init PROVE AbsentHasNone /\ SourcesAreDue
  BY InitSessions DEF CopiesInv
<1> QED BY WebSessionsAssumption DEF Init, AbsentHasNone, SourcesAreDue

(* What a connection, its reader and its hub's checks do: only what has    *)
(* found the row makes a copy.                                             *)
LEMMA ChecksKeepCopies ==
    ASSUME CopiesInv, UNCHANGED <<dbVars, revokeVars, clusterVars>>,
           \A c \in Conn : conn'[c] = "absent" => conn[c] = "absent" /\ cached'[c] = cached[c],
           \A c \in Conn : conn[c] = "closed" => conn'[c] = "closed",
           \A c \in Conn : cached'[c] \/ InFlight(c)' => Source(c)
    PROVE  AbsentHasNone' /\ SourcesAreDue'
<1>1. \A c \in Conn : Source(c)' => Source(c)
  BY DEF Source, dbVars
<1>2. \A c \in Conn : Due(c) => Due(c)'
  BY DEF Due, ResetIsDue, revokeVars, clusterVars
<1> QED BY <1>1, <1>2 DEF CopiesInv, AbsentHasNone, SourcesAreDue, dbVars

LEMMA ConnKeepsCopies ==
    ASSUME CopiesInv, NEW c \in Conn,
           \/ Upgrade(c) \/ Register(c) \/ Leave(c) \/ FiveSeconds(c)
           \/ HubReads(c) \/ Ask(c) \/ ReaderStores(c) \/ Handle(c)
    PROVE  AbsentHasNone' /\ SourcesAreDue'
<1> USE WebSessionsAssumption
    DEF CopiesInv, SessionsInv, TypeOK, ChecksAtHome, HubIdle, NoCheck, Source, InFlight
<1> USE DEF dbVars, checkVars, connVars, clusterVars, revokeVars
<1>1. CASE Upgrade(c)
  BY <1>1, ChecksKeepCopies DEF Upgrade, GetSession
<1>2. CASE Register(c)
  <2>1. CASE UNCHANGED hubCheck
    BY <1>2, <2>1, ChecksKeepCopies DEF Register
  <2>2. CASE ~UNCHANGED hubCheck
    <3>1. PICK found \in BOOLEAN :
             /\ hubCheck' = [hubCheck EXCEPT ![NodeOf[c]] = [conn |-> c, found |-> found]]
             /\ found => SessionOf[c] \in replica
      BY <1>2, <2>2 DEF Register, Looked, GetSession
    <3> QED BY <1>2, <3>1, ChecksKeepCopies DEF Register
  <2> QED BY <2>1, <2>2
<1>3. CASE Leave(c)
  BY <1>3, ChecksKeepCopies DEF Leave
<1>4. CASE FiveSeconds(c)
  <2>1. conn' = conn \/ conn' = [conn EXCEPT ![c] = "closed"]
    BY <1>4 DEF FiveSeconds
  <2> QED BY <1>4, <2>1, ChecksKeepCopies DEF FiveSeconds
<1>5. CASE HubReads(c)
  <2>1. PICK found \in BOOLEAN :
           /\ hubCheck' = [hubCheck EXCEPT ![NodeOf[c]] = [conn |-> c, found |-> found]]
           /\ found => SessionOf[c] \in replica
    BY <1>5 DEF HubReads, Looked, GetSession
  <2> QED BY <1>5, <2>1, ChecksKeepCopies DEF HubReads
<1>6. CASE Ask(c)
  <2>1. PICK answer \in {"handling", "found", "lost"} :
           /\ reader' = [reader EXCEPT ![c] = answer]
           /\ answer = "found" => SessionOf[c] \in replica
    BY <1>6 DEF Ask, Looked, GetSession
  <2> QED BY <1>6, <2>1, ChecksKeepCopies DEF Ask
<1>7. CASE ReaderStores(c)
  BY <1>7, ChecksKeepCopies DEF ReaderStores, Store
<1>8. CASE Handle(c)
  BY <1>8, ChecksKeepCopies DEF Handle
<1> QED BY <1>1, <1>2, <1>3, <1>4, <1>5, <1>6, <1>7, <1>8

LEMMA HubKeepsCopies ==
    ASSUME CopiesInv, NEW n \in Node, HubStores(n)
    PROVE  AbsentHasNone' /\ SourcesAreDue'
<1> USE WebSessionsAssumption
    DEF CopiesInv, SessionsInv, TypeOK, ChecksAtHome, HubIdle, NoCheck, Source, InFlight
<1> QED BY ChecksKeepCopies
        DEF HubStores, Store, AbsentHasNone, dbVars, connVars, clusterVars, revokeVars

(* A reset: what it does not reach on its server was under way.            *)
LEMMA ResetsKeepCopies ==
    ASSUME CopiesInv, NEW n \in Node, InvalidateUser(n), UNCHANGED <<dbVars, checkVars>>,
           \A c \in Conn : NodeOf[c] # n /\ ResetIsDue(SessionOf[c], NodeOf[c])
                             => ResetIsDue(SessionOf[c], NodeOf[c])'
    PROVE  AbsentHasNone' /\ SourcesAreDue'
<1> USE WebSessionsAssumption
    DEF CopiesInv, SessionsInv, TypeOK, HubIdle, NoCheck, Source, InFlight, dbVars, checkVars
<1>1. AbsentHasNone'
  BY DEF InvalidateUser, AbsentHasNone
<1>2. ASSUME NEW c \in Conn, conn[c] # "closed", SessionOf[c] \notin row, Source(c)'
      PROVE  Due(c)'
  <2>1. CASE NodeOf[c] = n
    <3>1. UnderWay(c)
      BY <1>2, <2>1 DEF InvalidateUser, UnderWay, OnNode, AbsentHasNone
    <3> QED BY <2>1, <3>1 DEF InvalidateUser, OnNode, Due
  <2>2. CASE NodeOf[c] # n
    <3>1. Source(c) /\ (c \in missed => c \in missed')
      BY <1>2, <2>2 DEF InvalidateUser, OnNode
    <3> QED BY <1>2, <2>2, <3>1 DEF SourcesAreDue, Due
  <2> QED BY <2>1, <2>2
<1> QED BY <1>1, <1>2 DEF SourcesAreDue, InvalidateUser

LEMMA SessionKeepsCopies ==
    ASSUME CopiesInv, NEW s \in Session,
           \/ Expire(s) \/ ClearLocal(s) \/ Announce(s)
           \/ \E n \in Node : Revoke(s, n) \/ Deliver(s, n) \/ Lose(s, n)
    PROVE  AbsentHasNone' /\ SourcesAreDue'
<1> USE WebSessionsAssumption DEF CopiesInv, SessionsInv, TypeOK
<1>1. CASE Expire(s)
  BY <1>1, ChecksKeepCopies
     DEF Expire, Source, InFlight, dbVars, checkVars, connVars, clusterVars, revokeVars,
         AbsentHasNone, SourcesAreDue, Due, ResetIsDue
<1>2. CASE ClearLocal(s)
  <2>1. revoking[s].node \in Node /\ InvalidateUser(revoking[s].node)
    BY <1>2 DEF ClearLocal
  <2>2. revoking'[s].at = "cleared" /\ revoking'[s].node = revoking[s].node
    BY <1>2 DEF ClearLocal
  <2>3. \A c \in Conn : NodeOf[c] # revoking[s].node /\ ResetIsDue(SessionOf[c], NodeOf[c])
                          => ResetIsDue(SessionOf[c], NodeOf[c])'
    BY <1>2, <2>2 DEF ClearLocal, ResetIsDue, clusterVars
  <2> QED BY <1>2, <2>1, <2>3, ResetsKeepCopies DEF ClearLocal
<1>3. CASE Announce(s)
  <2>1. \A c \in Conn : Due(c) => Due(c)'
    BY <1>3 DEF Announce, Due, ResetIsDue
  <2> QED BY <1>3, <2>1
          DEF Announce, AbsentHasNone, SourcesAreDue, Source, InFlight, dbVars, checkVars, connVars
<1>4. ASSUME NEW n \in Node, Revoke(s, n) PROVE AbsentHasNone' /\ SourcesAreDue'
  <2>1. \A c \in Conn : Due(c) \/ SessionOf[c] = s => Due(c)'
    BY <1>4 DEF Revoke, Due, ResetIsDue, clusterVars
  <2>2. \A c \in Conn : SessionOf[c] \notin row' => SessionOf[c] = s \/ SessionOf[c] \notin row
    BY <1>4 DEF Revoke
  <2>3. \A c \in Conn : SessionOf[c] \in replica' => SessionOf[c] \in replica
    BY <1>4 DEF Revoke
  <2> QED BY <1>4, <2>1, <2>2, <2>3
          DEF Revoke, AbsentHasNone, SourcesAreDue, Source, InFlight, checkVars, connVars
<1>5. ASSUME NEW n \in Node, Deliver(s, n) PROVE AbsentHasNone' /\ SourcesAreDue'
  <2>1. \A c \in Conn : NodeOf[c] # n /\ ResetIsDue(SessionOf[c], NodeOf[c])
                          => ResetIsDue(SessionOf[c], NodeOf[c])'
    BY <1>5 DEF Deliver, ResetIsDue
  <2> QED BY <1>5, <2>1, ResetsKeepCopies DEF Deliver
<1>6. ASSUME NEW n \in Node, Lose(s, n) PROVE AbsentHasNone' /\ SourcesAreDue'
  <2>1. \A c \in Conn : Due(c) => Due(c)'
    BY <1>6 DEF Lose, Due, ResetIsDue, revokeVars
  <2> QED BY <1>6, <2>1
          DEF Lose, AbsentHasNone, SourcesAreDue, Source, InFlight, dbVars, checkVars, connVars
<1> QED BY <1>1, <1>2, <1>3, <1>4, <1>5, <1>6

LEMMA NextCopies == CopiesInv /\ [Next]_vars => CopiesInv'
<1> SUFFICES ASSUME CopiesInv, [Next]_vars PROVE AbsentHasNone' /\ SourcesAreDue'
  BY NextSessions DEF CopiesInv
<1>1. CASE CatchUp
  BY <1>1 DEF CatchUp, CopiesInv, SessionsInv, TypeOK, AbsentHasNone, SourcesAreDue, Source, InFlight,
              Due, ResetIsDue, checkVars, connVars, clusterVars, revokeVars
<1>2. CASE UNCHANGED vars
  BY <1>2 DEF vars, CopiesInv, AbsentHasNone, SourcesAreDue, Source, InFlight,
              Due, ResetIsDue, dbVars, checkVars, connVars, clusterVars, revokeVars
<1> QED BY ConnKeepsCopies, HubKeepsCopies, SessionKeepsCopies, <1>1, <1>2 DEF Next

LEMMA CopiesInvariant == Spec => []CopiesInv
BY InitCopies, NextCopies, PTL DEF Spec

(* Every copy of a revoked session that a registered connection still has  *)
(* is on a server the revocation has yet to reach, or was under way when   *)
(* it came (InvalidateUser, app/web_hub.go:98, and IsAuthenticated,        *)
(* app/web_conn.go:93), for any numbers of connections and sessions.       *)
THEOREM LeftCopiesAreDue == Spec => []StaleCopiesAreDue
<1>1. CopiesInv => StaleCopiesAreDue
  BY DEF CopiesInv, SourcesAreDue, Source, Due, StaleCopiesAreDue, StaleCopyIsDue
<1> QED BY <1>1, CopiesInvariant, PTL
=============================================================================
