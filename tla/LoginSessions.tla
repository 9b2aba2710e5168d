--------------------------- MODULE LoginSessions ---------------------------
(***************************************************************************)
(* Sessions: made by a login or for a client application, revoked one by   *)
(* one (app/session.go, store/sqlstore/session_store.go and                *)
(* RevokeAccessToken of app/oauth.go).  The copies of a session in         *)
(* web-socket connections are the subject of WebSessions.                  *)
(***************************************************************************)
EXTENDS AccountStore

NewSession(u, c) ==
  sessions' = Append(sessions, [user |-> u, app |-> c, live |-> TRUE, expired |-> FALSE])
NewSessionId == Len(sessions) + 1

Remove(s) == sessions' = [sessions EXCEPT ![s].live = FALSE]

(* RemoveAccessData: by the token, whosever it is.                         *)
RemoveAccessData(s) ==
  accessData' = [c \in App |-> [u \in User |->
                   IF <<c, u>> \in GetAccessData(s) THEN NoData ELSE accessData[c][u]]]

(* What a revocation of these sessions, followed by phase, looks like.     *)
Revoking(r, todo, phase) == [r EXCEPT !.at = "revoke", !.todo = todo, !.then = phase]

(* logout: the session the browser came with.                              *)
RevokeSessionById(pr, s) ==
  /\ Accept(pr, "logout") /\ sessions[s].live /\ ~sessions[s].expired
  /\ Become(pr, Revoking([Idle EXCEPT !.user = sessions[s].user], {s}, "idle"))
  /\ UNCHANGED <<accountTables, sessionTables, oauthTables, histories>>

(* RevokeAllSessions reads which sessions there are.                       *)
GetSessions(pr) ==
  LET r == request[pr] IN
  /\ At(pr, "list")
  /\ Become(pr, [Revoking(r, LiveSessions(r.user), "idle") EXCEPT !.all = TRUE])
  /\ UNCHANGED <<accountTables, sessionTables, oauthTables, histories>>

(* The latest first.                                                       *)
NextToRevoke(r) == CHOOSE s \in r.todo : \A t \in r.todo : t =< s
Revoked(r) == [r EXCEPT !.at = "revoke", !.todo = @ \ {NextToRevoke(r)}]

(* Mutant: a session of a client application whose access data is gone     *)
(* ends the revocation. *)
SkippedAtFirstError(r) == Idle

(* RevokeAllSessions ignores the errors of RevokeAccessToken and goes on   *)
(* with the next session; the others return them.                          *)
Skipped(r) == IF r.all THEN Revoked(r) ELSE Idle

RevokeSession(pr) ==
  LET r == request[pr]
      s == NextToRevoke(r)
  IN /\ At(pr, "revoke")
     /\ \/ /\ r.todo = {} /\ Goto(pr, r.then)
           /\ UNCHANGED <<sessionTables, lost>>
        \/ /\ r.todo # {} /\ sessions[s].app = None
           /\ Remove(s) /\ Become(pr, Revoked(r))
           /\ UNCHANGED <<removing, accessData, lost>>
        \/ /\ r.todo # {} /\ sessions[s].app # None
           /\ removing' = removing \cup {s}
           /\ \/ /\ IF GetAccessData(s) = {} THEN Become(pr, Skipped(r))
                                            ELSE Goto(pr, "revoke_data")
                 /\ UNCHANGED lost
              \/ /\ Faulty /\ Become(pr, Skipped(r))
                 /\ lost' = lost \cup {<<"revocation", r.user>>}
           /\ UNCHANGED <<sessions, accessData>>
     /\ UNCHANGED <<accountTables, oauthTables, proven, guesses, used>>

RevokeAccessToken(pr) ==
  LET r == request[pr] IN
  /\ At(pr, "revoke_data")
  /\ \/ /\ RemoveAccessData(NextToRevoke(r)) /\ Goto(pr, "revoke_wait")
        /\ UNCHANGED lost
     \/ /\ Faulty /\ Become(pr, Skipped(r))
        /\ lost' = lost \cup {<<"revocation", r.user>>}
        /\ UNCHANGED accessData
  /\ UNCHANGED <<accountTables, sessions, removing, oauthTables, proven, guesses, used>>

(* The answer of the goroutine.                                            *)
AwaitRemoval(pr) ==
  LET r == request[pr] IN
  /\ At(pr, "revoke_wait") /\ NextToRevoke(r) \notin removing
  /\ Become(pr, Revoked(r))
  /\ UNCHANGED <<accountTables, sessionTables, oauthTables, histories>>

(* The goroutine of RevokeAccessToken; its statement may fail too.         *)
RemoveInBackground(s) ==
  /\ s \in removing /\ removing' = removing \ {s}
  /\ \/ Remove(s) /\ UNCHANGED lost
     \/ /\ Faulty /\ lost' = lost \cup {<<"session", s>>}
        /\ UNCHANGED sessions
  /\ UNCHANGED <<situation, accountTables, accessData, oauthTables, request, served,
                 proven, guesses, used>>
=============================================================================
