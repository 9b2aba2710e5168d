------------------------------- MODULE OAuth -------------------------------
(***************************************************************************)
(* The OAuth provider: app/oauth.go behind web/oauth.go and api/oauth.go,  *)
(* on store/sqlstore/oauth_store.go.  Client applications have redirect    *)
(* URLs of their own: no other application gets, or can use, their codes.  *)
(***************************************************************************)
EXTENDS LoginSessions

UnchangedTables == UNCHANGED <<accountTables, sessionTables, oauthTables>>

----------------------------------------------------------------------------
(* Client applications.                                                    *)

createOAuthApp(pr, u, c) ==
  /\ Accept(pr, "create_app") /\ SessionRequired(u) /\ IsLive(u)
  /\ apps[c].status = "none"
  /\ apps' = [apps EXCEPT ![c] = [status |-> "live", owner |-> u, secret |-> 0]]
  /\ UNCHANGED <<accountTables, sessionTables, codes, authorized, request, histories>>

(* updateOAuthApp keeps the secret it read, regenerateOAuthAppSecret makes *)
(* a new one; both write the row whole.                                    *)
ChangeOAuthApp(pr, c, op, secret) ==
  /\ Accept(pr, op) /\ apps[c].status = "live"
  /\ SessionRequired(apps[c].owner) /\ IsLive(apps[c].owner)
  /\ Become(pr, [Idle EXCEPT !.at = "app_write", !.app = c, !.secret = secret])
  /\ UnchangedTables /\ UNCHANGED histories

updateOAuthApp(pr, c) == ChangeOAuthApp(pr, c, "update_app", apps[c].secret)
RegenerateOAuthAppSecret(pr, c) == ChangeOAuthApp(pr, c, "regen_secret", served + 1)

UpdateApp(pr) ==
  LET r == request[pr] IN
  /\ At(pr, "app_write") /\ Finish(pr)
  /\ apps' = IF apps[r.app].status = "live" THEN [apps EXCEPT ![r.app].secret = r.secret]
             ELSE apps
  /\ UNCHANGED <<accountTables, sessionTables, codes, authorized, histories>>

(* One transaction: the application, the sessions of its access tokens,    *)
(* the access data and the authorizations; not its codes.                  *)
DeleteApp(pr, c) ==
  LET its == {accessData[c][u].token : u \in User} \ {0} IN
  /\ Accept(pr, "delete_app") /\ apps[c].status = "live"
  /\ SessionRequired(apps[c].owner) /\ IsLive(apps[c].owner)
  /\ apps' = [apps EXCEPT ![c].status = "deleted"]
  /\ sessions' = [s \in DOMAIN sessions |->
                    IF s \in its THEN [sessions[s] EXCEPT !.live = FALSE] ELSE sessions[s]]
  /\ accessData' = [accessData EXCEPT ![c] = [u \in User |-> NoData]]
  /\ authorized' = {a \in authorized : a[1] # c}
  /\ UNCHANGED <<accountTables, removing, codes, request, histories>>

----------------------------------------------------------------------------
(* The user allows an application: authorizeOAuthApp, which no OAuth       *)
(* session may ask for, and AllowOAuthAppAccessToUser.                     *)

authorizeOAuthApp(pr, u, c, response) ==
  /\ Accept(pr, "authorize") /\ OwnSessionRequired(u) /\ apps[c].status = "live"
  /\ response = "implicit" => IsLive(u)
  /\ Become(pr, [Idle EXCEPT !.at = response, !.user = u, !.app = c])
  /\ UnchangedTables /\ UNCHANGED histories

(* A code that cannot be saved makes another redirect, and no error: the   *)
(* authorization is saved all the same.                                    *)
GetOAuthCodeRedirect(pr) ==
  LET r == request[pr] IN
  /\ At(pr, "code")
  /\ \/ /\ codes' = Append(codes, [app |-> r.app, user |-> r.user, live |-> TRUE,
                                    fresh |-> TRUE, delivered |-> FALSE, made |-> 0])
        /\ Become(pr, [r EXCEPT !.at = "allow", !.code = Len(codes) + 1])
     \/ Faulty /\ Goto(pr, "allow") /\ UNCHANGED codes
  /\ UNCHANGED <<accountTables, sessionTables, apps, authorized, histories>>

GetOAuthImplicitRedirect(pr) ==
  LET r == request[pr] IN
  /\ At(pr, "implicit")
  /\ NewSession(r.user, r.app)
  /\ Become(pr, [r EXCEPT !.at = "implicit_data", !.session = NewSessionId])
  /\ UNCHANGED <<accountTables, removing, accessData, oauthTables, histories>>

(* Insert: refused by the unique key when the user has access data of this *)
(* application; the session just made stays.                               *)
SaveAccessData(pr, refresh, phase) ==
  LET r == request[pr] IN
  /\ IF accessData[r.app][r.user] = NoData
     THEN /\ accessData' = [accessData EXCEPT ![r.app][r.user] =
                              [token |-> r.session, refresh |-> refresh]]
          /\ Become(pr, [r EXCEPT !.at = phase, !.session = 0])
          /\ UNCHANGED lost
     ELSE /\ lost' = lost \cup {<<"session", r.session>>}
          /\ Finish(pr)
          /\ UNCHANGED accessData
  /\ UNCHANGED <<accountTables, sessions, removing, oauthTables, proven, guesses, used>>

SaveImplicitAccessData(pr) == At(pr, "implicit_data") /\ SaveAccessData(pr, 0, "allow")

(* Insert, too: there may be one already.  And gorp refuses to insert a    *)
(* value of a type no table was added for; either way the redirect says    *)
(* server_error, and what was saved before stays.                          *)
SaveAuthorizedApp(pr) ==
  LET r == request[pr] IN
  /\ At(pr, "allow") /\ Finish(pr)
  /\ IF AuthorizedAppsMapped /\ <<r.app, r.user>> \notin authorized
     THEN /\ authorized' = authorized \cup {<<r.app, r.user>>}
          /\ codes' = IF r.code = 0 THEN codes
                      ELSE [codes EXCEPT ![r.code].delivered = TRUE]
     ELSE UNCHANGED <<authorized, codes>>
  /\ UNCHANGED <<accountTables, sessionTables, apps, histories>>

----------------------------------------------------------------------------
(* The application gets its tokens: GetOAuthAccessTokenForCodeFlow, with   *)
(* the right secret.                                                       *)

(* A user who has access data of this application gets the same token      *)
(* again, or, when it has expired, new ones.                               *)
ExchangePhase(data) ==
  CASE data = NoData -> "exchange"
    [] data # NoData /\ sessions[data.token].expired -> "renew"
    [] OTHER -> "code_done"

getAccessToken(pr, k) ==
  LET code == codes[k]
      data == accessData[code.app][code.user]
  IN /\ Accept(pr, "exchange") /\ apps[code.app].status = "live"
     /\ code.delivered /\ code.live /\ code.fresh /\ IsLive(code.user)
     /\ Become(pr, [Idle EXCEPT !.at = ExchangePhase(data), !.then = "code_done",
                      !.user = code.user, !.app = code.app, !.code = k,
                      !.token = data.token])
     /\ UnchangedTables /\ UNCHANGED histories

(* One that is older than ten minutes is deleted, and refused.             *)
RefuseExpiredCode(pr, k) ==
  /\ Accept(pr, "exchange") /\ apps[codes[k].app].status = "live"
  /\ codes[k].delivered /\ codes[k].live /\ ~codes[k].fresh
  /\ codes' = [codes EXCEPT ![k].live = FALSE]
  /\ UNCHANGED <<accountTables, sessionTables, apps, authorized, request, histories>>

ExchangeSession(pr) ==
  LET r == request[pr] IN
  /\ At(pr, "exchange")
  /\ NewSession(r.user, r.app)
  /\ Become(pr, [r EXCEPT !.at = "exchange_data", !.session = NewSessionId])
  /\ codes' = [codes EXCEPT ![r.code].made = @ + 1]
  /\ UNCHANGED <<accountTables, removing, accessData, apps, authorized, histories>>

(* A refresh token nobody had before.                                      *)
NewRefreshToken == Len(sessions)

SaveExchangedAccessData(pr) ==
  At(pr, "exchange_data") /\ SaveAccessData(pr, NewRefreshToken, "code_done")

RemoveAuthData(k) == codes' = [codes EXCEPT ![k].live = FALSE]

(* The error of this deletion is ignored.                                  *)
FinishExchange(pr) ==
  LET k == request[pr].code IN
  /\ At(pr, "code_done") /\ Finish(pr)
  /\ \/ RemoveAuthData(k) /\ UNCHANGED lost
     \/ Faulty /\ lost' = lost \cup {<<"code", k>>} /\ UNCHANGED codes
  /\ UNCHANGED <<accountTables, sessionTables, apps, authorized, proven, guesses, used>>

(* By a refresh token, with the secret of some application.                *)
Refresh(pr, c, u) ==
  LET data == accessData[c][u] IN
  /\ Accept(pr, "refresh") /\ data.refresh # 0 /\ IsLive(u)
  /\ \E any \in App : apps[any].status = "live"
  /\ Become(pr, [Idle EXCEPT !.at = "renew", !.user = u, !.app = c, !.token = data.token])
  /\ UnchangedTables /\ UNCHANGED histories

(* newSessionUpdateToken: the old session goes, an error is ignored; a new *)
(* one is made; then the row of access data is updated, if it is there.    *)
RenewRemove(pr) ==
  LET r == request[pr] IN
  /\ At(pr, "renew") /\ Goto(pr, "renew_session")
  /\ \/ Remove(r.token) /\ UNCHANGED lost
     \/ /\ Faulty /\ lost' = lost \cup {<<"session", r.token>>}
        /\ UNCHANGED sessions
  /\ UNCHANGED <<accountTables, removing, accessData, oauthTables, proven, guesses, used>>

RenewSession(pr) ==
  LET r == request[pr] IN
  /\ At(pr, "renew_session")
  /\ NewSession(r.user, r.app)
  /\ Become(pr, [r EXCEPT !.at = "renew_data", !.session = NewSessionId])
  /\ UNCHANGED <<accountTables, removing, accessData, oauthTables, histories>>

UpdateAccessData(data, s) == [token |-> s, refresh |-> NewRefreshToken]

RenewData(pr) ==
  LET r == request[pr]
      data == accessData[r.app][r.user]
  IN /\ At(pr, "renew_data")
     /\ accessData' = IF data = NoData THEN accessData
                      ELSE [accessData EXCEPT ![r.app][r.user] =
                              UpdateAccessData(data, r.session)]
     /\ IF r.then = "idle" THEN Finish(pr)
        ELSE Become(pr, [r EXCEPT !.at = r.then, !.session = 0])
     /\ UNCHANGED <<accountTables, sessions, removing, oauthTables, histories>>

----------------------------------------------------------------------------
(* DeauthorizeOAuthAppForUser: the access token and its session, if there  *)
(* is one, then the authorization; a code not yet used stays.              *)
deauthorizeOAuthApp(pr, u, c) ==
  LET s == accessData[c][u].token
      r == [Idle EXCEPT !.user = u, !.app = c]
  IN /\ Accept(pr, "deauthorize") /\ SessionRequired(u)
     /\ Become(pr, IF s = 0 THEN [r EXCEPT !.at = "unauthorize"]
                   ELSE [r EXCEPT !.at = "revoke", !.todo = {s}, !.then = "unauthorize"])
     /\ UnchangedTables /\ UNCHANGED histories

DeleteAuthorizedApp(pr) ==
  LET r == request[pr] IN
  /\ At(pr, "unauthorize") /\ Finish(pr)
  /\ authorized' = authorized \ {<<r.app, r.user>>}
  /\ UNCHANGED <<accountTables, sessionTables, apps, codes, histories>>
=============================================================================
