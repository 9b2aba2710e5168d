------------------------------ MODULE Identity ------------------------------
(***************************************************************************)
(* Accounts, sessions and the OAuth provider together, and what must be    *)
(* true of them.                                                           *)
(***************************************************************************)
EXTENDS Accounts, OAuth

SigningUpAndIn(pr) ==
  \/ \E u \in User, e \in Email : CreateUserFromSignup(pr, u, e) \/ CreateUserWithToken(pr, u, e)
  \/ Save(pr) \/ SendEmailVerification(pr) \/ VerifyEmail(pr) \/ DeleteToken(pr)
  \/ \E u \in User : sendVerificationEmail(pr, u)
  \/ \E k \in DOMAIN tokens : VerifyEmailFromToken(pr, k)
  \/ \E u \in User, right \in BOOLEAN : login(pr, u, right)
  \/ UpdateFailedPasswordAttempts(pr) \/ DoLogin(pr)

ChangingAccounts(pr) ==
  \/ \E u \in User, right \in BOOLEAN : UpdatePasswordAsUser(pr, u, right)
  \/ \E actor, u \in User : \/ UpdatePasswordByUserIdSendEmail(pr, actor, u)
                            \/ DeleteUser(pr, actor, u)
                            \/ \E e \in Email, right \in BOOLEAN : updateUser(pr, actor, u, e, right)
                            \/ \E type \in {"normal", "moderator", "admin"} :
                                 UpdateUserType(pr, actor, u, type)
  \/ \E u \in User : SendPasswordReset(pr, u)
  \/ \E k \in DOMAIN tokens : ResetPasswordFromToken(pr, k)
  \/ UpdatePassword(pr) \/ CreatePasswordRecoveryToken(pr)
  \/ UpdateUser(pr) \/ ReadOldUser(pr) \/ Update(pr) \/ DeleteRow(pr)

Revocation(pr) ==
  \/ \E s \in DOMAIN sessions : RevokeSessionById(pr, s)
  \/ GetSessions(pr) \/ RevokeSession(pr) \/ RevokeAccessToken(pr) \/ AwaitRemoval(pr)

Authorization(pr) ==
  \/ \E u \in User, c \in App :
       \/ createOAuthApp(pr, u, c) \/ deauthorizeOAuthApp(pr, u, c) \/ Refresh(pr, c, u)
       \/ \E response \in {"code", "implicit"} : authorizeOAuthApp(pr, u, c, response)
  \/ \E c \in App : \/ updateOAuthApp(pr, c) \/ RegenerateOAuthAppSecret(pr, c)
                    \/ DeleteApp(pr, c)
  \/ UpdateApp(pr) \/ GetOAuthCodeRedirect(pr) \/ GetOAuthImplicitRedirect(pr)
  \/ SaveImplicitAccessData(pr) \/ SaveAuthorizedApp(pr) \/ DeleteAuthorizedApp(pr)

Exchange(pr) ==
  \/ \E k \in DOMAIN codes : getAccessToken(pr, k) \/ RefuseExpiredCode(pr, k)
  \/ ExchangeSession(pr) \/ SaveExchangedAccessData(pr) \/ FinishExchange(pr)
  \/ RenewRemove(pr) \/ RenewSession(pr) \/ RenewData(pr)

Expiry == \/ \E k \in DOMAIN tokens : ExpireToken(k)
          \/ \E s \in DOMAIN sessions : ExpireSession(s)
          \/ \E k \in DOMAIN codes : ExpireCode(k)

Next ==
  \/ \E pr \in Proc : \/ SigningUpAndIn(pr) \/ ChangingAccounts(pr) \/ Revocation(pr)
                      \/ Authorization(pr) \/ Exchange(pr) \/ Fault(pr)
  \/ \E s \in removing : RemoveInBackground(s)
  \/ Expiry

Spec == Init /\ [][Next]_vars

----------------------------------------------------------------------------
(* The values the tables and the requests range over.                      *)
TypeOK ==
  /\ users \in [User -> UserRow]
  /\ \A k \in DOMAIN tokens : tokens[k] \in TokenRow
  /\ \A s \in DOMAIN sessions : sessions[s] \in SessionRow
  /\ removing \subseteq DOMAIN sessions
  /\ apps \in [App -> AppRow]
  /\ \A k \in DOMAIN codes : codes[k] \in CodeRow
  /\ \A c \in App : \A u \in User :
       accessData[c][u] \in DataRow /\ accessData[c][u].token \in 0 .. Len(sessions)
  /\ authorized \subseteq App \X User
  /\ request \in [Proc -> Request]
  /\ served =< situation.requests
  /\ proven \subseteq User \X Email
  /\ guesses \in [User -> Nat]
  /\ Len(used) = Len(tokens) /\ \A k \in DOMAIN used : used[k] \in Nat

(* Whoever has a verified address has shown to read its mail: also when    *)
(* the address was changed, changed back and set by an old token in the    *)
(* meantime (SqlUserStore.Update, store/sqlstore/user_store.go:87, and     *)
(* VerifyEmail, :233).                                                     *)
VerifiedWasProven ==
  \A u \in User : (Exists(u) /\ users[u].verified) => <<u, users[u].email>> \in proven

(* A user's wrong passwords since the last right one, or reset, are no     *)
(* more than MaximumLoginAttempts, wherever they are asked for, if         *)
(* requests come one at a time (checkUserLoginAttempts,                    *)
(* app/authentication.go:80).                                              *)
GuessesBounded ==
  \A u \in User : (Alone /\ <<"guess", u>> \notin lost) => guesses[u] =< MaximumLoginAttempts

(* No more accounts of an empty installation become its admin by signing   *)
(* up than signed up at the same time (CreateNormalUser, app/user.go:206). *)
FirstIsAdmin ==
  (DOMAIN situation.typeOf = {} /\ "type" \notin situation.ops)
    => Cardinality({u \in User : users[u].type = "admin"}) =< situation.slots

(* A mailed token works once, or once for each request there was at the    *)
(* time, unless the request that used it could not delete it               *)
(* (app/user.go:124, 400).                                                 *)
TokenWorksOnce ==
  \A k \in DOMAIN tokens : <<"token", k>> \notin lost => used[k] =< situation.slots

BeingDeleted(u) == \E pr \in Proc : request[pr].user = u /\ (request[pr].all \/ request[pr].at = "list")

(* A deleted account has no session, whatever sessions it had, once the    *)
(* request that deleted it is over, if requests come one at a time         *)
(* (DeleteUser, app/user.go:488, and RevokeAllSessions, app/session.go:69).*)
DeletedHasNoSession ==
  \A u \in User :
    (Alone /\ users[u].status = "deleted" /\ ~BeingDeleted(u) /\ <<"revocation", u>> \notin lost)
      => \A s \in LiveSessions(u) : s \in removing \/ <<"session", s>> \in lost

(* What a request in flight, or a failure, has left half-done.             *)
Unsettled(s) ==
  \/ s \in removing \/ <<"session", s>> \in lost \/ <<"revocation", sessions[s].user>> \in lost
  \/ \E pr \in Proc : s \in {request[pr].session, request[pr].token} \cup request[pr].todo

(* The access tokens of OAuthAccessData and the sessions of client         *)
(* applications go together, over exchange, renewal, revocation and the    *)
(* deletion of applications and users: what has no row cannot be revoked   *)
(* by the user, what has no session opens nothing (app/oauth.go:66, 305,   *)
(* store/sqlstore/oauth_store.go:122).                                     *)
TokensMatchSessions ==
  Alone => \A s \in DOMAIN sessions :
    (sessions[s].app # None /\ ~Unsettled(s))
      => (sessions[s].live <=> accessData[sessions[s].app][sessions[s].user].token = s)

(* A code makes one session, also when the user has revoked that session   *)
(* and the code comes again, unless it could not be deleted                *)
(* (app/oauth.go:281).                                                     *)
CodeMakesOneSession ==
  \A k \in DOMAIN codes : (Alone /\ <<"code", k>> \notin lost) => codes[k].made =< 1

(* What may be done once - being the first account, using a mailed token,  *)
(* exchanging a code - is not done again, though what allows it goes only  *)
(* after it was done (app/user.go:206, 400, app/oauth.go:281).             *)
OnceOnly == FirstIsAdmin /\ TokenWorksOnce /\ CodeMakesOneSession

(* Accounts, sessions and access data fit together: no session outlives    *)
(* its account, none its access token, nor the other way round.            *)
TablesAgree == TypeOK /\ DeletedHasNoSession /\ TokensMatchSessions

(* A code that was saved reaches the user in the redirect of the answer    *)
(* ("authDataをDB保存し、authData.CodeやauthData.Stateを含めたredirect uri   *)
(* を取得", web/oauth.go:39).                                               *)
SavedCodesAreDelivered ==
  \A k \in DOMAIN codes : codes[k].delivered \/ \E pr \in Proc : request[pr].code = k
=============================================================================
