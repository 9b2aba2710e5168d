------------------------------ MODULE Accounts ------------------------------
(***************************************************************************)
(* Accounts: app/user.go, app/authentication.go and app/login.go, behind   *)
(* api/user.go, on store/sqlstore/user_store.go and tokens_store.go.       *)
(***************************************************************************)
EXTENDS LoginSessions

Unchanged == UNCHANGED <<accountTables, sessionTables, oauthTables, histories>>

----------------------------------------------------------------------------
(* Signing up.                                                             *)

(* The first account of an installation is its admin; deleted ones count.  *)
FirstType == IF EnableAdminUser /\ ~\E u \in User : Exists(u) THEN "admin" ELSE "normal"

SigningUp(u, e, verified) ==
  [Idle EXCEPT !.at = "save", !.user = u, !.email = e,
     !.row = [NoUser EXCEPT !.status = "live", !.type = FirstType, !.email = e,
                !.verified = verified]]

CreateUserFromSignup(pr, u, e) ==
  /\ Accept(pr, "signup") /\ ~Exists(u)
  /\ \A q \in Proc : request[q].user # u
  /\ Become(pr, [SigningUp(u, e, FALSE) EXCEPT !.then = "mail"])
  /\ Unchanged

(* With an invitation that was mailed to e, and so without a welcome mail. *)
CreateUserWithToken(pr, u, e) ==
  /\ Accept(pr, "signup_token") /\ ~Exists(u)
  /\ \A q \in Proc : request[q].user # u
  /\ Become(pr, SigningUp(u, e, TRUE))
  /\ proven' = proven \cup {<<u, e>>}
  /\ UNCHANGED <<accountTables, sessionTables, oauthTables, guesses, used, lost>>

Save(pr) ==
  LET r == request[pr] IN
  /\ At(pr, "save")
  /\ IF EmailTaken(r.user, r.email) THEN Finish(pr) /\ UNCHANGED users
     ELSE /\ users' = [users EXCEPT ![r.user] = r.row]
          /\ Goto(pr, r.then)
  /\ UNCHANGED <<tokens, sessionTables, oauthTables, histories>>

----------------------------------------------------------------------------
(* Addresses and their verification.                                       *)

(* CreateVerifyEmailToken, of the welcome mail, of a changed address (in a *)
(* goroutine) or asked for.                                                *)
SendEmailVerification(pr) ==
  /\ At(pr, "mail")
  /\ Mailing(pr, "verify_email") /\ used' = Append(used, 0)
  /\ Finish(pr)
  /\ UNCHANGED <<users, sessionTables, oauthTables, proven, guesses, lost>>

sendVerificationEmail(pr, u) ==
  /\ Accept(pr, "send_verification") /\ Exists(u)
  /\ Become(pr, [Idle EXCEPT !.at = "mail", !.user = u, !.email = users[u].email])
  /\ Unchanged

(* Who uses a token got the mail with it.                                  *)
VerifyEmailFromToken(pr, k) ==
  LET t == tokens[k] IN
  /\ Accept(pr, "verify") /\ t.live /\ t.fresh /\ t.type = "verify_email"
  /\ t.email # None /\ IsLive(t.user)
  /\ Become(pr, [Idle EXCEPT !.at = "verify", !.user = t.user, !.email = t.email,
                   !.token = k])
  /\ proven' = proven \cup {<<t.user, t.email>>}
  /\ UNCHANGED <<accountTables, sessionTables, oauthTables, guesses, used, lost>>

(* The address is set as well: it may have been changed since the mail.    *)
VerifyEmail(pr) ==
  LET r == request[pr] IN
  /\ At(pr, "verify")
  /\ IF EmailTaken(r.user, r.email) THEN Finish(pr) /\ UNCHANGED <<users, used>>
     ELSE /\ users' = [users EXCEPT ![r.user].email = r.email, ![r.user].verified = TRUE]
          /\ used' = [used EXCEPT ![r.token] = @ + 1]
          /\ Goto(pr, "spend")
  /\ UNCHANGED <<tokens, sessionTables, oauthTables, proven, guesses, lost>>

(* Mutant: the token stays in its table. *)
KeepToken(k) == UNCHANGED tokens

Delete(k) == tokens' = [tokens EXCEPT ![k].live = FALSE]

(* An error is only logged.                                                *)
DeleteToken(pr) ==
  LET r == request[pr] IN
  /\ At(pr, "spend") /\ Finish(pr)
  /\ Delete(r.token)
  /\ UNCHANGED <<users, sessionTables, oauthTables, histories>>

----------------------------------------------------------------------------
(* Passwords and logins.                                                   *)

(* Mutant: one more attempt is allowed. *)
MayTryOnceMore(u) == users[u].attempts =< MaximumLoginAttempts

MayTry(u) == users[u].attempts < MaximumLoginAttempts

(* A password is compared with that of the row that was read; the outcome  *)
(* is written next.                                                        *)
Trying(u, right, phase) ==
  [Idle EXCEPT !.at = "attempt", !.user = u, !.row = users[u], !.right = right,
     !.then = phase]

TryPassword(pr, u, right, r) ==
  /\ MayTry(u) /\ Become(pr, r)
  /\ guesses' = IF right THEN guesses ELSE [guesses EXCEPT ![u] = @ + 1]
  /\ UNCHANGED <<accountTables, sessionTables, oauthTables, proven, used, lost>>

login(pr, u, right) ==
  /\ Accept(pr, "login") /\ IsLive(u)
  /\ TryPassword(pr, u, right, Trying(u, right, "session"))

UpdatePasswordAsUser(pr, u, right) ==
  /\ Accept(pr, "own_password") /\ SessionRequired(u) /\ IsLive(u)
  /\ TryPassword(pr, u, right, Trying(u, right, "password"))

(* The number that was read, plus one.                                     *)
Attempts(r) == IF r.right THEN 0 ELSE r.row.attempts + 1

(* CheckPasswordAndAllCriteria and DoubleCheckPassword; a login needs a    *)
(* verified address too, which is looked at last.                          *)
UpdateFailedPasswordAttempts(pr) ==
  LET r == request[pr] IN
  /\ At(pr, "attempt")
  /\ users' = [users EXCEPT ![r.user].attempts = Attempts(r)]
  /\ guesses' = IF r.right THEN [guesses EXCEPT ![r.user] = 0] ELSE guesses
  /\ IF r.right /\ (r.then = "session" => r.row.verified) THEN Goto(pr, r.then)
     ELSE Finish(pr)
  /\ UNCHANGED <<tokens, sessionTables, oauthTables, proven, used, lost>>

DoLogin(pr) ==
  /\ At(pr, "session")
  /\ NewSession(request[pr].user, None) /\ Finish(pr)
  /\ UNCHANGED <<accountTables, removing, accessData, oauthTables, histories>>

(* An admin sets the password of another user.                             *)
UpdatePasswordByUserIdSendEmail(pr, actor, u) ==
  /\ Accept(pr, "others_password") /\ actor # u
  /\ SessionRequired(actor) /\ HasType(actor, {"admin"}) /\ IsLive(u)
  /\ Become(pr, [Idle EXCEPT !.at = "password", !.user = u])
  /\ Unchanged

UpdatePassword(pr) ==
  LET r == request[pr] IN
  /\ At(pr, "password")
  /\ users' = [users EXCEPT ![r.user].attempts = 0]
  /\ guesses' = [guesses EXCEPT ![r.user] = 0]
  /\ used' = IF r.token = 0 THEN used ELSE [used EXCEPT ![r.token] = @ + 1]
  /\ Goto(pr, IF r.token = 0 THEN "idle" ELSE "spend")
  /\ UNCHANGED <<tokens, sessionTables, oauthTables, proven, lost>>

(* Anybody may ask, for the account with this address, live or deleted.    *)
SendPasswordReset(pr, u) ==
  /\ Accept(pr, "send_reset") /\ Exists(u)
  /\ Become(pr, [Idle EXCEPT !.at = "recover", !.user = u, !.email = users[u].email])
  /\ Unchanged

CreatePasswordRecoveryToken(pr) ==
  /\ At(pr, "recover")
  /\ Mailing(pr, "password_recovery") /\ used' = Append(used, 0)
  /\ Finish(pr)
  /\ UNCHANGED <<users, sessionTables, oauthTables, proven, guesses, lost>>

ResetPasswordFromToken(pr, k) ==
  LET t == tokens[k] IN
  /\ Accept(pr, "reset") /\ t.live /\ t.fresh /\ t.type = "password_recovery"
  /\ IsLive(t.user) /\ users[t.user].email = t.email
  /\ Become(pr, [Idle EXCEPT !.at = "password", !.user = t.user, !.token = k])
  /\ Unchanged

----------------------------------------------------------------------------
(* Changes to a user's row.                                                *)

(* The row the client sends back: with the address it wants, or its own.   *)
Updating(u, e) ==
  [Idle EXCEPT !.at = "update", !.user = u, !.email = e, !.type = users[u].type]

(* By oneself, with the password once more for a new address, or by an     *)
(* admin; no OAuth session may ask for a new address.                      *)
updateUser(pr, actor, u, e, right) ==
  LET changed == e # users[u].email
  IN /\ Accept(pr, "update") /\ IsLive(u)
     /\ SessionRequired(actor) /\ (changed => OwnSessionRequired(actor))
     /\ \/ /\ changed /\ actor = u
           /\ TryPassword(pr, u, right,
                [Updating(u, e) EXCEPT !.at = "attempt", !.row = users[u], !.right = right,
                                       !.then = "update"])
        \/ /\ IF actor = u THEN ~changed ELSE HasType(actor, {"admin"})
           /\ right /\ Become(pr, Updating(u, e)) /\ Unchanged

(* UpdateUser reads the user once more, and refuses an address that is not *)
(* his present one and is somebody's.                                      *)
UpdateUser(pr) ==
  LET r == request[pr]
      changed == r.email # users[r.user].email
  IN /\ At(pr, "update")
     /\ IF IsLive(r.user) /\ (changed => GetByEmail(r.email) = {})
        THEN Become(pr, [r EXCEPT !.at = "read", !.changed = changed])
        ELSE Finish(pr)
     /\ Unchanged

(* Neither an admin's type nor that of who is gone.                        *)
UpdateUserType(pr, actor, u, type) ==
  /\ Accept(pr, "type") /\ SessionRequired(actor) /\ HasType(actor, {"admin"})
  /\ HasType(u, {"normal", "moderator"})
  /\ Become(pr, [Updating(u, users[u].email) EXCEPT !.at = "read", !.type = type,
                   !.trusted = TRUE])
  /\ Unchanged

(* Update first reads the row on the master ...                            *)
ReadOldUser(pr) ==
  LET r == request[pr] IN
  /\ At(pr, "read")
  /\ Become(pr, [r EXCEPT !.at = "write", !.row = users[r.user]])
  /\ Unchanged

(* Mutant: a changed address stays verified. *)
StaysVerified(r) == r.row.verified

(* A changed address has to be verified again.                             *)
EmailVerified(r) == r.row.verified /\ r.email = r.row.email

(* ... then writes it whole: most columns as just read, the address and,   *)
(* if trusted, type and deletion as the caller has them.                   *)
UpdatedUser(r) ==
  [r.row EXCEPT !.email = r.email, !.verified = EmailVerified(r),
     !.type = IF r.trusted THEN r.type ELSE @,
     !.status = IF r.trusted THEN "live" ELSE @]

Update(pr) ==
  LET r == request[pr] IN
  /\ At(pr, "write")
  /\ IF EmailTaken(r.user, r.email) THEN Finish(pr) /\ UNCHANGED users
     ELSE /\ users' = [users EXCEPT ![r.user] = UpdatedUser(r)]
          /\ IF r.changed \/ (r.email # r.row.email /\ ~r.trusted)
             THEN Become(pr, [r EXCEPT !.at = "mail",
                                !.email = IF r.changed THEN @ ELSE None])
             ELSE Finish(pr)
  /\ UNCHANGED <<tokens, sessionTables, oauthTables, histories>>

(* By oneself or an admin; a moderator only by an admin, an admin by none. *)
DeleteUser(pr, actor, u) ==
  /\ Accept(pr, "delete_user") /\ SessionRequired(actor) /\ IsLive(actor)
  /\ HasType(u, {"normal", "moderator"})
  /\ \/ actor = u /\ users[u].type = "normal"
     \/ HasType(actor, {"admin"})
  /\ Become(pr, [Idle EXCEPT !.at = "delete", !.user = u, !.then = "list"])
  /\ Unchanged

(* The sessions are revoked after the account is gone.                     *)
DeleteRow(pr) ==
  /\ At(pr, "delete")
  /\ users' = [users EXCEPT ![request[pr].user].status = "deleted"]
  /\ Goto(pr, "list")
  /\ UNCHANGED <<tokens, sessionTables, oauthTables, histories>>
=============================================================================
