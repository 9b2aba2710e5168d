---------------------------- MODULE AccountStore ----------------------------
(***************************************************************************)
(* The tables of users, mailed tokens, login sessions and the OAuth        *)
(* provider, and the way a request reaches them.                           *)
(*                                                                         *)
(* As with the teams, a handler decides by what it read when it was        *)
(* accepted and then writes in separate statements, each of them a step,   *)
(* with no transaction around them; a statement may fail, or the server    *)
(* crash, before any of them (Fault).  Passwords are right or wrong, not   *)
(* values.  A request refused for its parameters or permissions writes     *)
(* nothing: it is a request that is never made.                            *)
(***************************************************************************)
EXTENDS Integers, Sequences, FiniteSets

CONSTANTS
  User,        \* the ids accounts can have
  Email,       \* the addresses they can have
  App,         \* the ids client applications can have
  Situations,  \* the situations a behaviour may start in, see below
  Faulty,      \* may statements fail and servers crash?
  EnableAdminUser, MaximumLoginAttempts,   \* ServiceSettings
  AuthorizedAppsMapped,  \* does gorp know the type OAuthAuthorizedApp?
  None         \* no user, no address, no app: the empty string of the code

(* A situation: the accounts there are (their type and address), the       *)
(* client applications and their owners, whose sessions there are, the     *)
(* requests clients make, how many of them at once, and the bound of the   *)
(* model on their number.                                                  *)
ASSUME AccountStoreAssumption ==
  /\ \A s \in Situations :
       /\ DOMAIN s.typeOf \subseteq User /\ DOMAIN s.emailOf = DOMAIN s.typeOf
       /\ \A u \in DOMAIN s.typeOf : s.typeOf[u] \in {"normal", "moderator", "admin"}
                                      /\ s.emailOf[u] \in Email
       /\ DOMAIN s.ownerOf \subseteq App /\ \A c \in DOMAIN s.ownerOf : s.ownerOf[c] \in User
       /\ s.loggedIn \in Seq(DOMAIN s.typeOf)
       /\ s.slots \in Nat \ {0} /\ s.requests \in Nat
  /\ Faulty \in BOOLEAN /\ EnableAdminUser \in BOOLEAN
  /\ AuthorizedAppsMapped \in BOOLEAN /\ MaximumLoginAttempts \in Nat \ {0}
  /\ None \notin User \cup Email \cup App

VARIABLES
  situation,   \* the situation this behaviour started in
  users,       \* users[u]: the row of Users
  tokens,      \* tokens[k]: the k-th row ever put into Tokens
  sessions,    \* sessions[s]: the s-th row ever put into Sessions
  removing,    \* the sessions goroutines of RevokeAccessToken are about to delete
  apps,        \* apps[c]: the row of OAuthApps
  codes,       \* codes[k]: the k-th row ever put into OAuthAuthData
  accessData,  \* accessData[c][u]: the row of OAuthAccessData, of which
               \* (ClientId, UserId) is a unique key
  authorized,  \* the rows of OAuthAuthorizedApps
  request,     \* request[pr]: what the request in slot pr is doing
  served,      \* the number of requests accepted so far
  proven,      \* history: <<u, e>>: u has shown to get the mail sent to e
  guesses,     \* history: wrong passwords tried for u since a right one
  used,        \* history: used[k]: what token k was used for, so many times
  lost         \* history: what a failure kept from being written or deleted

accountTables == <<users, tokens>>
sessionTables == <<sessions, removing, accessData>>
oauthTables == <<apps, codes, authorized>>
histories == <<proven, guesses, used, lost>>
vars == <<situation, accountTables, sessionTables, oauthTables, request, served, histories>>

Proc == 1 .. situation.slots
Alone == situation.slots = 1

----------------------------------------------------------------------------
(* The tables.  The rows of Tokens, Sessions and OAuthAuthData have fresh  *)
(* random keys: here they are numbered as they are inserted, and 0 is the  *)
(* empty string.                                                           *)

UserRow == [status : {"none", "live", "deleted"}, type : {"normal", "moderator", "admin"},
            email : Email \cup {None}, verified : BOOLEAN, attempts : Nat]
NoUser == [status |-> "none", type |-> "normal", email |-> None, verified |-> FALSE,
           attempts |-> 0]

TokenRow == [type : {"verify_email", "password_recovery"}, user : User,
             email : Email \cup {None}, live : BOOLEAN, fresh : BOOLEAN]

(* app: the client application an OAuth session was made for.              *)
SessionRow == [user : User, app : App \cup {None}, live : BOOLEAN, expired : BOOLEAN]

AppRow == [status : {"none", "live", "deleted"}, owner : User \cup {None}, secret : Nat]
NoApp == [status |-> "none", owner |-> None, secret |-> 0]

(* delivered: the redirect with the code in it was sent to the user;       *)
(* made: history, the sessions that exchanges of the code have made.       *)
CodeRow == [app : App, user : User, live : BOOLEAN, fresh : BOOLEAN,
            delivered : BOOLEAN, made : Nat]

(* token: the number of the session whose token it is; 0: there is no row. *)
DataRow == [token : Nat, refresh : Nat]
NoData == [token |-> 0, refresh |-> 0]

IsLive(u) == users[u].status = "live"
Exists(u) == users[u].status # "none"

(* The rows of a user, whatever their state, by address: GetByEmail and    *)
(* GetForLogin do not look at DeleteAt.                                    *)
GetByEmail(e) == {u \in User : Exists(u) /\ users[u].email = e}

(* The unique key on Users.Email would refuse e for u.                     *)
EmailTaken(u, e) == GetByEmail(e) \ {u} # {}

(* The access data with this token.                                        *)
GetAccessData(s) == {k \in App \X User : s # 0 /\ accessData[k[1]][k[2]].token = s}

LiveSessions(u) == {s \in DOMAIN sessions : sessions[s].user = u /\ sessions[s].live}

(* A request in the name of u is let in by a session of his; some only by  *)
(* one that he logged in for himself.                                      *)
GetSession(u) == {s \in LiveSessions(u) : ~sessions[s].expired}
SessionRequired(u) == GetSession(u) # {}
OwnSessionRequired(u) == \E s \in GetSession(u) : sessions[s].app = None

HasType(u, types) == IsLive(u) /\ users[u].type \in types

----------------------------------------------------------------------------
(* Requests.                                                               *)

Phase == {"idle", "save", "mail", "attempt", "session", "verify", "spend", "read",
          "update", "write", "password", "recover", "delete", "list", "revoke", "revoke_data",
          "revoke_wait", "app_write", "code", "implicit", "implicit_data", "allow",
          "exchange", "exchange_data", "code_done", "renew", "renew_session",
          "renew_data", "unauthorize"}

(* What a request carries: whom it is about, the row it read or will       *)
(* insert, what it will write (trusted: type and deletion too; changed:    *)
(* the address was found to be a new one), whether its password is right,  *)
(* the rows it uses, the sessions to revoke (all: of a deleted user), and  *)
(* the phase that follows a common part.                                   *)
Request == [at : Phase, then : Phase, user : User \cup {None}, row : UserRow,
            email : Email \cup {None}, type : {"normal", "moderator", "admin"},
            right : BOOLEAN, trusted : BOOLEAN, changed : BOOLEAN, all : BOOLEAN,
            token : Nat, session : Nat, app : App \cup {None}, code : Nat,
            secret : Nat, todo : SUBSET Nat]

Idle == [at |-> "idle", then |-> "idle", user |-> None, row |-> NoUser, email |-> None,
         type |-> "normal", right |-> TRUE, trusted |-> FALSE, changed |-> FALSE,
         all |-> FALSE, token |-> 0, session |-> 0, app |-> None, code |-> 0,
         secret |-> 0, todo |-> {}]

Become(pr, r) == request' = [request EXCEPT ![pr] = r]
Finish(pr) == Become(pr, Idle)

(* A request that has nothing more to do is over.                          *)
Goto(pr, phase) == IF phase = "idle" THEN Finish(pr)
                   ELSE Become(pr, [request[pr] EXCEPT !.at = phase])

Accept(pr, op) ==
  /\ op \in situation.ops /\ request[pr] = Idle
  /\ served < situation.requests /\ served' = served + 1
  /\ UNCHANGED situation

At(pr, phase) == request[pr].at = phase /\ UNCHANGED <<situation, served>>

Mailing(pr, type) ==
  LET r == request[pr]
  IN tokens' = Append(tokens, [type |-> type, user |-> r.user, email |-> r.email,
                               live |-> TRUE, fresh |-> TRUE])

(* Time passes: an hour for tokens, ten minutes for codes, days for        *)
(* sessions.                                                               *)
Outlive(op) == op \in situation.ops /\ UNCHANGED <<situation, request, served, histories>>
ExpireToken(k) ==
  /\ Outlive("token_expires") /\ tokens[k].live /\ tokens[k].fresh
  /\ tokens' = [tokens EXCEPT ![k].fresh = FALSE]
  /\ UNCHANGED <<users, sessionTables, oauthTables>>
ExpireSession(s) ==
  /\ Outlive("session_expires") /\ sessions[s].live /\ ~sessions[s].expired
  /\ sessions' = [sessions EXCEPT ![s].expired = TRUE]
  /\ UNCHANGED <<accountTables, removing, accessData, oauthTables>>
ExpireCode(k) ==
  /\ Outlive("code_expires") /\ codes[k].live /\ codes[k].fresh
  /\ codes' = [codes EXCEPT ![k].fresh = FALSE]
  /\ UNCHANGED <<accountTables, sessionTables, apps, authorized>>

(* What is not written or deleted when a request ends before its end.      *)
LostBy(r) ==
  (IF r.at = "attempt" THEN {<<"guess", r.user>>} ELSE {})
  \cup (IF r.at \in {"list", "revoke", "revoke_data", "revoke_wait"}
        THEN {<<"revocation", r.user>>} ELSE {})
  \cup (IF "spend" \in {r.at, r.then} THEN {<<"token", r.token>>} ELSE {})
  \cup (IF r.code # 0 THEN {<<"code", r.code>>} ELSE {})
  \cup (IF r.session # 0 THEN {<<"session", r.session>>} ELSE {})
  \cup (IF r.at \in {"renew_session", "renew_data"} THEN {<<"session", r.token>>} ELSE {})

Fault(pr) ==
  /\ Faulty /\ request[pr] # Idle
  /\ lost' = lost \cup LostBy(request[pr])
  /\ Finish(pr)
  /\ UNCHANGED <<situation, accountTables, sessionTables, oauthTables, served, proven,
                 guesses, used>>

----------------------------------------------------------------------------
Init ==
  /\ situation \in Situations
  /\ LET there == DOMAIN situation.typeOf IN
     /\ users = [u \in User |->
                   IF u \in there
                   THEN [NoUser EXCEPT !.status = "live", !.type = situation.typeOf[u],
                           !.email = situation.emailOf[u], !.verified = TRUE]
                   ELSE NoUser]
     /\ proven = {<<u, situation.emailOf[u]>> : u \in there}
  /\ tokens = <<>> /\ used = <<>>
  /\ sessions = [s \in DOMAIN situation.loggedIn |->
                   [user |-> situation.loggedIn[s], app |-> None, live |-> TRUE,
                    expired |-> FALSE]]
  /\ removing = {}
  /\ apps = [c \in App |-> IF c \in DOMAIN situation.ownerOf
                           THEN [status |-> "live", owner |-> situation.ownerOf[c],
                                 secret |-> 0]
                           ELSE NoApp]
  /\ codes = <<>> /\ authorized = {}
  /\ accessData = [c \in App |-> [u \in User |-> NoData]]
  /\ request = [pr \in 1 .. situation.slots |-> Idle]
  /\ served = 0
  /\ guesses = [u \in User |-> 0]
  /\ lost = {}
=============================================================================
