--------------------------- MODULE IdentityProofs ---------------------------
(***************************************************************************)
(* Proofs about accounts, sessions and the OAuth provider, for any users,  *)
(* addresses, applications, situations and number of requests, with        *)
(* failures of statements and without.  What holds when requests come one  *)
(* at a time (Alone) says so in the property.                              *)
(***************************************************************************)
EXTENDS Identity, FiniteSetTheorems, SequenceTheorems, WellFoundedInduction, TLAPS

(* What a request carries in each of its phases: whom it is about, rows    *)
(* that are there (of the tokens ks, the sessions ss and the codes cs),    *)
(* and where it goes on from a part that several share.                    *)
Grants == {"code", "implicit", "implicit_data", "allow", "exchange", "exchange_data",
           "code_done", "renew", "renew_session", "renew_data", "unauthorize"}
Revokes == {"revoke", "revoke_data", "revoke_wait"}
Renews == {"renew", "renew_session", "renew_data"}
Saves == {"implicit_data", "exchange_data", "renew_data"}
Exchanges == {"exchange", "exchange_data", "code_done"}

Sound(r, ks, ss, cs) ==
  /\ r.at \notin {"idle", "app_write"} => r.user \in User
  /\ r.at \in Grants \cup {"app_write"} => r.app \in App
  /\ r.at = "save" => r.then \in {"idle", "mail"}
  /\ r.at = "attempt" => r.then \in {"session", "password", "update"} /\ r.token = 0
  /\ r.at \in Revokes => r.then = "idle" \/ (r.then = "unauthorize" /\ r.app \in App)
  /\ r.at \in Renews => r.then \in {"idle", "code_done"} /\ r.token \in DOMAIN ss
  /\ r.at \in Renews /\ r.then = "code_done" => r.code \in cs
  /\ r.at \in Exchanges => r.then = "code_done" /\ r.code \in cs
  /\ r.at \in {"verify", "spend"} => r.token \in ks
  /\ r.at = "password" => r.token \in ks \cup {0}
  /\ r.at = "allow" => r.code \in cs \cup {0}
  /\ r.at \in {"code", "implicit", "implicit_data"} => r.code = 0
  /\ r.at \in Saves => /\ r.session \in DOMAIN ss
                       /\ ss[r.session].user = r.user /\ ss[r.session].app = r.app
  /\ \A s \in r.todo : s \in DOMAIN ss /\ ss[s].user = r.user
  /\ r.at \in {"revoke_data", "revoke_wait"} => r.todo # {}
  /\ r.then # "spend"

Sounds(r) == Sound(r, DOMAIN tokens, sessions, DOMAIN codes)

(* An access token is that of a session of the same user for the same      *)
(* application.                                                            *)
DataOfSessions == \A c \in App, u \in User :
  IF accessData[c][u].token = 0 THEN accessData[c][u] = NoData
  ELSE /\ accessData[c][u].token \in DOMAIN sessions
       /\ sessions[accessData[c][u].token].app = c
       /\ sessions[accessData[c][u].token].user = u

RowsTyped ==
  /\ situation \in Situations
  /\ tokens \in Seq(TokenRow) /\ sessions \in Seq(SessionRow) /\ codes \in Seq(CodeRow)
  /\ used \in Seq(Nat) /\ served \in Nat
  /\ accessData \in [App -> [User -> DataRow]]

Typed == TypeOK /\ RowsTyped /\ DataOfSessions /\ \A pr \in Proc : Sounds(request[pr])

-----------------------------------------------------------------------------
(* Types, and rows that are where requests expect them.  A step changes    *)
(* some of the tables, which only grow, and at most one request.           *)
AccountsTyped ==
  /\ users' \in [User -> UserRow]
  /\ tokens' \in Seq(TokenRow) /\ used' \in Seq(Nat) /\ Len(used') = Len(tokens')
  /\ Len(tokens) <= Len(tokens')
SessionsGrow ==
  /\ sessions' \in Seq(SessionRow) /\ Len(sessions) <= Len(sessions')
  /\ \A s \in DOMAIN sessions : sessions'[s].user = sessions[s].user /\ sessions'[s].app = sessions[s].app
SessionsTyped ==
  /\ SessionsGrow
  /\ removing' \subseteq DOMAIN sessions'
  /\ accessData' \in [App -> [User -> DataRow]] /\ DataOfSessions'
OAuthTyped ==
  /\ apps' \in [App -> AppRow] /\ authorized' \subseteq App \X User
  /\ codes' \in Seq(CodeRow) /\ Len(codes) <= Len(codes')
HistoriesTyped == proven' \subseteq User \X Email /\ guesses' \in [User -> Nat]
RequestTyped(pr) ==
  /\ \A q \in Proc : q # pr => request'[q] = request[q]
  /\ request' \in [Proc -> Request]
  /\ Sound(request'[pr], DOMAIN tokens', sessions', DOMAIN codes')
Bounded == served' \in Nat /\ served' <= situation.requests /\ UNCHANGED situation

LEMMA SeqDomain == ASSUME NEW S, NEW s \in Seq(S) PROVE DOMAIN s = 1..Len(s) /\ Len(s) \in Nat
OBVIOUS

LEMMA StaysSound ==
  ASSUME NEW r, NEW ks, NEW ss, NEW cs, NEW kt, NEW st, NEW ct, Sound(r, ks, ss, cs),
         ks \subseteq kt, cs \subseteq ct, DOMAIN ss \subseteq DOMAIN st,
         \A s \in DOMAIN ss : st[s].user = ss[s].user /\ st[s].app = ss[s].app
  PROVE  Sound(r, kt, st, ct)
BY DEF Sound

LEMMA DomainsGrow ==
  ASSUME Typed, AccountsTyped, SessionsGrow, OAuthTyped
  PROVE  /\ DOMAIN tokens \subseteq DOMAIN tokens' /\ DOMAIN codes \subseteq DOMAIN codes'
         /\ DOMAIN sessions \subseteq DOMAIN sessions'
<1>1. /\ DOMAIN tokens = 1..Len(tokens) /\ DOMAIN codes = 1..Len(codes)
      /\ DOMAIN sessions = 1..Len(sessions)
      /\ Len(tokens) \in Nat /\ Len(codes) \in Nat /\ Len(sessions) \in Nat
  BY SeqDomain DEF Typed, RowsTyped
<1>2. /\ DOMAIN tokens' = 1..Len(tokens') /\ DOMAIN codes' = 1..Len(codes')
      /\ DOMAIN sessions' = 1..Len(sessions')
      /\ Len(tokens') \in Nat /\ Len(codes') \in Nat /\ Len(sessions') \in Nat
  BY SeqDomain DEF AccountsTyped, SessionsGrow, OAuthTyped
<1> QED BY <1>1, <1>2 DEF AccountsTyped, SessionsGrow, OAuthTyped

LEMMA Together ==
  ASSUME Typed, NEW pr \in Proc, Bounded, RequestTyped(pr),
         AccountsTyped, SessionsTyped, OAuthTyped, HistoriesTyped
  PROVE  Typed'
<1>1. /\ DOMAIN tokens \subseteq DOMAIN tokens' /\ DOMAIN codes \subseteq DOMAIN codes'
      /\ DOMAIN sessions \subseteq DOMAIN sessions'
  BY DomainsGrow DEF SessionsTyped
<1>2. ASSUME NEW q \in Proc PROVE Sounds(request[q])'
  <2>1. CASE q = pr
    BY <2>1 DEF RequestTyped, Sounds
  <2>2. CASE q # pr
    <3>1. Sound(request[q], DOMAIN tokens, sessions, DOMAIN codes)
      BY DEF Typed, Sounds
    <3>2. Sound(request[q], DOMAIN tokens', sessions', DOMAIN codes')
      BY <1>1, <3>1, StaysSound DEF SessionsTyped, SessionsGrow
    <3> QED BY <2>2, <3>2 DEF RequestTyped, Sounds
  <2> QED BY <2>1, <2>2
<1>3. Proc' = Proc
  BY DEF Bounded, Proc
<1>4. RowsTyped'
  BY DEF Typed, RowsTyped, Bounded, AccountsTyped, SessionsTyped, SessionsGrow, OAuthTyped
<1>5. TypeOK'
  <2>1. /\ \A k \in DOMAIN tokens' : tokens'[k] \in TokenRow
        /\ \A s \in DOMAIN sessions' : sessions'[s] \in SessionRow
        /\ \A k \in DOMAIN codes' : codes'[k] \in CodeRow
        /\ \A k \in DOMAIN used' : used'[k] \in Nat
    BY <1>4 DEF RowsTyped
  <2>2. ASSUME NEW c \in App, NEW u \in User
        PROVE  accessData'[c][u] \in DataRow /\ accessData'[c][u].token \in 0 .. Len(sessions')
    <3>1. accessData'[c][u] \in DataRow
      BY DEF SessionsTyped
    <3>2. accessData'[c][u].token = 0 \/ accessData'[c][u].token \in DOMAIN sessions'
      BY DEF SessionsTyped, DataOfSessions
    <3>3. DOMAIN sessions' = 1..Len(sessions') /\ Len(sessions') \in Nat
      BY <1>4, SeqDomain DEF RowsTyped
    <3> QED BY <3>1, <3>2, <3>3
  <2> QED BY <1>3, <2>1, <2>2
       DEF TypeOK, AccountsTyped, SessionsTyped, OAuthTyped, HistoriesTyped, RequestTyped, Bounded
<1> QED BY <1>2, <1>3, <1>4, <1>5 DEF Typed, SessionsTyped

(* What a step leaves alone stays typed.                                   *)
LEMMA Untouched ==
  ASSUME Typed
  PROVE  /\ UNCHANGED <<users, tokens, used>> => AccountsTyped
         /\ UNCHANGED <<sessions, removing, accessData>> => SessionsTyped
         /\ UNCHANGED <<apps, codes, authorized>> => OAuthTyped
         /\ UNCHANGED <<proven, guesses>> => HistoriesTyped
         /\ UNCHANGED sessions => SessionsGrow
<1>1. UNCHANGED <<users, tokens, used>> => AccountsTyped
  <2>1. Len(tokens) \in Nat
    BY DEF Typed, RowsTyped
  <2> QED BY <2>1 DEF Typed, RowsTyped, TypeOK, AccountsTyped
<1>2. UNCHANGED sessions => SessionsGrow
  <2>1. Len(sessions) \in Nat
    BY DEF Typed, RowsTyped
  <2> QED BY <2>1 DEF Typed, RowsTyped, SessionsGrow
<1>3. UNCHANGED <<sessions, removing, accessData>> => SessionsTyped
  BY <1>2 DEF Typed, RowsTyped, TypeOK, DataOfSessions, SessionsTyped
<1>4. UNCHANGED <<apps, codes, authorized>> => OAuthTyped
  <2>1. Len(codes) \in Nat
    BY DEF Typed, RowsTyped
  <2> QED BY <2>1 DEF Typed, RowsTyped, TypeOK, OAuthTyped
<1>5. UNCHANGED <<proven, guesses>> => HistoriesTyped
  BY DEF Typed, TypeOK, HistoriesTyped
<1> QED BY <1>1, <1>2, <1>3, <1>4, <1>5

LEMMA IdleTyped == Idle \in Request /\ \A ks, ss, cs : Sound(Idle, ks, ss, cs)
BY AccountStoreAssumption
   DEF Idle, Request, Phase, NoUser, UserRow, Sound, Grants, Revokes, Renews, Saves, Exchanges

LEMMA IdleFields ==
  /\ Idle.at = "idle" /\ Idle.then = "idle" /\ Idle.user = None /\ Idle.row = NoUser
  /\ Idle.email = None /\ Idle.type = "normal" /\ Idle.right = TRUE /\ Idle.trusted = FALSE
  /\ Idle.changed = FALSE /\ Idle.all = FALSE /\ Idle.token = 0 /\ Idle.session = 0
  /\ Idle.app = None /\ Idle.code = 0 /\ Idle.secret = 0 /\ Idle.todo = {}
BY DEF Idle

LEMMA BecomesTyped ==
  ASSUME Typed, NEW pr \in Proc, NEW r \in Request, Become(pr, r),
         Sound(r, DOMAIN tokens', sessions', DOMAIN codes')
  PROVE  RequestTyped(pr) /\ request'[pr] = r
BY DEF Become, RequestTyped, Typed, TypeOK

LEMMA FinishTyped ==
  ASSUME Typed, NEW pr \in Proc, Finish(pr)
  PROVE  RequestTyped(pr) /\ request'[pr] = Idle
<1>1. Idle \in Request /\ Sound(Idle, DOMAIN tokens', sessions', DOMAIN codes')
  BY IdleTyped
<1> QED BY <1>1, BecomesTyped DEF Finish

LEMMA KeepsRequest ==
  ASSUME Typed, NEW pr \in Proc, UNCHANGED request, AccountsTyped, SessionsGrow, OAuthTyped
  PROVE  RequestTyped(pr)
<1>1. Sound(request[pr], DOMAIN tokens, sessions, DOMAIN codes) /\ request \in [Proc -> Request]
  BY DEF Typed, TypeOK, Sounds
<1>2. Sound(request[pr], DOMAIN tokens', sessions', DOMAIN codes')
  BY <1>1, DomainsGrow, StaysSound DEF SessionsGrow
<1> QED BY <1>1, <1>2 DEF RequestTyped

LEMMA InBackground ==
  ASSUME Typed, UNCHANGED <<situation, request, served>>,
         AccountsTyped, SessionsTyped, OAuthTyped, HistoriesTyped
  PROVE  Typed'
<1>1. 1 \in Proc
  BY AccountStoreAssumption DEF Typed, RowsTyped, Proc
<1>2. RequestTyped(1)
  BY <1>1, KeepsRequest DEF SessionsTyped
<1>3. Bounded
  BY DEF Typed, RowsTyped, TypeOK, Bounded
<1> QED BY <1>1, <1>2, <1>3, Together

(* Accepting a request, and the steps of one.                              *)
LEMMA StepsBounded ==
  ASSUME Typed, NEW pr \in Proc
  PROVE  /\ \A op : Accept(pr, op) => Bounded
         /\ \A phase : At(pr, phase) => Bounded
<1>1. served \in Nat /\ served <= situation.requests /\ situation.requests \in Nat
  BY AccountStoreAssumption DEF Typed, RowsTyped, TypeOK
<1> QED BY <1>1 DEF Accept, At, Bounded

LEMMA Current ==
  ASSUME Typed, NEW pr \in Proc
  PROVE  /\ request[pr] \in Request /\ Sound(request[pr], DOMAIN tokens, sessions, DOMAIN codes)
         /\ \A u \in User : users[u] \in UserRow
BY DEF Typed, TypeOK, Sounds

LEMMA GotoTyped ==
  ASSUME Typed, NEW pr \in Proc, NEW phase \in Phase, Goto(pr, phase),
         phase # "idle" =>
           Sound([request[pr] EXCEPT !.at = phase], DOMAIN tokens', sessions', DOMAIN codes')
  PROVE  RequestTyped(pr)
<1>1. [request[pr] EXCEPT !.at = phase] \in Request
  BY Current DEF Request
<1> QED BY <1>1, BecomesTyped, FinishTyped DEF Goto

(* A step that changes nothing but one request.                            *)
LEMMA OnlyRequest ==
  ASSUME Typed, NEW pr \in Proc, Bounded, NEW r \in Request, Become(pr, r),
         Sound(r, DOMAIN tokens, sessions, DOMAIN codes),
         UNCHANGED <<users, tokens, sessions, removing, accessData, apps, codes, authorized,
                     proven, guesses, used>>
  PROVE  Typed'
<1>1. Sound(r, DOMAIN tokens', sessions', DOMAIN codes')
  OBVIOUS
<1> QED BY <1>1, BecomesTyped, Untouched, Together

(* Signing up, verifying addresses.                                        *)
LEMMA SignUpTyped ==
  ASSUME Typed, NEW pr \in Proc, NEW u \in User, NEW e \in Email,
         CreateUserFromSignup(pr, u, e) \/ CreateUserWithToken(pr, u, e)
  PROVE  Typed'
<1> USE DEF accountTables, sessionTables, oauthTables, histories
<1>1. \A verified \in BOOLEAN : \A phase \in {"idle", "mail"} :
        LET r == [SigningUp(u, e, verified) EXCEPT !.then = phase]
        IN  r \in Request /\ Sound(r, DOMAIN tokens, sessions, DOMAIN codes)
  <2> TAKE verified \in BOOLEAN
  <2> TAKE phase \in {"idle", "mail"}
  <2> DEFINE row == [NoUser EXCEPT !.status = "live", !.type = FirstType, !.email = e,
                       !.verified = verified]
             q == [SigningUp(u, e, verified) EXCEPT !.then = phase]
  <2>1. row \in UserRow
    BY DEF FirstType, NoUser, UserRow
  <2>2. SigningUp(u, e, verified) = [Idle EXCEPT !.at = "save", !.user = u, !.email = e, !.row = row]
    BY DEF SigningUp
  <2> HIDE DEF row
  <2> DEFINE base == [Idle EXCEPT !.at = "save", !.user = u, !.email = e, !.row = row]
  <2>2a. base \in Request /\ base.at = "save" /\ base.user = u /\ base.todo = {}
    BY <2>1, IdleTyped, IdleFields DEF Request, Phase
  <2>2b. q = [base EXCEPT !.then = phase]
    BY <2>2
  <2> HIDE DEF base
  <2>3. q \in Request
    BY <2>2a, <2>2b DEF Request, Phase
  <2>4. q.at = "save" /\ q.user = u /\ q.then = phase /\ q.todo = {}
    BY <2>2a, <2>2b DEF Request
  <2> HIDE DEF q
  <2>5. Sound(q, DOMAIN tokens, sessions, DOMAIN codes)
    BY <2>4 DEF Sound, Grants, Revokes, Renews, Saves, Exchanges
  <2> QED BY <2>3, <2>5 DEF q
<1>2. SigningUp(u, e, TRUE) = [SigningUp(u, e, TRUE) EXCEPT !.then = "idle"]
  BY IdleTyped, IdleFields DEF SigningUp, Request
<1>3. Bounded
  BY StepsBounded DEF CreateUserFromSignup, CreateUserWithToken
<1>4. CASE CreateUserFromSignup(pr, u, e)
  BY <1>1, <1>3, <1>4, OnlyRequest DEF CreateUserFromSignup, Unchanged
<1>5. CASE CreateUserWithToken(pr, u, e)
  <2>1. RequestTyped(pr)
    BY <1>1, <1>2, <1>5, BecomesTyped DEF CreateUserWithToken
  <2>2. HistoriesTyped
    BY <1>5 DEF CreateUserWithToken, HistoriesTyped, Typed, TypeOK
  <2> QED BY <1>3, <1>5, <2>1, <2>2, Untouched, Together DEF CreateUserWithToken
<1> QED BY <1>4, <1>5

LEMMA SaveTyped == ASSUME Typed, NEW pr \in Proc, Save(pr) PROVE Typed'
<1> USE DEF accountTables, sessionTables, oauthTables, histories
<1> DEFINE r == request[pr]
<1>1. /\ r.at = "save" /\ r.then \in {"idle", "mail"} /\ r.user \in User /\ r \in Request
  BY Current DEF Save, At, Sound
<1>2. Bounded
  BY StepsBounded DEF Save
<1>3. UNCHANGED <<tokens, sessions, removing, accessData, apps, codes, authorized,
                  proven, guesses, used>>
  BY DEF Save
<1>4. CASE EmailTaken(r.user, r.email)
  BY <1>2, <1>3, <1>4, FinishTyped, Untouched, Together DEF Save
<1>5. CASE ~EmailTaken(r.user, r.email)
  <2>1. Goto(pr, r.then) /\ users' = [users EXCEPT ![r.user] = r.row]
    BY <1>5 DEF Save
  <2>2. Sound([r EXCEPT !.at = "mail"], DOMAIN tokens', sessions', DOMAIN codes')
    BY <1>1, <1>3, Current DEF Sound, Request, Grants, Revokes, Renews, Saves, Exchanges
  <2>3. RequestTyped(pr)
    BY <1>1, <2>1, <2>2, GotoTyped DEF Phase
  <2>4. AccountsTyped
    <3>1. users' \in [User -> UserRow]
      BY <1>1, <2>1 DEF Request, Typed, TypeOK
    <3> QED BY <1>3, <3>1 DEF AccountsTyped, Typed, RowsTyped, TypeOK
  <2> QED BY <1>2, <1>3, <2>3, <2>4, Untouched, Together
<1> QED BY <1>4, <1>5

(* A mail is sent: its token is the latest.                                *)
LEMMA MailTyped ==
  ASSUME Typed, NEW pr \in Proc, SendEmailVerification(pr) \/ CreatePasswordRecoveryToken(pr)
  PROVE  Typed'
<1> USE DEF accountTables, sessionTables, oauthTables, histories
<1> DEFINE r == request[pr]
<1>1. PICK type \in {"verify_email", "password_recovery"} :
        /\ Mailing(pr, type) /\ used' = Append(used, 0) /\ Finish(pr) /\ r.at \in {"mail", "recover"}
        /\ UNCHANGED <<users, sessionTables, oauthTables, proven, guesses, lost>>
  BY DEF SendEmailVerification, CreatePasswordRecoveryToken, At
<1>2. Bounded
  BY StepsBounded DEF SendEmailVerification, CreatePasswordRecoveryToken
<1>3. r.user \in User /\ r.email \in Email \cup {None}
  BY <1>1, Current DEF Sound, Request
<1>4. AccountsTyped
  <2> DEFINE t == [type |-> type, user |-> r.user, email |-> r.email, live |-> TRUE, fresh |-> TRUE]
  <2>1. t \in TokenRow /\ tokens' = Append(tokens, t)
    BY <1>1, <1>3 DEF Mailing, TokenRow
  <2>2. tokens \in Seq(TokenRow) /\ used \in Seq(Nat) /\ Len(used) = Len(tokens) /\ Len(tokens) \in Nat
    BY DEF Typed, RowsTyped, TypeOK
  <2> HIDE DEF t
  <2>3. tokens' \in Seq(TokenRow) /\ Len(tokens') = Len(tokens) + 1
    BY <2>1, <2>2, AppendProperties
  <2>4. used' \in Seq(Nat) /\ Len(used') = Len(used) + 1
    BY <1>1, <2>2, AppendProperties
  <2> QED BY <1>1, <2>2, <2>3, <2>4 DEF AccountsTyped, Typed, TypeOK
<1> QED BY <1>1, <1>2, <1>4, FinishTyped, Untouched, Together

LEMMA AskVerificationTyped ==
  ASSUME Typed, NEW pr \in Proc, NEW u \in User,
         sendVerificationEmail(pr, u) \/ SendPasswordReset(pr, u)
  PROVE  Typed'
<1> USE DEF accountTables, sessionTables, oauthTables, histories
<1>1. PICK phase \in {"mail", "recover"} :
        Become(pr, [Idle EXCEPT !.at = phase, !.user = u, !.email = users[u].email])
  BY DEF sendVerificationEmail, SendPasswordReset
<1> DEFINE r == [Idle EXCEPT !.at = phase, !.user = u, !.email = users[u].email]
<1>2. r \in Request /\ Sound(r, DOMAIN tokens, sessions, DOMAIN codes)
  <2>1. users[u].email \in Email \cup {None}
    BY Current DEF UserRow
  <2>2. r \in Request
    BY <2>1, IdleTyped DEF Request, Phase
  <2>3. r.at = phase /\ r.user = u /\ r.then = "idle" /\ r.todo = {}
    BY IdleTyped, IdleFields DEF Request
  <2> HIDE DEF r
  <2> QED BY <2>2, <2>3 DEF Sound, Grants, Revokes, Renews, Saves, Exchanges
<1>3. Bounded
  BY StepsBounded DEF sendVerificationEmail, SendPasswordReset
<1> QED BY <1>1, <1>2, <1>3, OnlyRequest DEF sendVerificationEmail, SendPasswordReset, Unchanged

LEMMA VerifyTyped ==
  ASSUME Typed, NEW pr \in Proc, NEW k \in DOMAIN tokens,
         VerifyEmailFromToken(pr, k) \/ ResetPasswordFromToken(pr, k)
  PROVE  Typed'
<1> USE DEF accountTables, sessionTables, oauthTables, histories
<1>1. tokens[k] \in TokenRow
  BY DEF Typed, TypeOK
<1>2. k \in Nat
  BY SeqDomain DEF Typed, RowsTyped
<1>3. Bounded
  BY StepsBounded DEF VerifyEmailFromToken, ResetPasswordFromToken
<1>4. CASE VerifyEmailFromToken(pr, k)
  <2> DEFINE r == [Idle EXCEPT !.at = "verify", !.user = tokens[k].user, !.email = tokens[k].email,
                               !.token = k]
  <2>1. Become(pr, r) /\ tokens[k].email \in Email
        /\ proven' = proven \cup {<<tokens[k].user, tokens[k].email>>}
        /\ UNCHANGED <<accountTables, sessionTables, oauthTables, guesses, used, lost>>
    BY <1>1, <1>4 DEF VerifyEmailFromToken, TokenRow
  <2>2. r \in Request /\ Sound(r, DOMAIN tokens, sessions, DOMAIN codes)
    <3>1. r \in Request
      BY <1>1, <1>2, IdleTyped DEF Request, Phase, TokenRow
    <3>2. /\ r.at = "verify" /\ r.user = tokens[k].user /\ r.then = "idle" /\ r.todo = {}
          /\ r.token = k
      BY IdleTyped, IdleFields DEF Request
    <3> HIDE DEF r
    <3> QED BY <1>1, <3>1, <3>2 DEF TokenRow, Sound, Grants, Revokes, Renews, Saves, Exchanges
  <2> HIDE DEF r
  <2>3. RequestTyped(pr)
    BY <2>1, <2>2, BecomesTyped
  <2>4. HistoriesTyped
    BY <1>1, <2>1 DEF HistoriesTyped, Typed, TypeOK, TokenRow
  <2> QED BY <1>3, <2>1, <2>3, <2>4, Untouched, Together
<1>5. CASE ResetPasswordFromToken(pr, k)
  <2> DEFINE r == [Idle EXCEPT !.at = "password", !.user = tokens[k].user, !.token = k]
  <2>1. Become(pr, r) /\ Unchanged
    BY <1>5 DEF ResetPasswordFromToken
  <2>2. r \in Request /\ Sound(r, DOMAIN tokens, sessions, DOMAIN codes)
    <3>1. r \in Request
      BY <1>1, <1>2, IdleTyped DEF Request, Phase, TokenRow
    <3>2. /\ r.at = "password" /\ r.user = tokens[k].user /\ r.then = "idle" /\ r.todo = {}
          /\ r.token = k
      BY IdleTyped, IdleFields DEF Request
    <3> HIDE DEF r
    <3> QED BY <1>1, <3>1, <3>2 DEF TokenRow, Sound, Grants, Revokes, Renews, Saves, Exchanges
  <2> HIDE DEF r
  <2> QED BY <1>3, <2>1, <2>2, OnlyRequest DEF Unchanged
<1> QED BY <1>4, <1>5

LEMMA VerifyEmailTyped == ASSUME Typed, NEW pr \in Proc, VerifyEmail(pr) PROVE Typed'
<1> USE DEF accountTables, sessionTables, oauthTables, histories
<1> DEFINE r == request[pr]
<1>1. /\ r.at = "verify" /\ r.user \in User /\ r.email \in Email \cup {None}
      /\ r.token \in DOMAIN tokens
  BY Current DEF VerifyEmail, At, Sound, Request
<1>2. Bounded
  BY StepsBounded DEF VerifyEmail
<1>3. UNCHANGED <<tokens, sessions, removing, accessData, apps, codes, authorized, proven, guesses>>
  BY DEF VerifyEmail
<1>4. CASE EmailTaken(r.user, r.email)
  BY <1>2, <1>3, <1>4, FinishTyped, Untouched, Together DEF VerifyEmail
<1>5. CASE ~EmailTaken(r.user, r.email)
  <2>1. /\ Goto(pr, "spend")
        /\ users' = [users EXCEPT ![r.user].email = r.email, ![r.user].verified = TRUE]
        /\ used' = [used EXCEPT ![r.token] = @ + 1]
    BY <1>5 DEF VerifyEmail
  <2>2. Sound([r EXCEPT !.at = "spend"], DOMAIN tokens', sessions', DOMAIN codes')
    BY <1>1, <1>3, Current DEF Sound, Request, Grants, Revokes, Renews, Saves, Exchanges
  <2>3. RequestTyped(pr)
    BY <1>1, <2>1, <2>2, GotoTyped DEF Phase
  <2>4. users' \in [User -> UserRow]
    <3>1. [users[r.user] EXCEPT !.email = r.email, !.verified = TRUE] \in UserRow
      BY <1>1, Current DEF UserRow
    <3>2. users' = [users EXCEPT ![r.user] = [users[r.user] EXCEPT !.email = r.email,
                                                                  !.verified = TRUE]]
      BY <1>1, <2>1 DEF Typed, TypeOK
    <3> QED BY <1>1, <3>1, <3>2 DEF Typed, TypeOK
  <2>5. used' \in Seq(Nat) /\ Len(used') = Len(used)
    BY <1>1, <2>1 DEF Typed, RowsTyped, TypeOK
  <2>6. AccountsTyped
    BY <1>3, <2>4, <2>5 DEF AccountsTyped, Typed, RowsTyped, TypeOK
  <2> QED BY <1>2, <1>3, <2>3, <2>6, Untouched, Together
<1> QED BY <1>4, <1>5

LEMMA DeleteTokenTyped == ASSUME Typed, NEW pr \in Proc, DeleteToken(pr) PROVE Typed'
<1> USE DEF accountTables, sessionTables, oauthTables, histories
<1>1. request[pr].token \in DOMAIN tokens
  BY Current DEF DeleteToken, At, Sound
<1>2. Bounded
  BY StepsBounded DEF DeleteToken
<1>3. /\ Finish(pr) /\ tokens' = [tokens EXCEPT ![request[pr].token].live = FALSE]
      /\ UNCHANGED <<users, sessions, removing, accessData, apps, codes, authorized, proven,
                     guesses, used>>
  BY DEF DeleteToken, Delete
<1>4. tokens' \in Seq(TokenRow) /\ Len(tokens') = Len(tokens)
  <2>1. tokens \in Seq(TokenRow) /\ tokens[request[pr].token] \in TokenRow
    BY <1>1 DEF Typed, RowsTyped, TypeOK
  <2>2. [tokens[request[pr].token] EXCEPT !.live = FALSE] \in TokenRow
    BY <2>1 DEF TokenRow
  <2> QED BY <1>1, <1>3, <2>1, <2>2
<1>5. AccountsTyped
  BY <1>3, <1>4 DEF AccountsTyped, Typed, RowsTyped, TypeOK
<1> QED BY <1>2, <1>3, <1>5, FinishTyped, Untouched, Together

(* Passwords and logins.                                                   *)
LEMMA TryTyped ==
  ASSUME Typed, NEW pr \in Proc, Bounded, NEW u \in User, NEW right \in BOOLEAN,
         NEW r \in Request, TryPassword(pr, u, right, r),
         Sound(r, DOMAIN tokens, sessions, DOMAIN codes)
  PROVE  Typed'
<1> USE DEF accountTables, sessionTables, oauthTables, histories
<1>1. Become(pr, r) /\ UNCHANGED <<accountTables, sessionTables, oauthTables, proven, used, lost>>
  BY DEF TryPassword
<1>2. RequestTyped(pr)
  BY <1>1, BecomesTyped
<1>3. HistoriesTyped
  BY <1>1 DEF TryPassword, HistoriesTyped, Typed, TypeOK
<1> QED BY <1>1, <1>2, <1>3, Untouched, Together

LEMMA LoginTyped ==
  ASSUME Typed, NEW pr \in Proc, NEW u \in User, NEW right \in BOOLEAN,
         login(pr, u, right) \/ UpdatePasswordAsUser(pr, u, right)
  PROVE  Typed'
<1>1. PICK phase \in {"session", "password"} : TryPassword(pr, u, right, Trying(u, right, phase))
  BY DEF login, UpdatePasswordAsUser
<1> DEFINE r == [Idle EXCEPT !.at = "attempt", !.user = u, !.row = users[u], !.right = right,
                   !.then = phase]
<1>2. r \in Request
  <2>1. phase \in Phase /\ "attempt" \in Phase /\ users[u] \in UserRow
    BY Current DEF Phase
  <2> QED BY <2>1, IdleTyped DEF Request
<1>3. r.at = "attempt" /\ r.user = u /\ r.then = phase /\ r.token = 0 /\ r.todo = {}
  BY IdleTyped, IdleFields DEF Request
<1>4. Trying(u, right, phase) = r
  BY DEF Trying
<1> HIDE DEF r
<1>5. Sound(r, DOMAIN tokens, sessions, DOMAIN codes)
  BY <1>3 DEF Sound, Grants, Revokes, Renews, Saves, Exchanges
<1>6. Bounded
  BY StepsBounded DEF login, UpdatePasswordAsUser
<1> QED BY <1>1, <1>2, <1>4, <1>5, <1>6, TryTyped

LEMMA AttemptTyped == ASSUME Typed, NEW pr \in Proc, UpdateFailedPasswordAttempts(pr) PROVE Typed'
<1> USE DEF accountTables, sessionTables, oauthTables, histories
<1> DEFINE r == request[pr]
<1>1. /\ r.at = "attempt" /\ r.user \in User /\ r.row \in UserRow
      /\ r.then \in {"session", "password", "update"} /\ r.token = 0
  BY Current DEF UpdateFailedPasswordAttempts, At, Sound, Request
<1>2. Bounded
  BY StepsBounded DEF UpdateFailedPasswordAttempts
<1>3. /\ UNCHANGED <<tokens, sessions, removing, accessData, apps, codes, authorized, proven, used>>
      /\ users' = [users EXCEPT ![r.user].attempts = Attempts(r)]
      /\ guesses' = IF r.right THEN [guesses EXCEPT ![r.user] = 0] ELSE guesses
      /\ Goto(pr, r.then) \/ Finish(pr)
  BY DEF UpdateFailedPasswordAttempts
<1>4. RequestTyped(pr)
  <2>1. CASE Goto(pr, r.then)
    <3>1. Sound([r EXCEPT !.at = r.then], DOMAIN tokens', sessions', DOMAIN codes')
      BY <1>1, <1>3, Current DEF Sound, Request, Grants, Revokes, Renews, Saves, Exchanges
    <3> QED BY <1>1, <2>1, <3>1, GotoTyped DEF Phase
  <2> QED BY <1>3, <2>1, FinishTyped
<1>5. AccountsTyped
  <2>1. Attempts(r) \in Nat
    BY <1>1 DEF Attempts, UserRow
  <2>2. users' \in [User -> UserRow]
    BY ZenonT(60), <1>1, <1>3, <2>1 DEF Typed, TypeOK, UserRow
  <2> QED BY <1>3, <2>2 DEF AccountsTyped, Typed, RowsTyped, TypeOK
<1>6. HistoriesTyped
  BY <1>1, <1>3 DEF HistoriesTyped, Typed, TypeOK
<1> QED BY <1>2, <1>3, <1>4, <1>5, <1>6, Untouched, Together

LEMMA PasswordTyped == ASSUME Typed, NEW pr \in Proc, UpdatePassword(pr) PROVE Typed'
<1> USE DEF accountTables, sessionTables, oauthTables, histories
<1> DEFINE r == request[pr]
<1>1. r.at = "password" /\ r.user \in User /\ r.token \in DOMAIN tokens \cup {0}
  BY Current DEF UpdatePassword, At, Sound, Request
<1>2. Bounded
  BY StepsBounded DEF UpdatePassword
<1>3. /\ UNCHANGED <<tokens, sessions, removing, accessData, apps, codes, authorized, proven>>
      /\ users' = [users EXCEPT ![r.user].attempts = 0]
      /\ guesses' = [guesses EXCEPT ![r.user] = 0]
      /\ used' = IF r.token = 0 THEN used ELSE [used EXCEPT ![r.token] = @ + 1]
      /\ Goto(pr, IF r.token = 0 THEN "idle" ELSE "spend")
  BY DEF UpdatePassword
<1>4. RequestTyped(pr)
  <2>1. CASE r.token = 0
    BY <1>3, <2>1, GotoTyped DEF Phase
  <2>2. CASE r.token # 0
    <3>1. Sound([r EXCEPT !.at = "spend"], DOMAIN tokens', sessions', DOMAIN codes')
      BY <1>1, <1>3, <2>2, Current DEF Sound, Request, Grants, Revokes, Renews, Saves, Exchanges
    <3> QED BY <1>3, <2>2, <3>1, GotoTyped DEF Phase
  <2> QED BY <2>1, <2>2
<1>5. users' \in [User -> UserRow]
  BY ZenonT(60), <1>1, <1>3 DEF Typed, TypeOK, UserRow
<1>6. used' \in Seq(Nat) /\ Len(used') = Len(used)
  BY <1>1, <1>3 DEF Typed, RowsTyped, TypeOK
<1>7. AccountsTyped
  BY <1>3, <1>5, <1>6 DEF AccountsTyped, Typed, RowsTyped, TypeOK
<1>8. HistoriesTyped
  BY <1>1, <1>3 DEF HistoriesTyped, Typed, TypeOK
<1> QED BY <1>2, <1>3, <1>4, <1>7, <1>8, Untouched, Together

(* Requests of admins, and for deletion.                                   *)
LEMMA OthersTyped ==
  ASSUME Typed, NEW pr \in Proc, NEW actor \in User, NEW u \in User,
         UpdatePasswordByUserIdSendEmail(pr, actor, u) \/ DeleteUser(pr, actor, u)
  PROVE  Typed'
<1> USE DEF accountTables, sessionTables, oauthTables, histories
<1>1. PICK phase \in {"password", "delete"}, then \in {"idle", "list"} :
        Become(pr, [Idle EXCEPT !.at = phase, !.user = u, !.then = then])
  <2>1. [Idle EXCEPT !.at = "password", !.user = u]
          = [Idle EXCEPT !.at = "password", !.user = u, !.then = "idle"]
    BY IdleTyped, IdleFields DEF Request
  <2> QED BY <2>1 DEF UpdatePasswordByUserIdSendEmail, DeleteUser
<1> DEFINE r == [Idle EXCEPT !.at = phase, !.user = u, !.then = then]
<1>2. r \in Request
  <2>1. phase \in Phase /\ then \in Phase
    BY DEF Phase
  <2> QED BY <2>1, IdleTyped DEF Request
<1>3. r.at = phase /\ r.user = u /\ r.then = then /\ r.token = 0 /\ r.todo = {}
  BY IdleTyped, IdleFields DEF Request
<1> HIDE DEF r
<1>4. Sound(r, DOMAIN tokens, sessions, DOMAIN codes)
  BY <1>3 DEF Sound, Grants, Revokes, Renews, Saves, Exchanges
<1>5. Bounded
  BY StepsBounded DEF UpdatePasswordByUserIdSendEmail, DeleteUser
<1> QED BY <1>1, <1>2, <1>4, <1>5, OnlyRequest
     DEF r, UpdatePasswordByUserIdSendEmail, DeleteUser, Unchanged

(* Changes to a user's row.                                                *)
LEMMA UpdatingIs ==
  ASSUME Typed, NEW u \in User, NEW e \in Email \cup {None}
  PROVE  LET r == Updating(u, e) IN
         /\ r \in Request /\ r.at = "update" /\ r.user = u /\ r.email = e /\ r.type = users[u].type
         /\ r.then = "idle" /\ r.token = 0 /\ r.todo = {} /\ ~r.trusted /\ ~r.changed
         /\ ~r.all /\ r.session = 0 /\ r.code = 0
<1>1. users[u].type \in {"normal", "moderator", "admin"} /\ "update" \in Phase
  BY DEF Typed, TypeOK, UserRow, Phase
<1> QED BY <1>1, IdleTyped, IdleFields DEF Request, Updating

LEMMA ChangeTyped ==
  ASSUME Typed, NEW pr \in Proc, NEW actor \in User, NEW u \in User, NEW e \in Email,
         NEW right \in BOOLEAN, updateUser(pr, actor, u, e, right)
  PROVE  Typed'
<1> USE DEF accountTables, sessionTables, oauthTables, histories
<1> DEFINE r == Updating(u, e)
           q == [r EXCEPT !.at = "attempt", !.row = users[u], !.right = right, !.then = "update"]
<1>1. users[u] \in UserRow /\ "update" \in Phase /\ "attempt" \in Phase
  BY Current DEF Phase
<1>2. /\ r \in Request /\ r.at = "update" /\ r.user = u /\ r.then = "idle"
      /\ r.token = 0 /\ r.todo = {}
  BY UpdatingIs
<1>3. \/ TryPassword(pr, u, right, q)
      \/ Become(pr, r) /\ Unchanged
  BY DEF updateUser
<1> HIDE DEF r
<1>4. /\ q \in Request /\ q.at = "attempt" /\ q.user = u /\ q.then = "update"
      /\ q.token = 0 /\ q.todo = {}
  BY <1>1, <1>2 DEF Request
<1> HIDE DEF q
<1>5. Bounded
  BY StepsBounded DEF updateUser
<1>6. CASE TryPassword(pr, u, right, q)
  <2>1. Sound(q, DOMAIN tokens, sessions, DOMAIN codes)
    BY <1>4 DEF Sound, Grants, Revokes, Renews, Saves, Exchanges
  <2> QED BY <1>4, <1>5, <1>6, <2>1, TryTyped
<1>7. CASE Become(pr, r) /\ Unchanged
  <2>1. Sound(r, DOMAIN tokens, sessions, DOMAIN codes)
    BY <1>2 DEF Sound, Grants, Revokes, Renews, Saves, Exchanges
  <2> QED BY <1>2, <1>5, <1>7, <2>1, OnlyRequest DEF Unchanged
<1> QED BY <1>3, <1>6, <1>7

LEMMA RecheckTyped == ASSUME Typed, NEW pr \in Proc, UpdateUser(pr) PROVE Typed'
<1> USE DEF accountTables, sessionTables, oauthTables, histories
<1> DEFINE r == request[pr]
           changed == r.email # users[r.user].email
           q == [r EXCEPT !.at = "read", !.changed = changed]
<1>1. /\ r.at = "update" /\ r.user \in User /\ r \in Request
      /\ Sound(r, DOMAIN tokens, sessions, DOMAIN codes)
  BY Current DEF UpdateUser, At, Sound
<1>2. Unchanged /\ Bounded /\ (Become(pr, q) \/ Finish(pr))
  BY StepsBounded DEF UpdateUser
<1>3. CASE Become(pr, q)
  <2>1. "read" \in Phase
    BY DEF Phase
  <2>2. /\ q \in Request /\ q.at = "read" /\ q.user = r.user /\ q.then = r.then
        /\ q.todo = r.todo
    <3>1. changed \in BOOLEAN
      OBVIOUS
    <3> HIDE DEF changed
    <3> QED BY <1>1, <2>1, <3>1 DEF Request
  <2> HIDE DEF q
  <2>3. Sound(q, DOMAIN tokens, sessions, DOMAIN codes)
    BY <1>1, <2>2 DEF Sound, Grants, Revokes, Renews, Saves, Exchanges
  <2> QED BY <1>2, <1>3, <2>2, <2>3, OnlyRequest DEF Unchanged
<1>4. CASE Finish(pr)
  BY <1>2, <1>4, IdleTyped, OnlyRequest DEF Finish, Unchanged
<1> QED BY <1>2, <1>3, <1>4

LEMMA ChangeTypeTyped ==
  ASSUME Typed, NEW pr \in Proc, NEW actor \in User, NEW u \in User,
         NEW type \in {"normal", "moderator", "admin"}, UpdateUserType(pr, actor, u, type)
  PROVE  Typed'
<1> USE DEF accountTables, sessionTables, oauthTables, histories
<1> DEFINE base == Updating(u, users[u].email)
           r == [base EXCEPT !.at = "read", !.type = type, !.trusted = TRUE]
<1>1. users[u].email \in Email \cup {None} /\ "read" \in Phase
  BY Current DEF UserRow, Phase
<1>2. base \in Request /\ base.user = u /\ base.then = "idle" /\ base.todo = {}
  BY <1>1, UpdatingIs
<1>3. Become(pr, r) /\ Unchanged /\ Bounded
  BY StepsBounded DEF UpdateUserType
<1> HIDE DEF base
<1>4. /\ r \in Request /\ r.at = "read" /\ r.user = u /\ r.then = "idle" /\ r.todo = {}
  BY <1>1, <1>2 DEF Request
<1> HIDE DEF r
<1>5. Sound(r, DOMAIN tokens, sessions, DOMAIN codes)
  BY <1>4 DEF Sound, Grants, Revokes, Renews, Saves, Exchanges
<1> QED BY <1>3, <1>4, <1>5, OnlyRequest DEF Unchanged

LEMMA ReadTyped == ASSUME Typed, NEW pr \in Proc, ReadOldUser(pr) PROVE Typed'
<1> USE DEF accountTables, sessionTables, oauthTables, histories
<1> DEFINE r == request[pr]
           q == [r EXCEPT !.at = "write", !.row = users[r.user]]
<1>1. r.at = "read" /\ r.user \in User /\ r \in Request /\ Sound(r, DOMAIN tokens, sessions, DOMAIN codes)
  BY Current DEF ReadOldUser, At, Sound
<1>2. users[r.user] \in UserRow /\ "write" \in Phase
  BY <1>1, Current DEF Phase
<1>3. /\ q \in Request /\ q.at = "write" /\ q.user = r.user /\ q.then = r.then /\ q.todo = r.todo
      /\ q.app = r.app
  BY <1>1, <1>2 DEF Request
<1>4. Become(pr, q) /\ Unchanged /\ Bounded
  BY StepsBounded DEF ReadOldUser, Unchanged
<1> HIDE DEF q
<1>5. Sound(q, DOMAIN tokens, sessions, DOMAIN codes)
  BY <1>1, <1>3 DEF Sound, Grants, Revokes, Renews, Saves, Exchanges
<1> QED BY <1>3, <1>4, <1>5, OnlyRequest DEF Unchanged

LEMMA UpdateTyped == ASSUME Typed, NEW pr \in Proc, Update(pr) PROVE Typed'
<1> USE DEF accountTables, sessionTables, oauthTables, histories
<1> DEFINE r == request[pr]
           email == IF r.changed THEN r.email ELSE None
           q == [r EXCEPT !.at = "mail", !.email = email]
<1>1. /\ r.at = "write" /\ r.user \in User /\ r \in Request
      /\ Sound(r, DOMAIN tokens, sessions, DOMAIN codes)
  BY Current DEF Update, At, Sound
<1>2. /\ r.row \in UserRow /\ r.email \in Email \cup {None} /\ "mail" \in Phase
      /\ r.type \in {"normal", "moderator", "admin"} /\ email \in Email \cup {None}
  BY <1>1 DEF Phase, Request
<1>3. /\ UNCHANGED <<tokens, sessions, removing, accessData, apps, codes, authorized,
                     proven, guesses, used>>
      /\ Bounded
  BY StepsBounded DEF Update
<1>4. CASE UNCHANGED users /\ Finish(pr)
  BY <1>3, <1>4, FinishTyped, Untouched, Together
<1>5. CASE users' = [users EXCEPT ![r.user] = UpdatedUser(r)] /\ (Become(pr, q) \/ Finish(pr))
  <2>1. UpdatedUser(r) \in UserRow
    <3>1. EmailVerified(r) \in BOOLEAN
      BY <1>2 DEF EmailVerified, UserRow
    <3> QED BY <1>2, <3>1 DEF UpdatedUser, UserRow
  <2>2. AccountsTyped
    <3>1. users' \in [User -> UserRow]
      BY <1>1, <1>5, <2>1 DEF Typed, TypeOK
    <3> QED BY <1>3, <3>1 DEF AccountsTyped, Typed, RowsTyped, TypeOK
  <2>3. RequestTyped(pr)
    <3>1. CASE Become(pr, q)
      <4> HIDE DEF email
      <4>1. /\ q \in Request /\ q.at = "mail" /\ q.user = r.user /\ q.then = r.then /\ q.todo = r.todo
            /\ q.app = r.app
        BY <1>1, <1>2 DEF Request
      <4> HIDE DEF q
      <4>2. Sound(q, DOMAIN tokens', sessions', DOMAIN codes')
        BY <1>1, <1>3, <4>1 DEF Sound, Grants, Revokes, Renews, Saves, Exchanges
      <4> QED BY <3>1, <4>1, <4>2, BecomesTyped
    <3> QED BY <1>5, <3>1, FinishTyped
  <2> QED BY <1>3, <2>2, <2>3, Untouched, Together
<1>6. \/ UNCHANGED users /\ Finish(pr)
      \/ users' = [users EXCEPT ![r.user] = UpdatedUser(r)] /\ (Become(pr, q) \/ Finish(pr))
  <2>1. [r EXCEPT !.at = "mail", !.email = IF r.changed THEN @ ELSE None] = q
    OBVIOUS
  <2> HIDE DEF q
  <2> QED BY <2>1 DEF Update
<1> QED BY <1>4, <1>5, <1>6

LEMMA DeleteRowTyped == ASSUME Typed, NEW pr \in Proc, DeleteRow(pr) PROVE Typed'
<1> USE DEF accountTables, sessionTables, oauthTables, histories
<1> DEFINE r == request[pr]
<1>1. r.at = "delete" /\ r.user \in User
  BY Current DEF DeleteRow, At, Sound
<1>2. /\ UNCHANGED <<tokens, sessions, removing, accessData, apps, codes, authorized,
                     proven, guesses, used>>
      /\ users' = [users EXCEPT ![r.user].status = "deleted"] /\ Goto(pr, "list") /\ Bounded
  BY StepsBounded DEF DeleteRow
<1>3. Sound([r EXCEPT !.at = "list"], DOMAIN tokens', sessions', DOMAIN codes')
  BY <1>1, <1>2, Current DEF Sound, Request, Grants, Revokes, Renews, Saves, Exchanges
<1>4. RequestTyped(pr)
  BY <1>2, <1>3, GotoTyped DEF Phase
<1>5. AccountsTyped
  <2>1. users' \in [User -> UserRow]
    BY ZenonT(60), <1>1, <1>2 DEF Typed, TypeOK, UserRow
  <2> QED BY <1>2, <2>1 DEF AccountsTyped, Typed, RowsTyped, TypeOK
<1> QED BY <1>2, <1>4, <1>5, Untouched, Together

(* Sessions.                                                               *)
LEMMA Latest ==
  ASSUME NEW n \in Nat, NEW S \in SUBSET (1..n), S # {}
  PROVE  \E s \in S : \A t \in S : t <= s
<1> DEFINE T == {n - s : s \in S}
<1>1. T \subseteq Nat
  OBVIOUS
<1>2. T # {}
  OBVIOUS
<1>3. \E x \in T : \A y \in T : ~(<<y, x>> \in OpToRel(<, Nat))
  <2> HIDE DEF T
  <2> QED BY <1>1, <1>2, WFMin, NatLessThanWellFounded, Zenon
<1>4. \E x \in T : \A y \in T : ~(y < x)
  <2> HIDE DEF T
  <2> QED BY <1>1, <1>3, Zenon DEF OpToRel
<1>5. PICK s \in S : \A y \in T : ~(y < n - s)
  BY <1>4
<1>6. ASSUME NEW t \in S PROVE t <= s
  <2>1. n - t \in T
    BY <1>6, Zenon
  <2>2. ~(n - t < n - s)
    BY <1>5, <2>1, Zenon
  <2>3. s \in 1..n /\ t \in 1..n
    BY <1>5, <1>6
  <2> QED BY <2>2, <2>3
<1> QED BY <1>6

LEMMA NextIsOne ==
  ASSUME Typed, NEW r, r.todo # {}, \A s \in r.todo : s \in DOMAIN sessions
  PROVE  NextToRevoke(r) \in r.todo /\ \A t \in r.todo : t <= NextToRevoke(r)
<1>1. DOMAIN sessions = 1..Len(sessions) /\ Len(sessions) \in Nat
  BY SeqDomain DEF Typed, RowsTyped
<1>2. \E s \in r.todo : \A t \in r.todo : t <= s
  BY <1>1, Latest
<1> QED BY <1>2 DEF NextToRevoke

LEMMA GrownTyped ==
  ASSUME Typed, SessionsGrow, removing' \subseteq DOMAIN sessions', UNCHANGED accessData
  PROVE  SessionsTyped
<1>1. DOMAIN sessions \subseteq DOMAIN sessions'
  <2>1. /\ DOMAIN sessions = 1..Len(sessions) /\ DOMAIN sessions' = 1..Len(sessions')
        /\ Len(sessions) \in Nat /\ Len(sessions') \in Nat
    BY SeqDomain DEF Typed, RowsTyped, SessionsGrow
  <2> QED BY <2>1 DEF SessionsGrow
<1>2. DataOfSessions'
  BY <1>1 DEF Typed, DataOfSessions, SessionsGrow
<1> QED BY <1>2 DEF SessionsTyped, Typed, RowsTyped

LEMMA MadeTyped ==
  ASSUME Typed, NEW u \in User, NEW c \in App \cup {None}, NewSession(u, c)
  PROVE  /\ SessionsGrow
         /\ DOMAIN sessions' = DOMAIN sessions \cup {NewSessionId} /\ NewSessionId \notin DOMAIN sessions
         /\ NewSessionId \in Nat \ {0} /\ DOMAIN sessions \subseteq Nat
         /\ sessions'[NewSessionId] = [user |-> u, app |-> c, live |-> TRUE, expired |-> FALSE]
         /\ \A s \in DOMAIN sessions : sessions'[s] = sessions[s]
         /\ UNCHANGED <<removing, accessData>> => SessionsTyped
<1> DEFINE row == [user |-> u, app |-> c, live |-> TRUE, expired |-> FALSE]
<1>1. row \in SessionRow /\ sessions' = Append(sessions, row) /\ sessions \in Seq(SessionRow)
  BY DEF Typed, RowsTyped, NewSession, SessionRow
<1>2. DOMAIN sessions = 1..Len(sessions) /\ Len(sessions) \in Nat
  BY <1>1, SeqDomain
<1>3. /\ sessions' \in Seq(SessionRow) /\ Len(sessions') = Len(sessions) + 1
      /\ sessions'[Len(sessions) + 1] = row
      /\ \A s \in 1..Len(sessions) : sessions'[s] = sessions[s]
      /\ DOMAIN sessions' = 1..(Len(sessions) + 1)
  <2> HIDE DEF row
  <2> QED BY <1>1, AppendProperties
<1>4. SessionsGrow
  BY <1>2, <1>3 DEF SessionsGrow
<1>5. DOMAIN sessions' = DOMAIN sessions \cup {NewSessionId} /\ NewSessionId \notin DOMAIN sessions
      /\ NewSessionId \in Nat \ {0} /\ DOMAIN sessions \subseteq Nat
  BY <1>2, <1>3 DEF NewSessionId
<1>6. UNCHANGED <<removing, accessData>> => SessionsTyped
  BY <1>4, <1>5, GrownTyped DEF Typed, TypeOK
<1> QED BY <1>2, <1>3, <1>4, <1>5, <1>6 DEF NewSessionId

LEMMA RemoveTyped ==
  ASSUME Typed, NEW s \in DOMAIN sessions, Remove(s)
  PROVE  /\ SessionsGrow /\ DOMAIN sessions' = DOMAIN sessions
         /\ sessions'[s] = [sessions[s] EXCEPT !.live = FALSE] /\ sessions'[s].live = FALSE
         /\ \A t \in DOMAIN sessions : t # s => sessions'[t] = sessions[t]
<1>1. sessions \in Seq(SessionRow) /\ sessions[s] \in SessionRow /\ Len(sessions) \in Nat
  BY DEF Typed, RowsTyped, TypeOK
<1>2. [sessions[s] EXCEPT !.live = FALSE] \in SessionRow
  BY <1>1 DEF SessionRow
<1>3. sessions' = [sessions EXCEPT ![s].live = FALSE]
  BY DEF Remove
<1>4. /\ DOMAIN sessions' = DOMAIN sessions /\ Len(sessions') = Len(sessions)
      /\ sessions'[s] = [sessions[s] EXCEPT !.live = FALSE]
      /\ \A t \in DOMAIN sessions : t # s => sessions'[t] = sessions[t]
  BY <1>1, <1>3
<1>5. sessions' \in Seq(SessionRow)
  BY <1>1, <1>2, <1>3
<1>6. \A t \in DOMAIN sessions : sessions'[t].user = sessions[t].user /\ sessions'[t].app = sessions[t].app
  BY <1>1, <1>4 DEF SessionRow
<1>7. sessions'[s].live = FALSE
  BY <1>1, <1>4 DEF SessionRow
<1> QED BY <1>1, <1>4, <1>5, <1>6, <1>7 DEF SessionsGrow

LEMMA DoLoginTyped == ASSUME Typed, NEW pr \in Proc, DoLogin(pr) PROVE Typed'
<1> USE DEF accountTables, sessionTables, oauthTables, histories
<1>1. request[pr].user \in User
  BY Current DEF DoLogin, At, Sound
<1>2. SessionsTyped
  BY <1>1, MadeTyped DEF DoLogin
<1>3. Bounded
  BY StepsBounded DEF DoLogin
<1> QED BY <1>2, <1>3, FinishTyped, Untouched, Together DEF DoLogin

(* Revocation.                                                             *)
LEMMA RevokeByIdTyped ==
  ASSUME Typed, NEW pr \in Proc, NEW s \in DOMAIN sessions, RevokeSessionById(pr, s)
  PROVE  Typed'
<1> USE DEF accountTables, sessionTables, oauthTables, histories
<1> DEFINE base == [Idle EXCEPT !.user = sessions[s].user]
           r == [base EXCEPT !.at = "revoke", !.todo = {s}, !.then = "idle"]
<1>1. sessions[s].user \in User /\ s \in Nat /\ "revoke" \in Phase /\ "idle" \in Phase
  BY SeqDomain DEF Typed, RowsTyped, TypeOK, SessionRow, Phase
<1>2. base \in Request /\ base.user = sessions[s].user
  BY <1>1, IdleTyped DEF Request
<1>3. Become(pr, r) /\ Unchanged /\ Bounded
  BY StepsBounded DEF RevokeSessionById, Revoking, Unchanged
<1> HIDE DEF base
<1>4. /\ r \in Request /\ r.at = "revoke" /\ r.user = sessions[s].user /\ r.then = "idle"
      /\ r.todo = {s}
  BY <1>1, <1>2 DEF Request
<1> HIDE DEF r
<1>5. Sound(r, DOMAIN tokens, sessions, DOMAIN codes)
  BY <1>1, <1>4 DEF Sound, Grants, Revokes, Renews, Saves, Exchanges
<1> QED BY <1>3, <1>4, <1>5, OnlyRequest DEF Unchanged

LEMMA GetSessionsTyped == ASSUME Typed, NEW pr \in Proc, GetSessions(pr) PROVE Typed'
<1> USE DEF accountTables, sessionTables, oauthTables, histories
<1> DEFINE r == request[pr]
           base == [r EXCEPT !.at = "revoke", !.todo = LiveSessions(r.user), !.then = "idle"]
           q == [base EXCEPT !.all = TRUE]
<1>1. r.at = "list" /\ r.user \in User /\ r \in Request
  BY Current DEF GetSessions, At, Sound
<1>2. /\ \A s \in LiveSessions(r.user) : s \in DOMAIN sessions /\ sessions[s].user = r.user
      /\ LiveSessions(r.user) \subseteq Nat /\ "revoke" \in Phase /\ "idle" \in Phase
  BY SeqDomain DEF Typed, RowsTyped, Phase, LiveSessions
<1>3. Become(pr, q) /\ Unchanged /\ Bounded
  BY StepsBounded DEF GetSessions, Revoking, Unchanged
<1>4. /\ base \in Request /\ base.at = "revoke" /\ base.user = r.user /\ base.then = "idle"
      /\ base.todo = LiveSessions(r.user)
  BY <1>1, <1>2 DEF Request
<1> HIDE DEF base
<1>5. /\ q \in Request /\ q.at = "revoke" /\ q.user = r.user /\ q.then = "idle"
      /\ q.todo = LiveSessions(r.user)
  BY <1>4 DEF Request
<1> HIDE DEF q
<1>6. Sound(q, DOMAIN tokens, sessions, DOMAIN codes)
  BY <1>1, <1>2, <1>5 DEF Sound, Grants, Revokes, Renews, Saves, Exchanges
<1> QED BY <1>3, <1>5, <1>6, OnlyRequest DEF Unchanged

(* The next session to revoke, and the request without it.                 *)
LEMMA RevokedTyped ==
  ASSUME Typed, NEW pr \in Proc, request[pr].at \in Revokes, request[pr].todo # {}
  PROVE  LET r == request[pr] IN
         /\ NextToRevoke(r) \in DOMAIN sessions /\ sessions[NextToRevoke(r)].user = r.user
         /\ NextToRevoke(r) \in r.todo
         /\ Revoked(r) \in Request /\ Sound(Revoked(r), DOMAIN tokens, sessions, DOMAIN codes)
         /\ Skipped(r) \in Request /\ Sound(Skipped(r), DOMAIN tokens, sessions, DOMAIN codes)
<1> DEFINE r == request[pr]
<1>1. r \in Request /\ Sound(r, DOMAIN tokens, sessions, DOMAIN codes) /\ r.user \in User
  BY Current DEF Sound, Revokes
<1>2. NextToRevoke(r) \in r.todo /\ \A s \in r.todo : s \in DOMAIN sessions /\ sessions[s].user = r.user
  BY <1>1, NextIsOne DEF Sound
<1>3. /\ Revoked(r) \in Request /\ Revoked(r).at = "revoke" /\ Revoked(r).user = r.user
      /\ Revoked(r).then = r.then /\ Revoked(r).app = r.app
      /\ Revoked(r).todo = r.todo \ {NextToRevoke(r)}
  <2>1. "revoke" \in Phase
    BY DEF Phase
  <2> QED BY <1>1, <2>1 DEF Revoked, Request
<1>4. Sound(Revoked(r), DOMAIN tokens, sessions, DOMAIN codes)
  BY <1>1, <1>2, <1>3 DEF Sound, Grants, Revokes, Renews, Saves, Exchanges
<1> QED BY <1>2, <1>3, <1>4, IdleTyped DEF Skipped

LEMMA RevokeSessionTyped == ASSUME Typed, NEW pr \in Proc, RevokeSession(pr) PROVE Typed'
<1> USE DEF accountTables, sessionTables, oauthTables, histories
<1> DEFINE r == request[pr]
           s == NextToRevoke(r)
<1>1. /\ r.at = "revoke" /\ r.user \in User /\ r \in Request
      /\ Sound(r, DOMAIN tokens, sessions, DOMAIN codes)
  BY Current DEF RevokeSession, At, Sound
<1>2. UNCHANGED <<users, tokens, apps, codes, authorized, proven, guesses, used>> /\ Bounded
  BY StepsBounded DEF RevokeSession
<1>3. \/ r.todo = {} /\ Goto(pr, r.then) /\ UNCHANGED sessionTables
      \/ r.todo # {} /\ Remove(s) /\ Become(pr, Revoked(r)) /\ UNCHANGED <<removing, accessData>>
      \/ /\ r.todo # {} /\ removing' = removing \cup {s}
         /\ Become(pr, Skipped(r)) \/ Goto(pr, "revoke_data")
         /\ UNCHANGED <<sessions, accessData>>
  BY DEF RevokeSession
<1>4. CASE r.todo = {} /\ Goto(pr, r.then) /\ UNCHANGED sessionTables
  <2>1. r.then = "idle" \/ (r.then = "unauthorize" /\ r.app \in App)
    BY <1>1 DEF Sound, Revokes
  <2>2. RequestTyped(pr)
    <3>1. CASE r.then = "idle"
      BY <1>4, <3>1, GotoTyped DEF Phase
    <3>2. CASE r.then = "unauthorize" /\ r.app \in App
      <4>1. Sound([r EXCEPT !.at = "unauthorize"], DOMAIN tokens', sessions', DOMAIN codes')
        BY <1>1, <1>2, <1>4, <3>2 DEF Sound, Request, Grants, Revokes, Renews, Saves, Exchanges
      <4> QED BY <1>4, <3>2, <4>1, GotoTyped DEF Phase
    <3> QED BY <2>1, <3>1, <3>2
  <2> QED BY <1>2, <1>4, <2>2, Untouched, Together
<1>5. CASE r.todo # {} /\ Remove(s) /\ Become(pr, Revoked(r)) /\ UNCHANGED <<removing, accessData>>
  <2>1. /\ s \in DOMAIN sessions
        /\ Revoked(r) \in Request /\ Sound(Revoked(r), DOMAIN tokens, sessions, DOMAIN codes)
    BY <1>1, <1>5, RevokedTyped DEF Revokes
  <2>2. /\ SessionsGrow /\ DOMAIN sessions' = DOMAIN sessions
    BY <1>5, <2>1, RemoveTyped
  <2>3. SessionsTyped
    BY <1>5, <2>2, GrownTyped DEF Typed, TypeOK
  <2>4. Sound(Revoked(r), DOMAIN tokens', sessions', DOMAIN codes')
    BY <1>2, <2>1, <2>2, StaysSound DEF SessionsGrow
  <2>5. RequestTyped(pr)
    BY <1>5, <2>1, <2>4, BecomesTyped
  <2> QED BY <1>2, <2>3, <2>5, Untouched, Together
<1>6. CASE /\ r.todo # {} /\ removing' = removing \cup {s}
           /\ Become(pr, Skipped(r)) \/ Goto(pr, "revoke_data")
           /\ UNCHANGED <<sessions, accessData>>
  <2>1. /\ s \in DOMAIN sessions
        /\ Skipped(r) \in Request /\ Sound(Skipped(r), DOMAIN tokens, sessions, DOMAIN codes)
    BY <1>1, <1>6, RevokedTyped DEF Revokes
  <2>2. SessionsTyped
    BY <1>6, <2>1, Untouched, GrownTyped DEF Typed, TypeOK
  <2>3. RequestTyped(pr)
    <3>1. CASE Become(pr, Skipped(r))
      BY <1>2, <1>6, <2>1, <3>1, BecomesTyped
    <3>2. CASE Goto(pr, "revoke_data")
      <4>1. Sound([r EXCEPT !.at = "revoke_data"], DOMAIN tokens', sessions', DOMAIN codes')
        BY <1>1, <1>2, <1>6 DEF Sound, Request, Grants, Revokes, Renews, Saves, Exchanges
      <4> QED BY <3>2, <4>1, GotoTyped DEF Phase
    <3> QED BY <1>6, <3>1, <3>2
  <2> QED BY <1>2, <2>2, <2>3, Untouched, Together
<1> QED BY <1>3, <1>4, <1>5, <1>6

LEMMA RevokeAccessTokenTyped == ASSUME Typed, NEW pr \in Proc, RevokeAccessToken(pr) PROVE Typed'
<1> USE DEF accountTables, sessionTables, oauthTables, histories
<1> DEFINE r == request[pr]
           s == NextToRevoke(r)
<1>1. /\ r.at = "revoke_data" /\ r.user \in User /\ r \in Request
      /\ Sound(r, DOMAIN tokens, sessions, DOMAIN codes) /\ r.todo # {}
  BY Current DEF RevokeAccessToken, At, Sound
<1>2. /\ UNCHANGED <<users, tokens, sessions, removing, apps, codes, authorized, proven, guesses, used>>
      /\ Bounded
  BY StepsBounded DEF RevokeAccessToken
<1>3. \/ RemoveAccessData(s) /\ Goto(pr, "revoke_wait")
      \/ Become(pr, Skipped(r)) /\ UNCHANGED accessData
  BY DEF RevokeAccessToken
<1>4. CASE RemoveAccessData(s) /\ Goto(pr, "revoke_wait")
  <2>1. Sound([r EXCEPT !.at = "revoke_wait"], DOMAIN tokens', sessions', DOMAIN codes')
    BY <1>1, <1>2 DEF Sound, Request, Grants, Revokes, Renews, Saves, Exchanges
  <2>2. RequestTyped(pr)
    BY <1>4, <2>1, GotoTyped DEF Phase
  <2>3. \A c \in App, u \in User : accessData'[c][u] = NoData \/ accessData'[c][u] = accessData[c][u]
    BY <1>4 DEF RemoveAccessData
  <2>4. NoData \in DataRow /\ NoData.token = 0
    BY DEF NoData, DataRow
  <2>5. accessData' \in [App -> [User -> DataRow]]
    BY <1>4, <2>4 DEF RemoveAccessData, Typed, RowsTyped
  <2>6. DataOfSessions'
    BY <1>2, <2>3, <2>4 DEF Typed, DataOfSessions
  <2>7. SessionsTyped
    BY <1>2, <2>5, <2>6, Untouched DEF SessionsTyped, Typed, TypeOK
  <2> QED BY <1>2, <2>2, <2>7, Untouched, Together
<1>5. CASE Become(pr, Skipped(r)) /\ UNCHANGED accessData
  <2>1. Skipped(r) \in Request /\ Sound(Skipped(r), DOMAIN tokens, sessions, DOMAIN codes)
    BY <1>1, RevokedTyped DEF Revokes
  <2>2. RequestTyped(pr)
    BY <1>2, <1>5, <2>1, BecomesTyped
  <2> QED BY <1>2, <1>5, <2>2, Untouched, Together
<1> QED BY <1>3, <1>4, <1>5

LEMMA AwaitTyped == ASSUME Typed, NEW pr \in Proc, AwaitRemoval(pr) PROVE Typed'
<1> USE DEF accountTables, sessionTables, oauthTables, histories
<1> DEFINE r == request[pr]
<1>1. r.at = "revoke_wait" /\ r.todo # {}
  BY Current DEF AwaitRemoval, At, Sound
<1>2. Revoked(r) \in Request /\ Sound(Revoked(r), DOMAIN tokens, sessions, DOMAIN codes)
  BY <1>1, RevokedTyped DEF Revokes
<1>3. Bounded
  BY StepsBounded DEF AwaitRemoval
<1> QED BY <1>2, <1>3, OnlyRequest DEF AwaitRemoval

LEMMA BackgroundTyped == ASSUME Typed, NEW s \in removing, RemoveInBackground(s) PROVE Typed'
<1> USE DEF accountTables, sessionTables, oauthTables, histories
<1>1. s \in DOMAIN sessions /\ removing \subseteq DOMAIN sessions
  BY DEF Typed, TypeOK
<1>2. SessionsGrow /\ DOMAIN sessions' = DOMAIN sessions
  BY <1>1, RemoveTyped, Untouched DEF RemoveInBackground
<1>3. SessionsTyped
  BY <1>1, <1>2, GrownTyped DEF RemoveInBackground
<1> QED BY <1>3, Untouched, InBackground DEF RemoveInBackground

(* Client applications.                                                    *)
LEMMA CreateAppTyped ==
  ASSUME Typed, NEW pr \in Proc, NEW u \in User, NEW c \in App, createOAuthApp(pr, u, c)
  PROVE  Typed'
<1> USE DEF accountTables, sessionTables, oauthTables, histories
<1>1. apps' \in [App -> AppRow]
  BY DEF createOAuthApp, Typed, TypeOK, AppRow
<1>2. OAuthTyped
  BY <1>1, Untouched DEF createOAuthApp, OAuthTyped, Typed, RowsTyped, TypeOK
<1>3. Bounded
  BY StepsBounded DEF createOAuthApp
<1>4. RequestTyped(pr)
  BY <1>2, Untouched, KeepsRequest DEF createOAuthApp
<1> QED BY <1>2, <1>3, <1>4, Untouched, Together DEF createOAuthApp

LEMMA ChangeAppTyped ==
  ASSUME Typed, NEW pr \in Proc, NEW c \in App, NEW op, NEW secret \in Nat,
         ChangeOAuthApp(pr, c, op, secret)
  PROVE  Typed'
<1> USE DEF accountTables, sessionTables, oauthTables, histories
<1> DEFINE r == [Idle EXCEPT !.at = "app_write", !.app = c, !.secret = secret]
<1>1. "app_write" \in Phase
  BY DEF Phase
<1>2. r \in Request /\ r.at = "app_write" /\ r.app = c /\ r.then = "idle" /\ r.todo = {}
  BY <1>1, IdleTyped, IdleFields DEF Request
<1>3. Become(pr, r) /\ UnchangedTables /\ UNCHANGED histories /\ Bounded
  BY StepsBounded DEF ChangeOAuthApp
<1> HIDE DEF r
<1>4. Sound(r, DOMAIN tokens, sessions, DOMAIN codes)
  BY <1>2 DEF Sound, Grants, Revokes, Renews, Saves, Exchanges
<1> QED BY <1>2, <1>3, <1>4, OnlyRequest DEF UnchangedTables

LEMMA UpdateAppTyped == ASSUME Typed, NEW pr \in Proc, UpdateApp(pr) PROVE Typed'
<1> USE DEF accountTables, sessionTables, oauthTables, histories
<1> DEFINE r == request[pr]
<1>1. r.app \in App /\ r.secret \in Nat
  BY Current DEF UpdateApp, At, Sound, Request
<1>2. apps' \in [App -> AppRow]
  BY ZenonT(60), <1>1 DEF UpdateApp, Typed, TypeOK, AppRow
<1>3. OAuthTyped
  BY <1>2 DEF UpdateApp, OAuthTyped, Typed, RowsTyped, TypeOK
<1>4. Bounded
  BY StepsBounded DEF UpdateApp
<1> QED BY <1>3, <1>4, FinishTyped, Untouched, Together DEF UpdateApp

LEMMA DeleteAppTyped == ASSUME Typed, NEW pr \in Proc, NEW c \in App, DeleteApp(pr, c) PROVE Typed'
<1> USE DEF accountTables, sessionTables, oauthTables, histories
<1> DEFINE its == {accessData[c][u].token : u \in User} \ {0}
<1>1. /\ apps' = [apps EXCEPT ![c].status = "deleted"]
      /\ sessions' = [s \in DOMAIN sessions |->
                        IF s \in its THEN [sessions[s] EXCEPT !.live = FALSE] ELSE sessions[s]]
      /\ accessData' = [accessData EXCEPT ![c] = [u \in User |-> NoData]]
      /\ authorized' = {a \in authorized : a[1] # c}
      /\ UNCHANGED <<users, tokens, removing, codes, request, histories>>
  BY DEF DeleteApp
<1>2. OAuthTyped
  <2>1. apps' \in [App -> AppRow]
    BY <1>1 DEF Typed, TypeOK, AppRow
  <2> QED BY <1>1, <2>1 DEF OAuthTyped, Typed, RowsTyped, TypeOK
<1>3. SessionsGrow /\ DOMAIN sessions' = DOMAIN sessions
  <2> HIDE DEF its
  <2>1. sessions \in Seq(SessionRow) /\ DOMAIN sessions = 1..Len(sessions) /\ Len(sessions) \in Nat
    BY SeqDomain DEF Typed, RowsTyped
  <2>2. ASSUME NEW s \in DOMAIN sessions
        PROVE  /\ sessions'[s] \in SessionRow
               /\ sessions'[s].user = sessions[s].user /\ sessions'[s].app = sessions[s].app
    <3>1. sessions[s] \in SessionRow
      BY DEF Typed, TypeOK
    <3> QED BY <1>1, <3>1 DEF SessionRow
  <2>3. DOMAIN sessions' = 1..Len(sessions)
    BY <1>1, <2>1
  <2>4. sessions' \in Seq(SessionRow) /\ Len(sessions') = Len(sessions)
    <3>1. sessions' \in [1..Len(sessions) -> SessionRow]
      BY <1>1, <2>1, <2>2, <2>3
    <3> QED BY <2>1, <3>1
  <2> QED BY <2>1, <2>2, <2>3, <2>4 DEF SessionsGrow
<1>4. SessionsTyped
  <2>1. NoData \in DataRow /\ NoData.token = 0
    BY DEF NoData, DataRow
  <2>2. accessData' \in [App -> [User -> DataRow]]
    BY <1>1, <2>1 DEF Typed, RowsTyped
  <2>3. \A d \in App, u \in User : accessData'[d][u] = NoData \/ accessData'[d][u] = accessData[d][u]
    BY <1>1, <2>1 DEF Typed, RowsTyped
  <2>4. DataOfSessions'
    BY <1>3, <2>1, <2>3 DEF Typed, DataOfSessions, SessionsGrow
  <2> QED BY <1>1, <1>3, <2>2, <2>4 DEF SessionsTyped, Typed, TypeOK
<1>5. Bounded
  BY StepsBounded DEF DeleteApp
<1>6. RequestTyped(pr)
  BY <1>1, <1>2, <1>3, Untouched, KeepsRequest
<1> QED BY <1>1, <1>2, <1>4, <1>5, <1>6, Untouched, Together

(* Authorization.                                                          *)
LEMMA AuthorizeTyped ==
  ASSUME Typed, NEW pr \in Proc, NEW u \in User, NEW c \in App,
         NEW response \in {"code", "implicit"}, authorizeOAuthApp(pr, u, c, response)
  PROVE  Typed'
<1> USE DEF accountTables, sessionTables, oauthTables, histories
<1> DEFINE r == [Idle EXCEPT !.at = response, !.user = u, !.app = c]
<1>1. response \in Phase
  BY DEF Phase
<1>2. /\ r \in Request /\ r.at = response /\ r.user = u /\ r.app = c /\ r.then = "idle"
      /\ r.todo = {} /\ r.code = 0
  BY <1>1, IdleTyped, IdleFields DEF Request
<1>3. Become(pr, r) /\ UnchangedTables /\ UNCHANGED histories /\ Bounded
  BY StepsBounded DEF authorizeOAuthApp
<1> HIDE DEF r
<1>4. Sound(r, DOMAIN tokens, sessions, DOMAIN codes)
  BY <1>2 DEF Sound, Grants, Revokes, Renews, Saves, Exchanges
<1> QED BY <1>2, <1>3, <1>4, OnlyRequest DEF UnchangedTables

LEMMA CodeTyped == ASSUME Typed, NEW pr \in Proc, GetOAuthCodeRedirect(pr) PROVE Typed'
<1> USE DEF accountTables, sessionTables, oauthTables, histories
<1> DEFINE r == request[pr]
           row == [app |-> r.app, user |-> r.user, live |-> TRUE, fresh |-> TRUE,
                   delivered |-> FALSE, made |-> 0]
           q == [r EXCEPT !.at = "allow", !.code = Len(codes) + 1]
<1>1. /\ r.at = "code" /\ r.user \in User /\ r.app \in App /\ r \in Request
      /\ Sound(r, DOMAIN tokens, sessions, DOMAIN codes)
  BY Current DEF GetOAuthCodeRedirect, At, Sound, Grants
<1>2. row \in CodeRow /\ codes \in Seq(CodeRow) /\ Len(codes) \in Nat /\ Bounded
      /\ UNCHANGED <<users, tokens, sessions, removing, accessData, apps, authorized, proven,
                     guesses, used>>
  BY <1>1, StepsBounded DEF GetOAuthCodeRedirect, CodeRow, Typed, RowsTyped
<1>3. \/ codes' = Append(codes, row) /\ Become(pr, q)
      \/ Goto(pr, "allow") /\ codes' = codes
  BY DEF GetOAuthCodeRedirect
<1>4. CASE codes' = Append(codes, row) /\ Become(pr, q)
  <2>1. /\ codes' \in Seq(CodeRow) /\ Len(codes') = Len(codes) + 1
        /\ DOMAIN codes' = 1..Len(codes) + 1
    <3> HIDE DEF row
    <3> QED BY <1>2, <1>4, AppendProperties
  <2>2. OAuthTyped
    BY <1>2, <1>4, <2>1 DEF OAuthTyped, Typed, TypeOK
  <2>3. RequestTyped(pr)
    <3>1. "allow" \in Phase
      BY DEF Phase
    <3>2. /\ q \in Request /\ q.at = "allow" /\ q.user = r.user /\ q.app = r.app
          /\ q.then = r.then /\ q.todo = r.todo /\ q.code = Len(codes) + 1
      <4>1. Len(codes) + 1 \in Nat
        BY <1>2
      <4> QED BY <1>1, <3>1, <4>1 DEF Request
    <3> HIDE DEF q
    <3>3. Sound(q, DOMAIN tokens', sessions', DOMAIN codes')
      BY <1>1, <1>2, <2>1, <3>2 DEF Sound, Grants, Revokes, Renews, Saves, Exchanges
    <3> QED BY <1>2, <1>4, <3>2, <3>3, BecomesTyped
  <2> QED BY <1>2, <2>2, <2>3, Untouched, Together
<1>5. CASE Goto(pr, "allow") /\ codes' = codes
  <2>1. Sound([r EXCEPT !.at = "allow"], DOMAIN tokens', sessions', DOMAIN codes')
    BY <1>1, <1>2, <1>5 DEF Sound, Request, Grants, Revokes, Renews, Saves, Exchanges
  <2>2. RequestTyped(pr)
    BY <1>2, <1>5, <2>1, GotoTyped DEF Phase
  <2> QED BY <1>2, <1>5, <2>2, Untouched, Together
<1> QED BY <1>3, <1>4, <1>5

(* A session is made for an application: implicitly, for a code, or anew.  *)
LEMMA ForAppTyped ==
  ASSUME Typed, NEW pr \in Proc, NEW phase \in Saves,
         <<request[pr].at, phase>> \in {<<"implicit", "implicit_data">>, <<"exchange", "exchange_data">>,
                                        <<"renew_session", "renew_data">>},
         NewSession(request[pr].user, request[pr].app),
         Become(pr, [request[pr] EXCEPT !.at = phase, !.session = NewSessionId]),
         UNCHANGED <<tokens, removing, accessData>>, DOMAIN codes' = DOMAIN codes
  PROVE  SessionsTyped /\ RequestTyped(pr)
<1> DEFINE r == request[pr]
           q == [r EXCEPT !.at = phase, !.session = NewSessionId]
<1>1. /\ r.user \in User /\ r.app \in App /\ r \in Request
      /\ Sound(r, DOMAIN tokens, sessions, DOMAIN codes)
  BY Current DEF Sound, Grants
<1>2. /\ SessionsGrow /\ DOMAIN sessions' = DOMAIN sessions \cup {NewSessionId}
      /\ NewSessionId \in Nat /\ sessions'[NewSessionId].user = r.user
      /\ sessions'[NewSessionId].app = r.app /\ SessionsTyped
  <2> DEFINE u == request[pr].user
             c == request[pr].app
  <2>1. u \in User /\ c \in App \cup {None} /\ NewSession(u, c)
    BY <1>1
  <2> HIDE DEF u, c
  <2>2. /\ SessionsGrow /\ DOMAIN sessions' = DOMAIN sessions \cup {NewSessionId}
        /\ NewSessionId \in Nat \ {0}
        /\ sessions'[NewSessionId] = [user |-> u, app |-> c, live |-> TRUE, expired |-> FALSE]
        /\ UNCHANGED <<removing, accessData>> => SessionsTyped
    BY <2>1, MadeTyped
  <2> QED BY <2>2 DEF u, c
<1>3. phase \in Phase
  BY DEF Saves, Phase
<1>4. /\ q \in Request /\ q.at = phase /\ q.user = r.user /\ q.app = r.app /\ q.then = r.then
      /\ q.todo = r.todo /\ q.code = r.code /\ q.token = r.token /\ q.session = NewSessionId
  BY <1>1, <1>2, <1>3 DEF Request
<1> HIDE DEF q
<1>5. Sound(q, DOMAIN tokens', sessions', DOMAIN codes')
  <2>1. Sound(r, DOMAIN tokens', sessions', DOMAIN codes')
    BY <1>1, <1>2, StaysSound DEF SessionsGrow
  <2> QED BY <1>1, <1>2, <1>4, <2>1 DEF Sound, Grants, Revokes, Renews, Saves, Exchanges
<1> QED BY <1>2, <1>4, <1>5, BecomesTyped DEF q

LEMMA MakesSessionTyped ==
  ASSUME Typed, NEW pr \in Proc,
         GetOAuthImplicitRedirect(pr) \/ ExchangeSession(pr) \/ RenewSession(pr)
  PROVE  Typed'
<1> USE DEF accountTables, sessionTables, oauthTables, histories
<1>1. UNCHANGED <<users, tokens, removing, accessData, apps, authorized, proven, guesses, used>>
      /\ Bounded
  BY StepsBounded DEF GetOAuthImplicitRedirect, ExchangeSession, RenewSession
<1>2. OAuthTyped /\ DOMAIN codes' = DOMAIN codes
  <2>1. CASE UNCHANGED codes
    BY <1>1, <2>1, Untouched
  <2>2. CASE ExchangeSession(pr)
    <3> DEFINE k == request[pr].code
    <3>1. k \in DOMAIN codes /\ codes \in Seq(CodeRow) /\ codes[k] \in CodeRow
      BY <2>2, Current DEF ExchangeSession, At, Sound, Exchanges, Typed, RowsTyped
    <3>2. codes' = [codes EXCEPT ![k] = [codes[k] EXCEPT !.made = @ + 1]]
      BY <2>2, <3>1 DEF ExchangeSession
    <3>3. [codes[k] EXCEPT !.made = @ + 1] \in CodeRow
      BY <3>1 DEF CodeRow
    <3>4. codes' \in Seq(CodeRow) /\ Len(codes') = Len(codes) /\ DOMAIN codes' = DOMAIN codes
      BY <3>1, <3>2, <3>3
    <3> QED BY <1>1, <3>1, <3>4 DEF OAuthTyped, Typed, TypeOK
  <2> QED BY <2>1, <2>2 DEF GetOAuthImplicitRedirect, RenewSession
<1>3. SessionsTyped /\ RequestTyped(pr)
  <2>1. CASE GetOAuthImplicitRedirect(pr)
    BY <1>1, <1>2, <2>1, ForAppTyped DEF GetOAuthImplicitRedirect, At, Saves
  <2>2. CASE ExchangeSession(pr)
    BY <1>1, <1>2, <2>2, ForAppTyped DEF ExchangeSession, At, Saves
  <2>3. CASE RenewSession(pr)
    BY <1>1, <1>2, <2>3, ForAppTyped DEF RenewSession, At, Saves
  <2> QED BY <2>1, <2>2, <2>3
<1> QED BY <1>1, <1>2, <1>3, Untouched, Together

LEMMA SaveDataTyped ==
  ASSUME Typed, NEW pr \in Proc, SaveImplicitAccessData(pr) \/ SaveExchangedAccessData(pr)
  PROVE  Typed'
<1> USE DEF accountTables, sessionTables, oauthTables, histories
<1> DEFINE r == request[pr]
<1>1. PICK refresh \in Nat, phase \in {"allow", "code_done"} :
        /\ <<r.at, phase>> \in {<<"implicit_data", "allow">>, <<"exchange_data", "code_done">>}
        /\ SaveAccessData(pr, refresh, phase)
  <2>1. NewRefreshToken \in Nat
    BY SeqDomain DEF NewRefreshToken, Typed, RowsTyped
  <2> QED BY <2>1 DEF SaveImplicitAccessData, SaveExchangedAccessData, At
<1> DEFINE q == [r EXCEPT !.at = phase, !.session = 0]
           data == [token |-> r.session, refresh |-> refresh]
<1>2. /\ r.user \in User /\ r.app \in App /\ r \in Request
      /\ Sound(r, DOMAIN tokens, sessions, DOMAIN codes)
      /\ r.session \in DOMAIN sessions /\ sessions[r.session].user = r.user
      /\ sessions[r.session].app = r.app /\ r.todo \in SUBSET Nat /\ phase \in Phase
  BY <1>1, Current DEF Sound, Grants, Saves, Phase, Request
<1>3. r.session \in Nat \ {0}
  BY <1>2, SeqDomain DEF Typed, RowsTyped
<1>4. /\ UNCHANGED <<users, tokens, sessions, removing, apps, codes, authorized, proven, guesses, used>>
      /\ \/ Become(pr, q) /\ accessData' = [accessData EXCEPT ![r.app][r.user] = data]
         \/ Finish(pr) /\ UNCHANGED accessData
  BY <1>1 DEF SaveAccessData
<1>5. Bounded
  BY StepsBounded DEF SaveImplicitAccessData, SaveExchangedAccessData
<1>6. CASE Finish(pr) /\ UNCHANGED accessData
  BY <1>4, <1>5, <1>6, FinishTyped, Untouched, Together
<1>7. CASE Become(pr, q) /\ accessData' = [accessData EXCEPT ![r.app][r.user] = data]
  <2>1. data \in DataRow /\ data.token = r.session
    BY <1>2, <1>3 DEF DataRow
  <2> HIDE DEF data
  <2>2. accessData' \in [App -> [User -> DataRow]]
    BY <1>2, <1>7, <2>1 DEF Typed, RowsTyped
  <2>3. \A c \in App, u \in User :
          accessData'[c][u] = IF c = r.app /\ u = r.user THEN data ELSE accessData[c][u]
    BY <1>2, <1>7 DEF Typed, RowsTyped
  <2>4. DataOfSessions'
    BY <1>2, <1>3, <1>4, <2>1, <2>3 DEF Typed, DataOfSessions
  <2>5. SessionsTyped
    BY <1>4, <2>2, <2>4, Untouched DEF SessionsTyped, Typed, TypeOK
  <2>6. /\ q \in Request /\ q.at = phase /\ q.user = r.user /\ q.app = r.app /\ q.then = r.then
        /\ q.todo = r.todo /\ q.code = r.code
    BY <1>2 DEF Request
  <2> HIDE DEF q
  <2>7. r.at = "implicit_data" => r.code \in DOMAIN codes \cup {0}
    BY <1>2 DEF Sound, Saves
  <2>8. Sound(q, DOMAIN tokens', sessions', DOMAIN codes')
    BY <1>1, <1>2, <1>4, <2>6, <2>7 DEF Sound, Grants, Revokes, Renews, Saves, Exchanges
  <2>9. RequestTyped(pr)
    BY <1>7, <2>6, <2>8, BecomesTyped
  <2> QED BY <1>4, <1>5, <2>5, <2>9, Untouched, Together
<1> QED BY <1>4, <1>6, <1>7

LEMMA AllowTyped == ASSUME Typed, NEW pr \in Proc, SaveAuthorizedApp(pr) PROVE Typed'
<1> USE DEF accountTables, sessionTables, oauthTables, histories
<1> DEFINE r == request[pr]
<1>1. /\ r.at = "allow" /\ r.user \in User /\ r.app \in App
      /\ r.code \in DOMAIN codes \cup {0}
  BY Current DEF SaveAuthorizedApp, At, Sound, Grants
<1>2. codes \in Seq(CodeRow) /\ \A k \in DOMAIN codes : codes[k] \in CodeRow
  BY DEF Typed, RowsTyped
<1>3. /\ UNCHANGED <<users, tokens, sessions, removing, accessData, apps, proven, guesses, used>>
      /\ Finish(pr) /\ Bounded
  BY StepsBounded DEF SaveAuthorizedApp
<1>4. codes' \in Seq(CodeRow) /\ Len(codes') = Len(codes)
  <2>1. CASE UNCHANGED codes
    BY <1>2, <2>1
  <2>2. CASE r.code # 0 /\ codes' = [codes EXCEPT ![r.code].delivered = TRUE]
    <3>1. [codes[r.code] EXCEPT !.delivered = TRUE] \in CodeRow
      BY <1>1, <1>2, <2>2 DEF CodeRow
    <3> QED BY <1>1, <1>2, <2>2, <3>1
  <2> QED BY <2>1, <2>2 DEF SaveAuthorizedApp
<1>5. authorized' \subseteq App \X User
  BY <1>1 DEF SaveAuthorizedApp, Typed, TypeOK
<1>6. OAuthTyped
  BY <1>2, <1>3, <1>4, <1>5 DEF OAuthTyped, Typed, TypeOK
<1> QED BY <1>3, <1>6, FinishTyped, Untouched, Together

(* Access tokens for codes, and renewals.                                  *)
LEMMA ExchangeTyped ==
  ASSUME Typed, NEW pr \in Proc, NEW k \in DOMAIN codes, getAccessToken(pr, k)
  PROVE  Typed'
<1> USE DEF accountTables, sessionTables, oauthTables, histories
<1> DEFINE c == codes[k].app
           u == codes[k].user
           data == accessData[c][u]
           phase == ExchangePhase(data)
           base == [Idle EXCEPT !.at = phase, !.then = "code_done"]
           q == [base EXCEPT !.user = u, !.app = c]
           r == [q EXCEPT !.code = k, !.token = data.token]
<1>1. c \in App /\ u \in User /\ k \in Nat /\ data \in DataRow
  BY SeqDomain DEF Typed, RowsTyped, TypeOK, CodeRow
<1>2. phase \in {"exchange", "renew", "code_done"} /\ (phase = "renew" => data # NoData)
  BY DEF ExchangePhase
<1>3. Become(pr, r) /\ Unchanged /\ Bounded
  BY StepsBounded DEF getAccessToken, UnchangedTables, Unchanged
<1>4. phase # "renew" \/ data.token \in DOMAIN sessions
  BY <1>1, <1>2 DEF Typed, DataOfSessions
<1>5. data.token \in Nat /\ phase \in Phase /\ "code_done" \in Phase
  BY <1>1, <1>2 DEF Phase, DataRow
<1> HIDE DEF phase, data, c, u
<1>6. base \in Request /\ base.at = phase /\ base.then = "code_done" /\ base.todo = {}
  BY <1>5, IdleTyped, IdleFields DEF Request
<1> HIDE DEF base
<1>7. q \in Request /\ q.at = phase /\ q.then = "code_done" /\ q.todo = {} /\ q.user = u /\ q.app = c
  BY <1>1, <1>6 DEF Request
<1> HIDE DEF q
<1>8. r \in Request /\ r.at = phase /\ r.then = "code_done" /\ r.todo = {} /\ r.user = u /\ r.app = c
      /\ r.code = k /\ r.token = data.token
  BY <1>1, <1>5, <1>7 DEF Request
<1> HIDE DEF r
<1>9. Sound(r, DOMAIN tokens, sessions, DOMAIN codes)
  BY <1>1, <1>2, <1>4, <1>8 DEF Sound, Grants, Revokes, Renews, Saves, Exchanges
<1> QED BY <1>3, <1>8, <1>9, OnlyRequest DEF Unchanged

(* The deletion of a code.                                                 *)
LEMMA SpentTyped ==
  ASSUME Typed, NEW k \in DOMAIN codes, codes' = [codes EXCEPT ![k].live = FALSE],
         UNCHANGED <<apps, authorized>>
  PROVE  OAuthTyped
<1>1. codes \in Seq(CodeRow) /\ codes[k] \in CodeRow
  BY DEF Typed, RowsTyped
<1>2. [codes[k] EXCEPT !.live = FALSE] \in CodeRow
  BY <1>1 DEF CodeRow
<1>3. codes' \in Seq(CodeRow) /\ Len(codes') = Len(codes)
  BY <1>1, <1>2
<1> QED BY <1>1, <1>3 DEF OAuthTyped, Typed, TypeOK

LEMMA RefuseTyped ==
  ASSUME Typed, NEW pr \in Proc, NEW k \in DOMAIN codes, RefuseExpiredCode(pr, k)
  PROVE  Typed'
<1> USE DEF accountTables, sessionTables, oauthTables, histories
<1>1. OAuthTyped /\ Bounded
  BY SpentTyped, StepsBounded DEF RefuseExpiredCode
<1>2. RequestTyped(pr)
  BY <1>1, Untouched, KeepsRequest DEF RefuseExpiredCode
<1> QED BY <1>1, <1>2, Untouched, Together DEF RefuseExpiredCode

LEMMA FinishExchangeTyped == ASSUME Typed, NEW pr \in Proc, FinishExchange(pr) PROVE Typed'
<1> USE DEF accountTables, sessionTables, oauthTables, histories
<1>1. request[pr].code \in DOMAIN codes
  BY Current DEF FinishExchange, At, Sound, Exchanges
<1>2. OAuthTyped
  BY <1>1, SpentTyped, Untouched DEF FinishExchange, RemoveAuthData
<1>3. Bounded
  BY StepsBounded DEF FinishExchange
<1> QED BY <1>2, <1>3, FinishTyped, Untouched, Together DEF FinishExchange

LEMMA RefreshTyped ==
  ASSUME Typed, NEW pr \in Proc, NEW c \in App, NEW u \in User, Refresh(pr, c, u)
  PROVE  Typed'
<1> USE DEF accountTables, sessionTables, oauthTables, histories
<1> DEFINE data == accessData[c][u]
           base == [Idle EXCEPT !.at = "renew", !.user = u]
           r == [base EXCEPT !.app = c, !.token = data.token]
<1>1. data \in DataRow /\ data.refresh # 0
  BY DEF Refresh, Typed, RowsTyped
<1>2. data.token \in DOMAIN sessions /\ data.token \in Nat
  BY <1>1 DEF Typed, DataOfSessions, NoData, DataRow
<1>3. "renew" \in Phase
  BY DEF Phase
<1>4. Become(pr, r) /\ Unchanged /\ Bounded
  BY StepsBounded DEF Refresh, UnchangedTables, Unchanged
<1>5. base \in Request /\ base.at = "renew" /\ base.then = "idle" /\ base.user = u /\ base.todo = {}
  BY <1>3, IdleTyped, IdleFields DEF Request
<1> HIDE DEF base, data
<1>6. /\ r \in Request /\ r.at = "renew" /\ r.then = "idle" /\ r.user = u /\ r.todo = {}
      /\ r.app = c /\ r.token = data.token
  BY <1>2, <1>5 DEF Request
<1> HIDE DEF r
<1>7. Sound(r, DOMAIN tokens, sessions, DOMAIN codes)
  BY <1>2, <1>6 DEF Sound, Grants, Revokes, Renews, Saves, Exchanges
<1> QED BY <1>4, <1>6, <1>7, OnlyRequest DEF Unchanged

LEMMA RenewRemoveTyped == ASSUME Typed, NEW pr \in Proc, RenewRemove(pr) PROVE Typed'
<1> USE DEF accountTables, sessionTables, oauthTables, histories
<1> DEFINE r == request[pr]
<1>1. /\ r.at = "renew" /\ r.token \in DOMAIN sessions /\ r \in Request
      /\ Sound(r, DOMAIN tokens, sessions, DOMAIN codes)
  BY Current DEF RenewRemove, At, Sound, Renews
<1>2. /\ UNCHANGED <<users, tokens, removing, accessData, apps, codes, authorized, proven, guesses, used>>
      /\ Goto(pr, "renew_session") /\ Bounded /\ (Remove(r.token) \/ UNCHANGED sessions)
  BY StepsBounded DEF RenewRemove
<1>3. SessionsGrow /\ DOMAIN sessions' = DOMAIN sessions
  BY <1>1, <1>2, RemoveTyped, Untouched
<1>4. SessionsTyped
  BY <1>2, <1>3, GrownTyped DEF Typed, TypeOK
<1>5. Sound([r EXCEPT !.at = "renew_session"], DOMAIN tokens', sessions', DOMAIN codes')
  <2>1. Sound(r, DOMAIN tokens', sessions', DOMAIN codes')
    BY <1>1, <1>2, <1>3, StaysSound DEF SessionsGrow
  <2> QED BY <1>1, <2>1 DEF Sound, Request, Grants, Revokes, Renews, Saves, Exchanges
<1>6. RequestTyped(pr)
  BY <1>2, <1>5, GotoTyped DEF Phase
<1> QED BY <1>2, <1>4, <1>6, Untouched, Together

LEMMA RenewDataTyped == ASSUME Typed, NEW pr \in Proc, RenewData(pr) PROVE Typed'
<1> USE DEF accountTables, sessionTables, oauthTables, histories
<1> DEFINE r == request[pr]
           q == [r EXCEPT !.at = r.then, !.session = 0]
           data == UpdateAccessData(accessData[r.app][r.user], r.session)
<1>1. /\ r.at = "renew_data" /\ r.user \in User /\ r.app \in App /\ r \in Request
      /\ Sound(r, DOMAIN tokens, sessions, DOMAIN codes) /\ r.then \in {"idle", "code_done"}
      /\ r.session \in DOMAIN sessions /\ sessions[r.session].user = r.user
      /\ sessions[r.session].app = r.app
  BY Current DEF RenewData, At, Sound, Grants, Saves, Renews
<1>2. r.session \in Nat \ {0} /\ Len(sessions) \in Nat
  BY <1>1, SeqDomain DEF Typed, RowsTyped
<1>3. /\ UNCHANGED <<users, tokens, sessions, removing, apps, codes, authorized, proven, guesses, used>>
      /\ \/ accessData' = [accessData EXCEPT ![r.app][r.user] = data]
         \/ UNCHANGED accessData
      /\ Finish(pr) \/ (r.then = "code_done" /\ Become(pr, q))
      /\ Bounded
  BY <1>1, StepsBounded DEF RenewData
<1>4. SessionsTyped
  <2>1. CASE UNCHANGED accessData
    BY <1>3, <2>1, Untouched
  <2>2. CASE accessData' = [accessData EXCEPT ![r.app][r.user] = data]
    <3>1. data \in DataRow /\ data.token = r.session
      BY <1>2 DEF UpdateAccessData, NewRefreshToken, DataRow
    <3> HIDE DEF data
    <3>2. accessData' \in [App -> [User -> DataRow]]
      BY <1>1, <2>2, <3>1 DEF Typed, RowsTyped
    <3>3. \A c \in App, u \in User :
            accessData'[c][u] = IF c = r.app /\ u = r.user THEN data ELSE accessData[c][u]
      BY <1>1, <2>2 DEF Typed, RowsTyped
    <3>4. DataOfSessions'
      BY <1>1, <1>2, <1>3, <3>1, <3>3 DEF Typed, DataOfSessions
    <3> QED BY <1>3, <3>2, <3>4, Untouched DEF SessionsTyped, Typed, TypeOK
  <2> QED BY <1>3, <2>1, <2>2
<1>5. RequestTyped(pr)
  <2>1. CASE r.then = "code_done" /\ Become(pr, q)
    <3>1. "code_done" \in Phase
      BY DEF Phase
    <3>2. /\ q \in Request /\ q.at = "code_done" /\ q.user = r.user /\ q.app = r.app
          /\ q.then = "code_done" /\ q.todo = r.todo /\ q.code = r.code
      BY <1>1, <2>1, <3>1 DEF Request
    <3> HIDE DEF q
    <3>3. Sound(q, DOMAIN tokens', sessions', DOMAIN codes')
      BY <1>1, <1>3, <2>1, <3>2 DEF Sound, Grants, Revokes, Renews, Saves, Exchanges
    <3> QED BY <2>1, <3>2, <3>3, BecomesTyped
  <2> QED BY <1>3, <2>1, FinishTyped
<1> QED BY <1>3, <1>4, <1>5, Untouched, Together

LEMMA DeauthorizeTyped ==
  ASSUME Typed, NEW pr \in Proc, NEW u \in User, NEW c \in App, deauthorizeOAuthApp(pr, u, c)
  PROVE  Typed'
<1> USE DEF accountTables, sessionTables, oauthTables, histories
<1> DEFINE s == accessData[c][u].token
           base == [Idle EXCEPT !.user = u, !.app = c]
           q == [base EXCEPT !.at = "unauthorize"]
           r == [base EXCEPT !.at = "revoke", !.todo = {s}, !.then = "unauthorize"]
<1>1. s \in Nat /\ (s # 0 => s \in DOMAIN sessions /\ sessions[s].user = u)
  BY DEF Typed, RowsTyped, DataOfSessions, DataRow
<1>2. "unauthorize" \in Phase /\ "revoke" \in Phase
  BY DEF Phase
<1>3. Become(pr, IF s = 0 THEN q ELSE r) /\ Unchanged /\ Bounded
  BY StepsBounded DEF deauthorizeOAuthApp, UnchangedTables, Unchanged
<1>4. /\ base \in Request /\ base.user = u /\ base.app = c /\ base.then = "idle" /\ base.todo = {}
  BY IdleTyped, IdleFields DEF Request
<1> HIDE DEF base, s
<1>5. /\ q \in Request /\ q.at = "unauthorize" /\ q.user = u /\ q.app = c /\ q.then = "idle"
      /\ q.todo = {}
  BY <1>2, <1>4 DEF Request
<1>6. /\ r \in Request /\ r.at = "revoke" /\ r.user = u /\ r.app = c /\ r.then = "unauthorize"
      /\ r.todo = {s}
  BY <1>1, <1>2, <1>4 DEF Request
<1> HIDE DEF q, r
<1>7. Sound(q, DOMAIN tokens, sessions, DOMAIN codes)
  BY <1>5 DEF Sound, Grants, Revokes, Renews, Saves, Exchanges
<1>8. s # 0 => Sound(r, DOMAIN tokens, sessions, DOMAIN codes)
  BY <1>1, <1>6 DEF Sound, Grants, Revokes, Renews, Saves, Exchanges
<1> QED BY <1>3, <1>5, <1>6, <1>7, <1>8, OnlyRequest DEF Unchanged

LEMMA UnauthorizeTyped == ASSUME Typed, NEW pr \in Proc, DeleteAuthorizedApp(pr) PROVE Typed'
<1> USE DEF accountTables, sessionTables, oauthTables, histories
<1>1. Bounded
  BY StepsBounded DEF DeleteAuthorizedApp
<1>2. OAuthTyped
  BY Untouched DEF DeleteAuthorizedApp, OAuthTyped, Typed, RowsTyped, TypeOK
<1> QED BY <1>1, <1>2, FinishTyped, Untouched, Together DEF DeleteAuthorizedApp

(* Failures, and the passing of time.                                      *)
LEMMA FaultTyped == ASSUME Typed, NEW pr \in Proc, Fault(pr) PROVE Typed'
<1> USE DEF accountTables, sessionTables, oauthTables, histories
<1>1. Bounded
  BY DEF Fault, Bounded, Typed, RowsTyped, TypeOK
<1> QED BY <1>1, FinishTyped, Untouched, Together DEF Fault

LEMMA ExpiryTyped == ASSUME Typed, Expiry PROVE Typed'
<1> USE DEF accountTables, sessionTables, oauthTables, histories, Outlive
<1>1. CASE \E k \in DOMAIN tokens : ExpireToken(k)
  <2>1. PICK k \in DOMAIN tokens : ExpireToken(k)
    BY <1>1
  <2>2. tokens \in Seq(TokenRow) /\ tokens[k] \in TokenRow
    BY DEF Typed, RowsTyped
  <2>3. [tokens[k] EXCEPT !.fresh = FALSE] \in TokenRow
    BY <2>2 DEF TokenRow
  <2>4. tokens' = [tokens EXCEPT ![k].fresh = FALSE]
    BY <2>1 DEF ExpireToken
  <2>5. tokens' \in Seq(TokenRow) /\ Len(tokens') = Len(tokens)
    BY <2>2, <2>3, <2>4
  <2>6. AccountsTyped
    BY <2>1, <2>5 DEF ExpireToken, AccountsTyped, Typed, RowsTyped, TypeOK
  <2> QED BY <2>1, <2>6, Untouched, InBackground DEF ExpireToken
<1>2. CASE \E s \in DOMAIN sessions : ExpireSession(s)
  <2>1. PICK s \in DOMAIN sessions : ExpireSession(s)
    BY <1>2
  <2>2. sessions \in Seq(SessionRow) /\ sessions[s] \in SessionRow /\ Len(sessions) \in Nat
    BY DEF Typed, RowsTyped
  <2>3. [sessions[s] EXCEPT !.expired = TRUE] \in SessionRow
    BY <2>2 DEF SessionRow
  <2>4. sessions' = [sessions EXCEPT ![s].expired = TRUE]
    BY <2>1 DEF ExpireSession
  <2>5. sessions' \in Seq(SessionRow) /\ Len(sessions') = Len(sessions) /\ DOMAIN sessions' = DOMAIN sessions
    BY <2>2, <2>3, <2>4
  <2>6. \A t \in DOMAIN sessions :
          sessions'[t].user = sessions[t].user /\ sessions'[t].app = sessions[t].app
    BY <2>2, <2>4 DEF SessionRow
  <2>7. SessionsTyped
    BY <2>1, <2>2, <2>5, <2>6, GrownTyped DEF SessionsGrow, ExpireSession, Typed, TypeOK
  <2> QED BY <2>1, <2>7, Untouched, InBackground DEF ExpireSession
<1>3. CASE \E k \in DOMAIN codes : ExpireCode(k)
  <2>1. PICK k \in DOMAIN codes : ExpireCode(k)
    BY <1>3
  <2>2. codes \in Seq(CodeRow) /\ codes[k] \in CodeRow
    BY DEF Typed, RowsTyped
  <2>3. [codes[k] EXCEPT !.fresh = FALSE] \in CodeRow
    BY <2>2 DEF CodeRow
  <2>4. codes' = [codes EXCEPT ![k].fresh = FALSE]
    BY <2>1 DEF ExpireCode
  <2>5. codes' \in Seq(CodeRow) /\ Len(codes') = Len(codes)
    BY <2>2, <2>3, <2>4
  <2>6. OAuthTyped
    BY <2>1, <2>5 DEF ExpireCode, OAuthTyped, Typed, RowsTyped, TypeOK
  <2> QED BY <2>1, <2>6, Untouched, InBackground DEF ExpireCode
<1> QED BY <1>1, <1>2, <1>3 DEF Expiry

LEMMA StutterTyped == ASSUME Typed, UNCHANGED vars PROVE Typed'
<1> USE DEF vars, accountTables, sessionTables, oauthTables, histories
<1> QED BY Untouched, InBackground

LEMMA InitTyped == ASSUME Init PROVE Typed
<1> DEFINE there == DOMAIN situation.typeOf
           S == situation.loggedIn
<1>1. /\ situation \in Situations /\ there \subseteq User /\ DOMAIN situation.emailOf = there
      /\ \A u \in there : situation.typeOf[u] \in {"normal", "moderator", "admin"}
                          /\ situation.emailOf[u] \in Email
      /\ \A c \in DOMAIN situation.ownerOf : situation.ownerOf[c] \in User
      /\ S \in Seq(there) /\ situation.slots \in Nat /\ situation.requests \in Nat
  BY AccountStoreAssumption DEF Init
<1>2. users \in [User -> UserRow]
  <2>1. NoUser \in UserRow
    BY DEF NoUser, UserRow
  <2>2. \A u \in there :
          [NoUser EXCEPT !.status = "live", !.type = situation.typeOf[u],
                         !.email = situation.emailOf[u], !.verified = TRUE] \in UserRow
    BY <1>1 DEF NoUser, UserRow
  <2>3. users = [u \in User |->
                   IF u \in there
                   THEN [NoUser EXCEPT !.status = "live", !.type = situation.typeOf[u],
                           !.email = situation.emailOf[u], !.verified = TRUE]
                   ELSE NoUser]
    BY DEF Init
  <2> QED BY <2>1, <2>2, <2>3
<1>3. sessions \in Seq(SessionRow)
  <2>1. DOMAIN S = 1..Len(S) /\ Len(S) \in Nat /\ \A s \in DOMAIN S : S[s] \in User
    BY <1>1
  <2>2. sessions = [s \in 1..Len(S) |-> [user |-> S[s], app |-> None, live |-> TRUE, expired |-> FALSE]]
    BY <2>1 DEF Init
  <2>3. \A s \in 1..Len(S) : [user |-> S[s], app |-> None, live |-> TRUE, expired |-> FALSE] \in SessionRow
    BY <2>1 DEF SessionRow
  <2>4. sessions \in [1..Len(S) -> SessionRow]
    BY <2>2, <2>3
  <2> QED BY <2>1, <2>4
<1>4. /\ tokens \in Seq(TokenRow) /\ codes \in Seq(CodeRow) /\ used \in Seq(Nat)
      /\ Len(used) = Len(tokens) /\ tokens = <<>> /\ codes = <<>> /\ used = <<>>
  <2>1. tokens = <<>> /\ codes = <<>> /\ used = <<>>
    BY DEF Init
  <2> QED BY <2>1
<1>5. apps \in [App -> AppRow]
  <2>1. NoApp \in AppRow
    BY DEF NoApp, AppRow
  <2>2. \A c \in DOMAIN situation.ownerOf :
          [status |-> "live", owner |-> situation.ownerOf[c], secret |-> 0] \in AppRow
    BY <1>1 DEF AppRow
  <2>3. apps = [c \in App |-> IF c \in DOMAIN situation.ownerOf
                              THEN [status |-> "live", owner |-> situation.ownerOf[c], secret |-> 0]
                              ELSE NoApp]
    BY DEF Init
  <2> QED BY <2>1, <2>2, <2>3
<1>6. /\ accessData \in [App -> [User -> DataRow]]
      /\ \A c \in App, u \in User : accessData[c][u] = NoData /\ accessData[c][u].token = 0
  BY DEF Init, NoData, DataRow
<1>7. request \in [Proc -> Request] /\ \A pr \in Proc : Sounds(request[pr])
  <2>1. request = [pr \in Proc |-> Idle]
    BY DEF Init, Proc
  <2> QED BY <2>1, IdleTyped DEF Sounds
<1>8. /\ proven \subseteq User \X Email /\ guesses \in [User -> Nat] /\ served = 0
      /\ removing = {} /\ authorized = {}
  <2>1. proven = {<<u, situation.emailOf[u]>> : u \in there}
    BY DEF Init
  <2>2. proven \subseteq User \X Email
    BY <1>1, <2>1
  <2>3. guesses \in [User -> Nat]
    BY DEF Init
  <2>4. served = 0 /\ removing = {} /\ authorized = {}
    BY DEF Init
  <2> QED BY <2>2, <2>3, <2>4
<1>9. TypeOK
  <2>1. Len(sessions) \in Nat /\ \A s \in DOMAIN sessions : sessions[s] \in SessionRow
    BY <1>3
  <2>2. \A c \in App : \A u \in User :
          accessData[c][u] \in DataRow /\ accessData[c][u].token \in 0 .. Len(sessions)
    BY <1>6, <2>1
  <2>3. served <= situation.requests
    BY <1>1, <1>8
  <2>4. /\ \A k \in DOMAIN tokens : tokens[k] \in TokenRow
        /\ \A k \in DOMAIN codes : codes[k] \in CodeRow
        /\ \A k \in DOMAIN used : used[k] \in Nat
    BY <1>4
  <2> QED BY <1>2, <1>4, <1>5, <1>7, <1>8, <2>1, <2>2, <2>3, <2>4 DEF TypeOK
<1>10. RowsTyped
  BY <1>1, <1>3, <1>4, <1>6, <1>8 DEF RowsTyped
<1>11. DataOfSessions
  BY <1>6 DEF DataOfSessions
<1> QED BY <1>7, <1>9, <1>10, <1>11 DEF Typed

LEMMA StepTyped == ASSUME Typed, [Next]_vars PROVE Typed'
<1>1. ASSUME NEW pr \in Proc, SigningUpAndIn(pr) PROVE Typed'
  BY <1>1, SignUpTyped, SaveTyped, MailTyped, VerifyEmailTyped, DeleteTokenTyped,
     AskVerificationTyped, VerifyTyped, LoginTyped, AttemptTyped, DoLoginTyped DEF SigningUpAndIn
<1>2. ASSUME NEW pr \in Proc, ChangingAccounts(pr) PROVE Typed'
  BY <1>2, LoginTyped, ChangeTyped, RecheckTyped, OthersTyped, ChangeTypeTyped, AskVerificationTyped, VerifyTyped,
     PasswordTyped, MailTyped, ReadTyped, UpdateTyped, DeleteRowTyped DEF ChangingAccounts
<1>3. ASSUME NEW pr \in Proc, Revocation(pr) PROVE Typed'
  BY <1>3, RevokeByIdTyped, GetSessionsTyped, RevokeSessionTyped, RevokeAccessTokenTyped, AwaitTyped
     DEF Revocation
<1>4. ASSUME NEW pr \in Proc, Authorization(pr) PROVE Typed'
  <2>1. ASSUME NEW c \in App, updateOAuthApp(pr, c) \/ RegenerateOAuthAppSecret(pr, c) PROVE Typed'
    <3>1. apps[c].secret \in Nat /\ served + 1 \in Nat
      BY DEF Typed, TypeOK, RowsTyped, AppRow
    <3> QED BY <2>1, <3>1, ChangeAppTyped DEF updateOAuthApp, RegenerateOAuthAppSecret
  <2>2. CASE SaveImplicitAccessData(pr) \/ SaveAuthorizedApp(pr) \/ DeleteAuthorizedApp(pr)
             \/ UpdateApp(pr) \/ GetOAuthCodeRedirect(pr) \/ GetOAuthImplicitRedirect(pr)
    BY <2>2, SaveDataTyped, AllowTyped, UnauthorizeTyped, UpdateAppTyped, CodeTyped, MakesSessionTyped
  <2> QED BY <1>4, <2>1, <2>2, CreateAppTyped, DeauthorizeTyped, RefreshTyped, AuthorizeTyped,
             DeleteAppTyped DEF Authorization
<1>5. ASSUME NEW pr \in Proc, Exchange(pr) PROVE Typed'
  BY <1>5, ExchangeTyped, RefuseTyped, MakesSessionTyped, SaveDataTyped, FinishExchangeTyped,
     RenewRemoveTyped, RenewDataTyped DEF Exchange
<1> QED BY <1>1, <1>2, <1>3, <1>4, <1>5, FaultTyped, BackgroundTyped, ExpiryTyped, StutterTyped
     DEF Next

-----------------------------------------------------------------------------
(* What the steps do, by the phases they leave and reach.                  *)
SessionPhases == Grants \cup Revokes \cup {"app_write"}
Others(pr) == \A q \in Proc : q # pr => request'[q] = request[q]

LEMMA BecomeIs ==
  ASSUME Typed, NEW pr \in Proc
  PROVE  /\ \A r : Become(pr, r) => request'[pr] = r /\ Others(pr)
         /\ Finish(pr) => request'[pr] = Idle /\ Others(pr)
         /\ \A phase : Goto(pr, phase) =>
              /\ Others(pr)
              /\ request'[pr] = IF phase = "idle" THEN Idle ELSE [request[pr] EXCEPT !.at = phase]
BY DEF Typed, TypeOK, Become, Finish, Goto, Others

(* A request with another phase carries what it carried.                   *)
LEMMA Moved ==
  ASSUME NEW r \in Request, NEW phase
  PROVE  LET q == [r EXCEPT !.at = phase] IN
         /\ q.at = phase /\ q.then = r.then /\ q.user = r.user /\ q.row = r.row
         /\ q.email = r.email /\ q.type = r.type /\ q.right = r.right /\ q.trusted = r.trusted
         /\ q.changed = r.changed /\ q.all = r.all /\ q.token = r.token
         /\ q.session = r.session /\ q.app = r.app /\ q.code = r.code /\ q.secret = r.secret
         /\ q.todo = r.todo
BY DEF Request

(* The steps that have to do with sessions and applications.               *)
OtherStep(pr) == \/ Revocation(pr) \/ Authorization(pr) \/ Exchange(pr) \/ DoLogin(pr)

LEMMA RevokedFields ==
  ASSUME NEW r \in Request
  PROVE  /\ Revoked(r).at = "revoke" /\ Revoked(r).all = r.all /\ Revoked(r).user = r.user
         /\ Revoked(r).todo = r.todo \ {NextToRevoke(r)} /\ Revoked(r).then = r.then
         /\ Revoked(r).app = r.app /\ Revoked(r).code = r.code /\ Revoked(r).session = r.session
         /\ Revoked(r).token = r.token
         /\ Skipped(r) = Revoked(r) \/ (~r.all /\ Skipped(r) = Idle)
<1>1. r.all \in BOOLEAN
  BY DEF Request
<1> QED BY <1>1 DEF Request, Revoked, Skipped

LEMMA RevocationSteps ==
  ASSUME Typed, NEW pr \in Proc, Revocation(pr)
  PROVE  /\ UNCHANGED <<situation, users, tokens, proven, guesses, used, apps, codes, authorized>>
         /\ lost \subseteq lost' /\ Others(pr)
         /\ request[pr].at \in {"idle", "list"} \cup Revokes
         /\ request'[pr].at \in {"idle", "unauthorize"} \cup Revokes
<1> USE DEF accountTables, sessionTables, oauthTables, histories
<1> DEFINE r == request[pr]
<1>1. r \in Request /\ Sound(r, DOMAIN tokens, sessions, DOMAIN codes)
  BY Current
<1>2. ASSUME NEW s \in DOMAIN sessions, RevokeSessionById(pr, s)
      PROVE  r.at = "idle" /\ request'[pr].at = "revoke" /\ Others(pr)
  <2> DEFINE base == [Idle EXCEPT !.user = sessions[s].user]
  <2>1. base \in Request
    BY IdleTyped DEF Typed, RowsTyped, TypeOK, SessionRow, Request
  <2>2. request'[pr] = Revoking(base, {s}, "idle") /\ Others(pr) /\ r = Idle
    BY <1>2, BecomeIs DEF RevokeSessionById, Accept
  <2> HIDE DEF base
  <2> QED BY <2>1, <2>2, IdleFields DEF Revoking, Request
<1>3. CASE GetSessions(pr)
  <2> DEFINE base == Revoking(r, LiveSessions(r.user), "idle")
  <2>1. base.at = "revoke" /\ [base EXCEPT !.all = TRUE].at = "revoke"
    BY <1>1 DEF Revoking, Request
  <2>2. request'[pr] = [base EXCEPT !.all = TRUE] /\ Others(pr) /\ r.at = "list"
    BY <1>3, BecomeIs DEF GetSessions, At
  <2> HIDE DEF base
  <2> QED BY <1>3, <2>1, <2>2 DEF GetSessions, At, Revokes
<1>4. CASE RevokeSession(pr)
  <2>1. r.at = "revoke" /\ r.then \in {"idle", "unauthorize"}
    BY <1>1, <1>4 DEF RevokeSession, At, Sound, Revokes
  <2>2. /\ Others(pr)
        /\ \/ request'[pr] \in {Idle, Revoked(r), Skipped(r)}
           \/ \E phase \in {"unauthorize", "revoke_data"} : request'[pr] = [r EXCEPT !.at = phase]
    BY <1>4, <2>1, BecomeIs DEF RevokeSession
  <2>3. request'[pr].at \in {"idle", "unauthorize"} \cup Revokes
    <3>1. CASE request'[pr] \in {Idle, Revoked(r), Skipped(r)}
      BY <1>1, <3>1, RevokedFields, IdleFields DEF Revokes
    <3>2. ASSUME NEW phase \in {"unauthorize", "revoke_data"}, request'[pr] = [r EXCEPT !.at = phase]
          PROVE  request'[pr].at \in {"idle", "unauthorize"} \cup Revokes
      <4>1. request'[pr].at = phase
        BY <1>1, <3>2, Moved
      <4> QED BY <4>1 DEF Revokes
    <3> QED BY <2>2, <3>1, <3>2
  <2> QED BY <1>4, <2>1, <2>2, <2>3 DEF RevokeSession, At, Revokes
<1>5. CASE RevokeAccessToken(pr)
  <2>1. r.at = "revoke_data"
    BY <1>5 DEF RevokeAccessToken, At
  <2>2. /\ Others(pr)
        /\ request'[pr] = Skipped(r) \/ request'[pr] = [r EXCEPT !.at = "revoke_wait"]
    BY <1>5, BecomeIs DEF RevokeAccessToken
  <2>3. request'[pr].at \in {"idle", "unauthorize"} \cup Revokes
    <3>1. Skipped(r).at \in {"idle", "revoke"}
      BY <1>1, RevokedFields, IdleFields
    <3>2. [r EXCEPT !.at = "revoke_wait"].at = "revoke_wait"
      BY <1>1, Moved
    <3> QED BY <2>2, <3>1, <3>2 DEF Revokes
  <2> QED BY <1>5, <2>1, <2>2, <2>3 DEF RevokeAccessToken, At, Revokes
<1>6. CASE AwaitRemoval(pr)
  <2>1. request'[pr] = Revoked(r) /\ Others(pr)
    BY <1>6, BecomeIs DEF AwaitRemoval
  <2> QED BY <1>1, <1>6, <2>1, RevokedFields DEF AwaitRemoval, At, Revokes
<1>7. (\E s \in DOMAIN sessions : RevokeSessionById(pr, s)) =>
        UNCHANGED <<situation, users, tokens, proven, guesses, used, apps, codes, authorized, lost>>
  BY DEF RevokeSessionById, Accept
<1> QED BY <1>2, <1>3, <1>4, <1>5, <1>6, <1>7 DEF Revocation, Revokes

LEMMA GrantSteps ==
  ASSUME Typed, NEW pr \in Proc, Authorization(pr) \/ Exchange(pr)
  PROVE  /\ UNCHANGED <<situation, users, tokens, proven, guesses, used>>
         /\ lost \subseteq lost' /\ Others(pr)
         /\ request[pr].at \in {"idle", "app_write"} \cup Grants
         /\ request'[pr].at \in {"idle", "app_write", "revoke"} \cup Grants
<1> USE DEF accountTables, sessionTables, oauthTables, histories
<1> DEFINE r == request[pr]
           Kept == UNCHANGED <<situation, users, tokens, proven, guesses, used>> /\ lost \subseteq lost'
           Led(froms, tos) == Others(pr) /\ r.at \in froms /\ request'[pr].at \in tos
<1>1. r \in Request /\ Sound(r, DOMAIN tokens, sessions, DOMAIN codes) /\ pr \in DOMAIN request
  BY Current DEF Typed, TypeOK
<1>2. ASSUME NEW op, Accept(pr, op), UNCHANGED <<users, tokens, request, histories>>
      PROVE  Kept /\ Led({"idle"}, {"idle"})
  BY <1>2, IdleFields DEF Accept, Others
<1>3. ASSUME NEW c \in App, \/ DeleteApp(pr, c)
                            \/ \E u \in User : createOAuthApp(pr, u, c)
                            \/ \E k \in DOMAIN codes : RefuseExpiredCode(pr, k)
      PROVE  Kept /\ Led({"idle"}, {"idle"})
  BY <1>2, <1>3 DEF DeleteApp, createOAuthApp, RefuseExpiredCode
<1>4. ASSUME NEW c \in App, NEW op, NEW secret, ChangeOAuthApp(pr, c, op, secret)
      PROVE  Kept /\ Led({"idle"}, {"app_write"})
  <2> DEFINE q == [Idle EXCEPT !.at = "app_write", !.app = c, !.secret = secret]
  <2>1. q.at = "app_write"
    BY IdleTyped DEF Request
  <2>2. Others(pr) /\ request'[pr] = q /\ r = Idle
    BY <1>4, BecomeIs DEF ChangeOAuthApp, Accept
  <2> QED BY <1>4, <2>1, <2>2, IdleFields DEF ChangeOAuthApp, UnchangedTables, Accept
<1>5. ASSUME NEW u \in User, NEW c \in App, NEW response \in {"code", "implicit"},
             authorizeOAuthApp(pr, u, c, response)
      PROVE  Kept /\ Led({"idle"}, {"code", "implicit"})
  <2> DEFINE q == [Idle EXCEPT !.at = response, !.user = u, !.app = c]
  <2>1. q.at = response
    BY IdleTyped DEF Request
  <2>2. Others(pr) /\ request'[pr] = q /\ r = Idle
    BY <1>5, BecomeIs DEF authorizeOAuthApp, Accept
  <2> QED BY <1>5, <2>1, <2>2, IdleFields DEF authorizeOAuthApp, UnchangedTables, Accept
<1>6. ASSUME NEW u \in User, NEW c \in App, deauthorizeOAuthApp(pr, u, c)
      PROVE  Kept /\ Led({"idle"}, {"unauthorize", "revoke"})
  <2> DEFINE base == [Idle EXCEPT !.user = u, !.app = c]
             s == accessData[c][u].token
             q == IF s = 0 THEN [base EXCEPT !.at = "unauthorize"]
                  ELSE [base EXCEPT !.at = "revoke", !.todo = {s}, !.then = "unauthorize"]
  <2>1. base \in Request
    BY IdleTyped DEF Request
  <2>2. Others(pr) /\ request'[pr] = q /\ r = Idle
    BY <1>6, BecomeIs DEF deauthorizeOAuthApp, Accept
  <2>3. q.at \in {"unauthorize", "revoke"}
    <3> HIDE DEF base, s
    <3> QED BY <2>1 DEF Request
  <2> QED BY <1>6, <2>2, <2>3, IdleFields DEF deauthorizeOAuthApp, UnchangedTables, Accept
<1>7. ASSUME NEW k \in DOMAIN codes, getAccessToken(pr, k)
      PROVE  Kept /\ Led({"idle"}, {"exchange", "renew", "code_done"})
  <2> DEFINE data == accessData[codes[k].app][codes[k].user]
             base == [Idle EXCEPT !.at = ExchangePhase(data), !.then = "code_done"]
             more == [base EXCEPT !.user = codes[k].user, !.app = codes[k].app]
             q == [more EXCEPT !.code = k, !.token = data.token]
  <2>1. ExchangePhase(data) \in {"exchange", "renew", "code_done"}
    BY DEF ExchangePhase
  <2>2. Others(pr) /\ request'[pr] = q /\ r = Idle
    BY <1>7, BecomeIs DEF getAccessToken, Accept
  <2>3. q.at = ExchangePhase(data)
    <3> HIDE DEF data
    <3> QED BY IdleTyped DEF Request
  <2> HIDE DEF q, data
  <2> QED BY <1>7, <2>1, <2>2, <2>3, IdleFields DEF getAccessToken, UnchangedTables, Accept
<1>8. ASSUME NEW u \in User, NEW c \in App, Refresh(pr, c, u)
      PROVE  Kept /\ Led({"idle"}, {"renew"})
  <2> DEFINE q == [Idle EXCEPT !.at = "renew", !.user = u, !.app = c, !.token = accessData[c][u].token]
  <2>1. q.at = "renew"
    BY IdleTyped DEF Request
  <2>2. Others(pr) /\ request'[pr] = q /\ r = Idle
    BY <1>8, BecomeIs DEF Refresh, Accept
  <2> QED BY <1>8, <2>1, <2>2, IdleFields DEF Refresh, UnchangedTables, Accept
<1>9. CASE UpdateApp(pr) \/ SaveAuthorizedApp(pr) \/ DeleteAuthorizedApp(pr) \/ FinishExchange(pr)
  <2>1. /\ Others(pr) /\ request'[pr] = Idle /\ Kept
        /\ r.at \in {"app_write", "allow", "unauthorize", "code_done"}
    BY <1>9, BecomeIs DEF UpdateApp, SaveAuthorizedApp, DeleteAuthorizedApp, FinishExchange, At
  <2> QED BY <2>1, IdleFields DEF Grants
<1>10. CASE GetOAuthCodeRedirect(pr)
  <2> DEFINE q == [r EXCEPT !.at = "allow", !.code = Len(codes) + 1]
  <2>1. q.at = "allow" /\ [r EXCEPT !.at = "allow"].at = "allow"
    BY <1>1 DEF Request
  <2>2. Others(pr) /\ request'[pr] \in {q, [r EXCEPT !.at = "allow"]}
    BY <1>10, BecomeIs DEF GetOAuthCodeRedirect
  <2> HIDE DEF q
  <2> QED BY <1>10, <2>1, <2>2 DEF GetOAuthCodeRedirect, At, Grants
<1>11. CASE GetOAuthImplicitRedirect(pr) \/ ExchangeSession(pr) \/ RenewSession(pr)
  <2>1. PICK phase \in {"implicit_data", "exchange_data", "renew_data"} :
          Become(pr, [r EXCEPT !.at = phase, !.session = NewSessionId])
    BY <1>11 DEF GetOAuthImplicitRedirect, ExchangeSession, RenewSession
  <2>2. [r EXCEPT !.at = phase, !.session = NewSessionId].at = phase
    BY <1>1 DEF Request
  <2>3. Others(pr) /\ request'[pr].at = phase
    BY <2>1, <2>2, BecomeIs
  <2> QED BY <1>11, <2>3 DEF GetOAuthImplicitRedirect, ExchangeSession, RenewSession, At, Grants
<1>12. CASE SaveImplicitAccessData(pr) \/ SaveExchangedAccessData(pr)
  <2>1. PICK refresh \in {0, NewRefreshToken}, phase \in {"allow", "code_done"} :
          SaveAccessData(pr, refresh, phase)
    BY <1>12 DEF SaveImplicitAccessData, SaveExchangedAccessData
  <2>2. [r EXCEPT !.at = phase, !.session = 0].at = phase
    BY <1>1 DEF Request
  <2>3. Others(pr) /\ request'[pr].at \in {phase, "idle"} /\ Kept
    <3>1. Become(pr, [r EXCEPT !.at = phase, !.session = 0]) \/ Finish(pr)
      BY <2>1 DEF SaveAccessData
    <3>2. Kept
      BY <1>12, <2>1 DEF SaveAccessData, SaveImplicitAccessData, SaveExchangedAccessData, At
    <3> QED BY ZenonT(60), <2>2, <3>1, <3>2, BecomeIs, IdleFields
  <2> QED BY <1>12, <2>3 DEF SaveImplicitAccessData, SaveExchangedAccessData, At, Grants
<1>13. CASE RenewRemove(pr)
  <2>1. Others(pr) /\ request'[pr] = [r EXCEPT !.at = "renew_session"]
    BY <1>13, BecomeIs DEF RenewRemove
  <2>2. request'[pr].at = "renew_session"
    BY <1>1, <2>1, Moved
  <2> QED BY <1>13, <2>1, <2>2 DEF RenewRemove, At, Grants
<1>14. CASE RenewData(pr)
  <2>1. r.then \in {"idle", "code_done"} /\ r.at = "renew_data"
    BY <1>1, <1>14 DEF RenewData, At, Sound, Renews
  <2> DEFINE q == [r EXCEPT !.at = r.then, !.session = 0]
  <2>2. q.at = r.then
    BY <1>1 DEF Request
  <2>3. Others(pr) /\ request'[pr].at \in {"idle", "code_done"}
    <3>1. Become(pr, q) \/ Finish(pr)
      BY <1>14 DEF RenewData
    <3> HIDE DEF q
    <3>2. Others(pr) /\ request'[pr] \in {q, Idle}
      BY <3>1, BecomeIs
    <3> QED BY <2>1, <2>2, <3>2, IdleFields
  <2> QED BY <1>14, <2>1, <2>3 DEF RenewData, At, Grants
<1>15. CASE Authorization(pr)
  BY <1>15, <1>3, <1>4, <1>5, <1>6, <1>8, <1>9, <1>10, <1>11, <1>12
     DEF Authorization, updateOAuthApp, RegenerateOAuthAppSecret, Grants
<1>16. CASE Exchange(pr)
  <2>1. ASSUME NEW k \in DOMAIN codes, RefuseExpiredCode(pr, k) PROVE Kept /\ Led({"idle"}, {"idle"})
    BY <1>2, <2>1 DEF RefuseExpiredCode
  <2> QED BY <1>16, <1>7, <1>9, <1>11, <1>12, <1>13, <1>14, <2>1 DEF Exchange, Grants
<1> QED BY <1>15, <1>16

LEMMA OtherSteps ==
  ASSUME Typed, NEW pr \in Proc, OtherStep(pr)
  PROVE  /\ UNCHANGED <<situation, users, tokens, proven, guesses, used>>
         /\ lost \subseteq lost' /\ Others(pr)
         /\ request[pr].at \in SessionPhases \cup {"idle", "session", "list"}
         /\ request'[pr].at \in SessionPhases \cup {"idle"}
<1>1. CASE DoLogin(pr)
  <2>1. Others(pr) /\ request'[pr].at = "idle"
    BY <1>1, BecomeIs, IdleFields DEF DoLogin
  <2> QED BY <1>1, <2>1 DEF DoLogin, At, accountTables, histories
<1>2. CASE Revocation(pr)
  BY <1>2, RevocationSteps DEF SessionPhases, Revokes, Grants
<1>3. CASE Authorization(pr) \/ Exchange(pr)
  BY <1>3, GrantSteps DEF SessionPhases, Revokes
<1> QED BY <1>1, <1>2, <1>3 DEF OtherStep

(* What a request that is accepted carries.                                *)
Accepted(pr) == request[pr] = Idle /\ Others(pr) /\ UNCHANGED situation
Plain(r) == ~r.trusted /\ ~r.all /\ r.session = 0 /\ r.code = 0

LEMMA SignUpIs ==
  ASSUME Typed, NEW pr \in Proc, NEW u \in User, NEW e \in Email,
         CreateUserFromSignup(pr, u, e) \/ CreateUserWithToken(pr, u, e)
  PROVE  LET q == request'[pr] IN
         /\ Accepted(pr) /\ Plain(q) /\ q.at = "save" /\ q.user = u /\ q.email = e
         /\ q.row.status = "live" /\ q.row.type = FirstType /\ q.row.email = e /\ q.row.attempts = 0
         /\ (q.row.verified => <<u, e>> \in proven') /\ proven \subseteq proven'
         /\ ~Exists(u) /\ \A p \in Proc : request[p].user # u
         /\ UNCHANGED <<users, tokens, sessionTables, oauthTables, guesses, used, lost>>
<1> USE DEF accountTables, sessionTables, oauthTables, histories
<1> DEFINE row(verified) == [NoUser EXCEPT !.status = "live", !.type = FirstType, !.email = e,
                               !.verified = verified]
           base(verified) == [Idle EXCEPT !.at = "save", !.user = u, !.email = e, !.row = row(verified)]
           more == [base(FALSE) EXCEPT !.then = "mail"]
           q == request'[pr]
<1>1. ASSUME NEW verified \in BOOLEAN
      PROVE  /\ row(verified).status = "live" /\ row(verified).type = FirstType
             /\ row(verified).email = e /\ row(verified).attempts = 0
             /\ row(verified).verified = verified
  BY DEF NoUser
<1>2. ASSUME NEW verified \in BOOLEAN
      PROVE  LET b == base(verified) IN
             /\ b.at = "save" /\ b.user = u /\ b.email = e /\ b.row = row(verified) /\ ~b.trusted
             /\ ~b.all /\ b.session = 0 /\ b.code = 0
  <2> HIDE DEF row
  <2> QED BY IdleTyped, IdleFields DEF Request
<1>3. /\ more.at = "save" /\ more.user = u /\ more.email = e /\ more.row = row(FALSE) /\ ~more.trusted
      /\ ~more.all /\ more.session = 0 /\ more.code = 0
  <2> HIDE DEF row
  <2> QED BY IdleTyped, IdleFields DEF Request
<1>4. CASE CreateUserFromSignup(pr, u, e)
  <2>1. Accepted(pr) /\ q = more
    BY <1>4, BecomeIs DEF CreateUserFromSignup, Accept, Accepted, SigningUp
  <2> HIDE DEF row, more
  <2> QED BY <1>1, <1>3, <1>4, <2>1 DEF CreateUserFromSignup, Unchanged, Plain
<1>5. CASE CreateUserWithToken(pr, u, e)
  <2>1. Accepted(pr) /\ q = base(TRUE) /\ proven' = proven \cup {<<u, e>>}
    BY <1>5, BecomeIs DEF CreateUserWithToken, Accept, Accepted, SigningUp
  <2> HIDE DEF row, base
  <2> QED BY <1>1, <1>2, <1>5, <2>1 DEF CreateUserWithToken, Plain
<1> QED BY <1>4, <1>5

(* A password is tried.                                                    *)
Tries(pr, u, right) ==
  \/ login(pr, u, right) \/ UpdatePasswordAsUser(pr, u, right)
  \/ \E e \in Email : updateUser(pr, u, u, e, right) /\ e # users[u].email

LEMMA TryIs ==
  ASSUME Typed, NEW pr \in Proc, NEW u \in User, NEW right \in BOOLEAN, Tries(pr, u, right)
  PROVE  LET q == request'[pr] IN
         /\ Accepted(pr) /\ Plain(q) /\ q.at = "attempt" /\ q.user = u /\ q.row = users[u]
         /\ q.right = right /\ q.token = 0 /\ IsLive(u) /\ MayTry(u)
         /\ guesses' = IF right THEN guesses ELSE [guesses EXCEPT ![u] = @ + 1]
         /\ UNCHANGED <<users, tokens, sessionTables, oauthTables, proven, used, lost>>
<1> USE DEF accountTables, sessionTables, oauthTables, histories
<1> DEFINE q == request'[pr]
<1>1. CASE login(pr, u, right) \/ UpdatePasswordAsUser(pr, u, right)
  <2>1. PICK phase \in {"session", "password"} : TryPassword(pr, u, right, Trying(u, right, phase))
    BY <1>1 DEF login, UpdatePasswordAsUser
  <2> DEFINE r == Trying(u, right, phase)
  <2>2. /\ r.at = "attempt" /\ r.user = u /\ r.row = users[u] /\ r.right = right /\ r.token = 0
        /\ Plain(r)
    BY IdleTyped, IdleFields DEF Request, Trying, Plain
  <2> HIDE DEF r
  <2>3. Accepted(pr) /\ q = r /\ IsLive(u)
    BY <1>1, <2>1, BecomeIs DEF r, TryPassword, login, UpdatePasswordAsUser, Accept, Accepted
  <2> QED BY <2>1, <2>2, <2>3 DEF TryPassword
<1>2. ASSUME NEW e \in Email, updateUser(pr, u, u, e, right), e # users[u].email
      PROVE  /\ Accepted(pr) /\ Plain(q) /\ q.at = "attempt" /\ q.user = u /\ q.row = users[u]
             /\ q.right = right /\ q.token = 0 /\ IsLive(u) /\ MayTry(u)
             /\ guesses' = IF right THEN guesses ELSE [guesses EXCEPT ![u] = @ + 1]
             /\ UNCHANGED <<users, tokens, sessionTables, oauthTables, proven, used, lost>>
  <2> DEFINE base == Updating(u, e)
             r == [base EXCEPT !.at = "attempt", !.row = users[u], !.right = right, !.then = "update"]
  <2>1. base \in Request /\ base.user = u /\ base.token = 0 /\ Plain(base)
    BY UpdatingIs DEF Plain
  <2>2. TryPassword(pr, u, right, r) /\ IsLive(u) /\ request[pr] = Idle /\ UNCHANGED situation
    BY <1>2 DEF updateUser, Accept
  <2> HIDE DEF base
  <2>3. /\ r.at = "attempt" /\ r.user = u /\ r.row = users[u] /\ r.right = right /\ r.token = 0
        /\ Plain(r)
    BY <2>1 DEF Request, Plain
  <2> HIDE DEF r
  <2>4. Accepted(pr) /\ q = r
    BY <2>2, BecomeIs DEF TryPassword, Accepted
  <2> QED BY <2>2, <2>3, <2>4 DEF TryPassword
<1> QED BY <1>1, <1>2 DEF Tries

(* A row is to be changed, without a password.                             *)
Changes(pr, u) ==
  \/ \E actor \in User, e \in Email, right \in BOOLEAN :
       updateUser(pr, actor, u, e, right) /\ (actor # u \/ e = users[u].email)
  \/ \E actor \in User, type \in {"normal", "moderator", "admin"} : UpdateUserType(pr, actor, u, type)

LEMMA ChangeIs ==
  ASSUME Typed, NEW pr \in Proc, NEW u \in User, Changes(pr, u)
  PROVE  LET q == request'[pr] IN
         /\ Accepted(pr) /\ q.at \in {"update", "read"} /\ q.user = u /\ q.token = 0
         /\ ~q.all /\ q.session = 0 /\ q.code = 0 /\ IsLive(u)
         /\ q.trusted => "type" \in situation.ops
         /\ UNCHANGED <<users, tokens, sessionTables, oauthTables, histories>>
<1> USE DEF accountTables, sessionTables, oauthTables, histories
<1> DEFINE q == request'[pr]
<1>1. CASE \E actor \in User, e \in Email, right \in BOOLEAN :
             updateUser(pr, actor, u, e, right) /\ (actor # u \/ e = users[u].email)
  <2>1. PICK e \in Email :
          request[pr] = Idle /\ UNCHANGED situation /\ IsLive(u) /\ Unchanged /\ Become(pr, Updating(u, e))
    BY <1>1 DEF updateUser, Accept
  <2>2. Accepted(pr) /\ q = Updating(u, e)
    BY <2>1, BecomeIs DEF Accepted
  <2> QED BY <2>1, <2>2, UpdatingIs DEF Unchanged
<1>2. CASE \E actor \in User, type \in {"normal", "moderator", "admin"} : UpdateUserType(pr, actor, u, type)
  <2> DEFINE b == Updating(u, users[u].email)
  <2>1. PICK type \in {"normal", "moderator", "admin"} :
          /\ Accepted(pr) /\ IsLive(u) /\ Unchanged /\ "type" \in situation.ops
          /\ q = [b EXCEPT !.at = "read", !.type = type, !.trusted = TRUE]
    BY <1>2, BecomeIs DEF UpdateUserType, Accept, Accepted, HasType
  <2>2. b \in Request /\ b.user = u /\ b.token = 0 /\ ~b.all /\ b.session = 0 /\ b.code = 0
    <3>1. users[u].email \in Email \cup {None}
      BY Current DEF UserRow
    <3> QED BY <3>1, UpdatingIs
  <2> HIDE DEF b
  <2>3. q.at = "read" /\ q.user = u /\ q.token = 0 /\ ~q.all /\ q.session = 0 /\ q.code = 0
    BY <2>1, <2>2 DEF Request
  <2> QED BY <2>1, <2>3 DEF Unchanged
<1> QED BY <1>1, <1>2 DEF Changes

(* Other requests about an account, by the phase they start in.            *)
Asks(pr, u, k, phase) ==
  \/ phase = "mail" /\ k = 0 /\ sendVerificationEmail(pr, u)
  \/ phase = "recover" /\ k = 0 /\ SendPasswordReset(pr, u)
  \/ phase = "password" /\ k = 0 /\ \E actor \in User : UpdatePasswordByUserIdSendEmail(pr, actor, u)
  \/ phase = "delete" /\ k = 0 /\ \E actor \in User : DeleteUser(pr, actor, u)
  \/ phase = "verify" /\ k \in DOMAIN tokens /\ u = tokens[k].user /\ VerifyEmailFromToken(pr, k)
  \/ phase = "password" /\ k \in DOMAIN tokens /\ u = tokens[k].user /\ ResetPasswordFromToken(pr, k)

LEMMA AskIs ==
  ASSUME Typed, NEW pr \in Proc, NEW u \in User, NEW k, NEW phase, Asks(pr, u, k, phase)
  PROVE  LET q == request'[pr] IN
         /\ Accepted(pr) /\ Plain(q) /\ q.at = phase /\ q.user = u /\ q.token = k
         /\ phase = "delete" => IsLive(u)
         /\ k # 0 => k \in DOMAIN tokens /\ tokens[k].live
         /\ phase = "verify" => <<u, q.email>> \in proven' /\ k # 0
         /\ proven \subseteq proven'
         /\ UNCHANGED <<users, tokens, sessionTables, oauthTables, guesses, used, lost>>
<1> USE DEF accountTables, sessionTables, oauthTables, histories
<1> DEFINE q == request'[pr]
<1>1. CASE \/ phase = "mail" /\ k = 0 /\ sendVerificationEmail(pr, u)
           \/ phase = "recover" /\ k = 0 /\ SendPasswordReset(pr, u)
  <2>1. Accepted(pr) /\ Unchanged /\ k = 0 /\ phase \in {"mail", "recover"}
        /\ q = [Idle EXCEPT !.at = phase, !.user = u, !.email = users[u].email]
    BY <1>1, BecomeIs DEF sendVerificationEmail, SendPasswordReset, Accept, Accepted
  <2>2. Plain(q) /\ q.at = phase /\ q.user = u /\ q.token = 0
    BY <2>1, IdleTyped, IdleFields DEF Request, Plain
  <2> QED BY <2>1, <2>2 DEF Unchanged
<1>2. CASE phase = "password" /\ k = 0 /\ \E actor \in User : UpdatePasswordByUserIdSendEmail(pr, actor, u)
  <2>1. Accepted(pr) /\ Unchanged /\ q = [Idle EXCEPT !.at = "password", !.user = u]
    BY <1>2, BecomeIs DEF UpdatePasswordByUserIdSendEmail, Accept, Accepted
  <2>2. Plain(q) /\ q.at = phase /\ q.user = u /\ q.token = 0
    BY <1>2, <2>1, IdleTyped, IdleFields DEF Request, Plain
  <2> QED BY <1>2, <2>1, <2>2 DEF Unchanged
<1>3. CASE phase = "delete" /\ k = 0 /\ \E actor \in User : DeleteUser(pr, actor, u)
  <2>1. Accepted(pr) /\ Unchanged /\ q = [Idle EXCEPT !.at = "delete", !.user = u, !.then = "list"]
        /\ IsLive(u)
    BY <1>3, BecomeIs DEF DeleteUser, Accept, Accepted, HasType
  <2>2. Plain(q) /\ q.at = phase /\ q.user = u /\ q.token = 0
    BY <1>3, <2>1, IdleTyped, IdleFields DEF Request, Plain
  <2> QED BY <1>3, <2>1, <2>2 DEF Unchanged
<1>4. CASE phase = "verify" /\ k \in DOMAIN tokens /\ u = tokens[k].user /\ VerifyEmailFromToken(pr, k)
  <2>1. /\ Accepted(pr) /\ tokens[k].live /\ proven' = proven \cup {<<u, tokens[k].email>>}
        /\ q = [Idle EXCEPT !.at = "verify", !.user = u, !.email = tokens[k].email, !.token = k]
        /\ UNCHANGED <<users, tokens, sessionTables, oauthTables, guesses, used, lost>>
    BY <1>4, BecomeIs DEF VerifyEmailFromToken, Accept, Accepted
  <2>2. Plain(q) /\ q.at = phase /\ q.user = u /\ q.token = k /\ q.email = tokens[k].email
    BY <1>4, <2>1, IdleTyped, IdleFields DEF Request, Plain
  <2>3. k # 0
    BY <1>4, SeqDomain DEF Typed, RowsTyped
  <2> QED BY <1>4, <2>1, <2>2, <2>3
<1>5. CASE phase = "password" /\ k \in DOMAIN tokens /\ u = tokens[k].user /\ ResetPasswordFromToken(pr, k)
  <2>1. /\ Accepted(pr) /\ tokens[k].live /\ Unchanged
        /\ q = [Idle EXCEPT !.at = "password", !.user = u, !.token = k]
    BY <1>5, BecomeIs DEF ResetPasswordFromToken, Accept, Accepted
  <2>2. Plain(q) /\ q.at = phase /\ q.user = u /\ q.token = k
    BY <1>5, <2>1, IdleTyped, IdleFields DEF Request, Plain
  <2> QED BY <1>5, <2>1, <2>2 DEF Unchanged
<1> QED BY <1>1, <1>2, <1>3, <1>4, <1>5 DEF Asks

(* The steps of the signed-up and of those who change their accounts.      *)
AccountStep(pr) ==
  \/ \E u \in User, e \in Email : CreateUserFromSignup(pr, u, e) \/ CreateUserWithToken(pr, u, e)
  \/ \E u \in User, right \in BOOLEAN : Tries(pr, u, right)
  \/ \E u \in User : Changes(pr, u) \/ \E k, phase : Asks(pr, u, k, phase)
  \/ Save(pr) \/ SendEmailVerification(pr) \/ VerifyEmail(pr) \/ DeleteToken(pr)
  \/ UpdateFailedPasswordAttempts(pr) \/ UpdatePassword(pr) \/ CreatePasswordRecoveryToken(pr)
  \/ UpdateUser(pr) \/ ReadOldUser(pr) \/ Update(pr) \/ DeleteRow(pr)

LEMMA Steps ==
  ASSUME Typed, [Next]_vars
  PROVE  \/ \E pr \in Proc : AccountStep(pr) \/ OtherStep(pr) \/ Fault(pr)
         \/ \E s \in removing : RemoveInBackground(s)
         \/ Expiry \/ UNCHANGED vars
<1>1. ASSUME NEW pr \in Proc, SigningUpAndIn(pr) PROVE AccountStep(pr) \/ OtherStep(pr)
  <2>1. \A k \in DOMAIN tokens : tokens[k].user \in User
    BY DEF Typed, TypeOK, TokenRow
  <2>2. ASSUME NEW k \in DOMAIN tokens, VerifyEmailFromToken(pr, k)
        PROVE  Asks(pr, tokens[k].user, k, "verify")
    BY <2>2 DEF Asks
  <2>3. ASSUME NEW u \in User, sendVerificationEmail(pr, u) PROVE Asks(pr, u, 0, "mail")
    BY <2>3 DEF Asks
  <2> QED BY <1>1, <2>1, <2>2, <2>3 DEF SigningUpAndIn, AccountStep, OtherStep, Tries
<1>2. ASSUME NEW pr \in Proc, ChangingAccounts(pr) PROVE AccountStep(pr)
  <2>1. \A k \in DOMAIN tokens : tokens[k].user \in User
    BY DEF Typed, TypeOK, TokenRow
  <2>2. ASSUME NEW k \in DOMAIN tokens, ResetPasswordFromToken(pr, k)
        PROVE  Asks(pr, tokens[k].user, k, "password")
    BY <2>2 DEF Asks
  <2>3. ASSUME NEW u \in User, SendPasswordReset(pr, u) PROVE Asks(pr, u, 0, "recover")
    BY <2>3 DEF Asks
  <2>4. ASSUME NEW u \in User, NEW actor \in User
        PROVE  /\ UpdatePasswordByUserIdSendEmail(pr, actor, u) => Asks(pr, u, 0, "password")
               /\ DeleteUser(pr, actor, u) => Asks(pr, u, 0, "delete")
               /\ \A type \in {"normal", "moderator", "admin"} :
                    UpdateUserType(pr, actor, u, type) => Changes(pr, u)
    BY DEF Asks, Changes
  <2>5. ASSUME NEW actor \in User, NEW u \in User, NEW e \in Email, NEW right \in BOOLEAN,
               updateUser(pr, actor, u, e, right)
        PROVE  Tries(pr, u, right) \/ Changes(pr, u)
    BY <2>5 DEF Tries, Changes
  <2>6. ASSUME NEW u \in User, NEW right \in BOOLEAN, UpdatePasswordAsUser(pr, u, right)
        PROVE  Tries(pr, u, right)
    BY <2>6 DEF Tries
  <2> QED BY <1>2, <2>1, <2>2, <2>3, <2>4, <2>5, <2>6 DEF ChangingAccounts, AccountStep
<1> QED BY <1>1, <1>2 DEF Next, OtherStep

(* What a request carries goes on from phase to phase.                     *)
Carries(pr) ==
  LET r == request[pr]
      q == request'[pr]
  IN /\ q.user = r.user /\ q.row = r.row /\ q.email = r.email /\ q.right = r.right
     /\ q.trusted = r.trusted /\ q.all = r.all /\ q.token = r.token
     /\ q.session = r.session /\ q.code = r.code

(* The rows of all others stay; of this one, these columns.                *)
RowsOf(u) == \A v \in User : v # u => users'[v] = users[v]

LEMMA MovedIs ==
  ASSUME Typed, NEW pr \in Proc, NEW phase, request'[pr] = [request[pr] EXCEPT !.at = phase]
  PROVE  request'[pr].at = phase /\ Carries(pr) /\ request'[pr].then = request[pr].then
<1>1. request[pr] \in Request
  BY Current
<1> QED BY <1>1, Moved DEF Carries

LEMMA SaveIs ==
  ASSUME Typed, NEW pr \in Proc, Save(pr)
  PROVE  LET r == request[pr] IN
         /\ r.at = "save" /\ r.user \in User /\ r.row \in UserRow
         /\ Others(pr) /\ UNCHANGED <<situation, tokens, sessionTables, oauthTables, histories>>
         /\ request'[pr] = Idle \/ (request'[pr].at = "mail" /\ Carries(pr))
         /\ RowsOf(r.user)
         /\ \/ users' = users /\ request'[pr] = Idle
            \/ users'[r.user] = r.row
<1> DEFINE r == request[pr]
<1>1. /\ r.at = "save" /\ r.user \in User /\ r.row \in UserRow /\ r.then \in {"idle", "mail"}
      /\ users \in [User -> UserRow]
  BY Current DEF Save, At, Sound, Request, Typed, TypeOK
<1>2. UNCHANGED <<situation, tokens, sessionTables, oauthTables, histories>>
  BY DEF Save, At
<1>3. \/ Finish(pr) /\ UNCHANGED users
      \/ users' = [users EXCEPT ![r.user] = r.row] /\ Goto(pr, r.then)
  BY DEF Save
<1>4. CASE Finish(pr) /\ UNCHANGED users
  BY <1>1, <1>2, <1>4, BecomeIs DEF RowsOf
<1>5. CASE users' = [users EXCEPT ![r.user] = r.row] /\ Goto(pr, r.then)
  <2>1. Others(pr) /\ (request'[pr] = Idle \/ request'[pr] = [r EXCEPT !.at = "mail"])
    BY <1>1, <1>5, BecomeIs
  <2>2. request'[pr] = Idle \/ (request'[pr].at = "mail" /\ Carries(pr))
    BY <2>1, MovedIs
  <2> QED BY <1>1, <1>2, <1>5, <2>1, <2>2 DEF RowsOf
<1> QED BY <1>3, <1>4, <1>5

LEMMA EndIs ==
  ASSUME Typed, NEW pr \in Proc,
         SendEmailVerification(pr) \/ CreatePasswordRecoveryToken(pr) \/ DeleteToken(pr)
  PROVE  /\ request[pr].at \in {"mail", "recover", "spend"} /\ request'[pr] = Idle /\ Others(pr)
         /\ UNCHANGED <<situation, users, sessionTables, oauthTables, proven, guesses, lost>>
BY BecomeIs DEF SendEmailVerification, CreatePasswordRecoveryToken, DeleteToken, At, histories

LEMMA VerifyIs ==
  ASSUME Typed, NEW pr \in Proc, VerifyEmail(pr)
  PROVE  LET r == request[pr] IN
         /\ r.at = "verify" /\ r.user \in User /\ r.token \in DOMAIN tokens
         /\ Others(pr) /\ UNCHANGED <<situation, tokens, sessionTables, oauthTables, proven, guesses, lost>>
         /\ RowsOf(r.user)
         /\ \/ users' = users /\ used' = used /\ request'[pr] = Idle
            \/ /\ users'[r.user].email = r.email /\ users'[r.user].verified
               /\ users'[r.user].attempts = users[r.user].attempts
               /\ users'[r.user].type = users[r.user].type
               /\ users'[r.user].status = users[r.user].status
               /\ used' = [used EXCEPT ![r.token] = @ + 1]
               /\ request'[pr].at = "spend" /\ Carries(pr)
<1> DEFINE r == request[pr]
<1>1. /\ r.at = "verify" /\ r.user \in User /\ r.token \in DOMAIN tokens
      /\ users \in [User -> UserRow]
  BY Current DEF VerifyEmail, At, Sound, Request, Typed, TypeOK
<1>2. UNCHANGED <<situation, tokens, sessionTables, oauthTables, proven, guesses, lost>>
  BY DEF VerifyEmail, At
<1>3. \/ Finish(pr) /\ UNCHANGED <<users, used>>
      \/ /\ users' = [users EXCEPT ![r.user].email = r.email, ![r.user].verified = TRUE]
         /\ used' = [used EXCEPT ![r.token] = @ + 1]
         /\ Goto(pr, "spend")
  BY DEF VerifyEmail
<1>4. CASE Finish(pr) /\ UNCHANGED <<users, used>>
  BY <1>1, <1>2, <1>4, BecomeIs DEF RowsOf
<1>5. CASE /\ users' = [users EXCEPT ![r.user].email = r.email, ![r.user].verified = TRUE]
           /\ used' = [used EXCEPT ![r.token] = @ + 1]
           /\ Goto(pr, "spend")
  <2>1. Others(pr) /\ request'[pr] = [r EXCEPT !.at = "spend"]
    BY <1>5, BecomeIs
  <2>2. request'[pr].at = "spend" /\ Carries(pr)
    BY <2>1, MovedIs
  <2>3. /\ users'[r.user].email = r.email /\ users'[r.user].verified
        /\ users'[r.user].attempts = users[r.user].attempts
        /\ users'[r.user].type = users[r.user].type
        /\ users'[r.user].status = users[r.user].status
    BY <1>1, <1>5 DEF UserRow
  <2>4. RowsOf(r.user)
    BY <1>1, <1>5 DEF RowsOf
  <2> QED BY <1>1, <1>2, <1>5, <2>1, <2>2, <2>3, <2>4
<1> QED BY <1>3, <1>4, <1>5

(* Two steps that write the number of attempts.                            *)
LEMMA AttemptIs ==
  ASSUME Typed, NEW pr \in Proc, UpdateFailedPasswordAttempts(pr)
  PROVE  LET r == request[pr] IN
         /\ r.at = "attempt" /\ r.user \in User /\ r.row \in UserRow /\ r.token = 0
         /\ Others(pr) /\ UNCHANGED <<situation, tokens, sessionTables, oauthTables, proven, used, lost>>
         /\ RowsOf(r.user) /\ users'[r.user] = [users[r.user] EXCEPT !.attempts = Attempts(r)]
         /\ users'[r.user].attempts = Attempts(r)
         /\ users'[r.user].email = users[r.user].email /\ users'[r.user].verified = users[r.user].verified
         /\ users'[r.user].type = users[r.user].type /\ users'[r.user].status = users[r.user].status
         /\ guesses' = IF r.right THEN [guesses EXCEPT ![r.user] = 0] ELSE guesses
         /\ \/ request'[pr] = Idle
            \/ r.right /\ request'[pr].at \in {"session", "password", "update"} /\ Carries(pr)
<1> DEFINE r == request[pr]
<1>1. /\ r.at = "attempt" /\ r.user \in User /\ r.row \in UserRow /\ r.token = 0
      /\ users \in [User -> UserRow] /\ r.then \in {"session", "password", "update"}
  BY Current DEF UpdateFailedPasswordAttempts, At, Sound, Request, Typed, TypeOK
<1>2. /\ UNCHANGED <<situation, tokens, sessionTables, oauthTables, proven, used, lost>>
      /\ users' = [users EXCEPT ![r.user].attempts = Attempts(r)]
      /\ guesses' = IF r.right THEN [guesses EXCEPT ![r.user] = 0] ELSE guesses
      /\ Finish(pr) \/ (r.right /\ Goto(pr, r.then))
  BY DEF UpdateFailedPasswordAttempts, At
<1>3. /\ RowsOf(r.user) /\ users'[r.user] = [users[r.user] EXCEPT !.attempts = Attempts(r)]
  BY <1>1, <1>2 DEF RowsOf
<1>4. /\ users'[r.user].attempts = Attempts(r)
      /\ users'[r.user].email = users[r.user].email /\ users'[r.user].verified = users[r.user].verified
      /\ users'[r.user].type = users[r.user].type /\ users'[r.user].status = users[r.user].status
  BY <1>1, <1>3 DEF UserRow
<1>5. /\ Others(pr)
      /\ request'[pr] = Idle \/ (r.right /\ request'[pr] = [r EXCEPT !.at = r.then])
  BY <1>1, <1>2, BecomeIs
<1>6. \/ request'[pr] = Idle
      \/ r.right /\ request'[pr].at \in {"session", "password", "update"} /\ Carries(pr)
  BY <1>1, <1>5, MovedIs
<1> QED BY <1>1, <1>2, <1>3, <1>4, <1>5, <1>6

LEMMA PasswordIs ==
  ASSUME Typed, NEW pr \in Proc, UpdatePassword(pr)
  PROVE  LET r == request[pr] IN
         /\ r.at = "password" /\ r.user \in User /\ r.token \in DOMAIN tokens \cup {0}
         /\ Others(pr) /\ UNCHANGED <<situation, tokens, sessionTables, oauthTables, proven, lost>>
         /\ RowsOf(r.user) /\ users'[r.user].attempts = 0
         /\ users'[r.user].email = users[r.user].email /\ users'[r.user].verified = users[r.user].verified
         /\ users'[r.user].type = users[r.user].type /\ users'[r.user].status = users[r.user].status
         /\ guesses' = [guesses EXCEPT ![r.user] = 0]
         /\ \/ r.token = 0 /\ used' = used /\ request'[pr] = Idle
            \/ /\ r.token # 0 /\ used' = [used EXCEPT ![r.token] = @ + 1]
               /\ request'[pr].at = "spend" /\ Carries(pr)
<1> DEFINE r == request[pr]
<1>1. /\ r.at = "password" /\ r.user \in User /\ r.token \in DOMAIN tokens \cup {0}
      /\ users \in [User -> UserRow]
  BY Current DEF UpdatePassword, At, Sound, Typed, TypeOK
<1>2. /\ UNCHANGED <<situation, tokens, sessionTables, oauthTables, proven, lost>>
      /\ users' = [users EXCEPT ![r.user].attempts = 0]
      /\ guesses' = [guesses EXCEPT ![r.user] = 0]
      /\ \/ r.token = 0 /\ used' = used /\ Goto(pr, "idle")
         \/ r.token # 0 /\ used' = [used EXCEPT ![r.token] = @ + 1] /\ Goto(pr, "spend")
  BY DEF UpdatePassword, At
<1>3. /\ RowsOf(r.user) /\ users'[r.user] = [users[r.user] EXCEPT !.attempts = 0]
  BY <1>1, <1>2 DEF RowsOf
<1>4. /\ users'[r.user].attempts = 0
      /\ users'[r.user].email = users[r.user].email /\ users'[r.user].verified = users[r.user].verified
      /\ users'[r.user].type = users[r.user].type /\ users'[r.user].status = users[r.user].status
  BY <1>1, <1>3 DEF UserRow
<1>5. /\ Others(pr)
      /\ r.token = 0 => request'[pr] = Idle
      /\ r.token # 0 => request'[pr] = [r EXCEPT !.at = "spend"]
  BY <1>1, <1>2, BecomeIs
<1>6. r.token # 0 => request'[pr].at = "spend" /\ Carries(pr)
  BY <1>5, MovedIs
<1> QED BY <1>1, <1>2, <1>3, <1>4, <1>5, <1>6

LEMMA ReadIs ==
  ASSUME Typed, NEW pr \in Proc, ReadOldUser(pr)
  PROVE  LET r == request[pr]
             q == request'[pr] IN
         /\ r.at = "read" /\ r.user \in User /\ Others(pr)
         /\ UNCHANGED <<situation, users, tokens, sessionTables, oauthTables, histories>>
         /\ q.at = "write" /\ q.user = r.user /\ q.row = users[r.user] /\ q.trusted = r.trusted
         /\ q.all = r.all /\ q.session = r.session /\ q.code = r.code
<1> DEFINE r == request[pr]
           q == [r EXCEPT !.at = "write", !.row = users[r.user]]
<1>1. r \in Request /\ r.user \in User
  BY Current DEF ReadOldUser, At, Sound
<1>2. r.at = "read" /\ UNCHANGED <<situation, accountTables, sessionTables, oauthTables, histories>>
      /\ Become(pr, q)
  BY DEF ReadOldUser, At, Unchanged
<1>3. /\ q.at = "write" /\ q.user = r.user /\ q.row = users[r.user] /\ q.trusted = r.trusted
      /\ q.all = r.all /\ q.session = r.session /\ q.code = r.code
  BY <1>1 DEF Request
<1> HIDE DEF q
<1>4. Others(pr) /\ request'[pr] = q
  BY <1>2, BecomeIs
<1> QED BY <1>1, <1>2, <1>3, <1>4 DEF accountTables

LEMMA RecheckIs ==
  ASSUME Typed, NEW pr \in Proc, UpdateUser(pr)
  PROVE  LET r == request[pr]
             q == request'[pr] IN
         /\ r.at = "update" /\ r.user \in User /\ Others(pr)
         /\ UNCHANGED <<situation, users, tokens, sessionTables, oauthTables, histories>>
         /\ q = Idle \/ (/\ q.at = "read" /\ q.user = r.user /\ q.trusted = r.trusted
                         /\ q.all = r.all /\ q.session = r.session /\ q.code = r.code)
<1> DEFINE r == request[pr]
           q == [r EXCEPT !.at = "read", !.changed = (r.email # users[r.user].email)]
<1>1. r \in Request /\ r.user \in User
  BY Current DEF UpdateUser, At, Sound
<1>2. /\ r.at = "update"
      /\ UNCHANGED <<situation, accountTables, sessionTables, oauthTables, histories>>
      /\ Become(pr, q) \/ Finish(pr)
  BY DEF UpdateUser, At, Unchanged
<1>3. /\ q.at = "read" /\ q.user = r.user /\ q.trusted = r.trusted
      /\ q.all = r.all /\ q.session = r.session /\ q.code = r.code
  BY <1>1 DEF Request
<1> HIDE DEF q
<1>4. Others(pr) /\ request'[pr] \in {Idle, q}
  BY <1>2, BecomeIs
<1> QED BY <1>1, <1>2, <1>3, <1>4 DEF accountTables

LEMMA UpdateIs ==
  ASSUME Typed, NEW pr \in Proc, Update(pr)
  PROVE  LET r == request[pr]
             q == request'[pr] IN
         /\ r.at = "write" /\ r.user \in User /\ r.row \in UserRow
         /\ Others(pr) /\ UNCHANGED <<situation, tokens, sessionTables, oauthTables, histories>>
         /\ q = Idle \/ (/\ q.at = "mail" /\ q.user = r.user /\ q.trusted = r.trusted /\ q.all = r.all
                         /\ q.session = r.session /\ q.code = r.code)
         /\ RowsOf(r.user)
         /\ \/ users' = users
            \/ /\ users'[r.user].email = r.email
               /\ users'[r.user].verified => r.row.verified /\ r.email = r.row.email
               /\ users'[r.user].attempts = r.row.attempts
               /\ users'[r.user].type = IF r.trusted THEN r.type ELSE r.row.type
               /\ users'[r.user].status = IF r.trusted THEN "live" ELSE r.row.status
<1> DEFINE r == request[pr]
           q == [r EXCEPT !.at = "mail", !.email = IF r.changed THEN @ ELSE None]
<1>1. r \in Request /\ r.at = "write" /\ r.user \in User /\ r.row \in UserRow /\ users \in [User -> UserRow]
  BY Current DEF Update, At, Sound, Request, Typed, TypeOK
<1>2. /\ UNCHANGED <<situation, tokens, sessionTables, oauthTables, histories>>
      /\ Finish(pr) \/ Become(pr, q)
      /\ UNCHANGED users \/ users' = [users EXCEPT ![r.user] = UpdatedUser(r)]
  BY DEF Update, At
<1>3. /\ q.at = "mail" /\ q.user = r.user /\ q.trusted = r.trusted /\ q.all = r.all
      /\ q.session = r.session /\ q.code = r.code
  BY <1>1 DEF Request
<1> HIDE DEF q
<1>4. Others(pr) /\ (request'[pr] = Idle \/ request'[pr] = q)
  BY <1>2, BecomeIs
<1>5. /\ UpdatedUser(r).email = r.email
      /\ UpdatedUser(r).verified => r.row.verified /\ r.email = r.row.email
      /\ UpdatedUser(r).attempts = r.row.attempts
      /\ UpdatedUser(r).type = IF r.trusted THEN r.type ELSE r.row.type
      /\ UpdatedUser(r).status = IF r.trusted THEN "live" ELSE r.row.status
  BY <1>1 DEF UpdatedUser, EmailVerified, UserRow
<1>6. RowsOf(r.user) /\ (users' = users \/ users'[r.user] = UpdatedUser(r))
  BY <1>1, <1>2 DEF RowsOf
<1> QED BY <1>1, <1>2, <1>3, <1>4, <1>5, <1>6

LEMMA DeleteIs ==
  ASSUME Typed, NEW pr \in Proc, DeleteRow(pr)
  PROVE  LET r == request[pr] IN
         /\ r.at = "delete" /\ r.user \in User
         /\ Others(pr) /\ UNCHANGED <<situation, tokens, sessionTables, oauthTables, histories>>
         /\ request'[pr].at = "list" /\ Carries(pr)
         /\ RowsOf(r.user) /\ users'[r.user].status = "deleted"
         /\ users'[r.user].attempts = users[r.user].attempts
         /\ users'[r.user].email = users[r.user].email /\ users'[r.user].verified = users[r.user].verified
         /\ users'[r.user].type = users[r.user].type
<1> DEFINE r == request[pr]
<1>1. r.at = "delete" /\ r.user \in User /\ users \in [User -> UserRow]
  BY Current DEF DeleteRow, At, Sound, Typed, TypeOK
<1>2. /\ UNCHANGED <<situation, tokens, sessionTables, oauthTables, histories>>
      /\ users' = [users EXCEPT ![r.user].status = "deleted"] /\ Goto(pr, "list")
  BY DEF DeleteRow, At
<1>3. Others(pr) /\ request'[pr] = [r EXCEPT !.at = "list"]
  BY <1>2, BecomeIs
<1>4. request'[pr].at = "list" /\ Carries(pr)
  BY <1>3, MovedIs
<1>5. RowsOf(r.user) /\ users'[r.user] = [users[r.user] EXCEPT !.status = "deleted"]
  BY <1>1, <1>2 DEF RowsOf
<1>6. /\ users'[r.user].status = "deleted" /\ users'[r.user].attempts = users[r.user].attempts
      /\ users'[r.user].email = users[r.user].email /\ users'[r.user].verified = users[r.user].verified
      /\ users'[r.user].type = users[r.user].type
  BY <1>1, <1>5 DEF UserRow
<1> QED BY <1>1, <1>2, <1>3, <1>4, <1>5, <1>6

-----------------------------------------------------------------------------
(* Verified addresses: what makes a row verified carries an address that   *)
(* was proven - the mailed token's, or the one in the row that is written. *)
ProvenRow(r) == r.row.verified => <<r.user, r.row.email>> \in proven
ProvenInv ==
  /\ \A u \in User : users[u].verified => <<u, users[u].email>> \in proven
  /\ \A pr \in Proc :
       /\ request[pr].at = "verify" => <<request[pr].user, request[pr].email>> \in proven
       /\ request[pr].at \in {"save", "write"} => ProvenRow(request[pr])

LEMMA ProvenInit == ASSUME Init PROVE ProvenInv
<1>1. /\ users = [u \in User |->
                   IF u \in DOMAIN situation.typeOf
                   THEN [NoUser EXCEPT !.status = "live", !.type = situation.typeOf[u],
                           !.email = situation.emailOf[u], !.verified = TRUE]
                   ELSE NoUser]
      /\ proven = {<<u, situation.emailOf[u]>> : u \in DOMAIN situation.typeOf}
  BY DEF Init
<1>2. ASSUME NEW u \in User, users[u].verified PROVE <<u, users[u].email>> \in proven
  <2>1. u \in DOMAIN situation.typeOf
    BY <1>1, <1>2 DEF NoUser
  <2>2. users[u].email = situation.emailOf[u]
    BY <1>1, <2>1 DEF NoUser
  <2>3. proven = {<<v, situation.emailOf[v]>> : v \in DOMAIN situation.typeOf}
    BY <1>1
  <2>4. <<u, situation.emailOf[u]>> \in proven
    BY <2>1, <2>3
  <2> QED BY <2>2, <2>4
<1>3. \A pr \in Proc : request[pr].at = "idle"
  BY IdleFields DEF Init, Proc
<1> QED BY <1>2, <1>3 DEF ProvenInv

LEMMA ProvenKept ==
  ASSUME ProvenInv, NEW pr \in Proc, Others(pr), UNCHANGED situation, proven \subseteq proven',
         \A u \in User : users'[u].verified => <<u, users'[u].email>> \in proven',
         request'[pr].at = "verify" => <<request'[pr].user, request'[pr].email>> \in proven',
         request'[pr].at \in {"save", "write"} =>
           (request'[pr].row.verified => <<request'[pr].user, request'[pr].row.email>> \in proven')
  PROVE  ProvenInv'
<1>1. Proc' = Proc
  BY DEF Proc
<1>2. ASSUME NEW q \in Proc
      PROVE  /\ request'[q].at = "verify" => <<request'[q].user, request'[q].email>> \in proven'
             /\ request'[q].at \in {"save", "write"} => ProvenRow(request[q])'
  <2>1. CASE q = pr
    BY <2>1 DEF ProvenRow
  <2>2. CASE q # pr
    BY <2>2 DEF Others, ProvenInv, ProvenRow
  <2> QED BY <2>1, <2>2
<1> QED BY <1>1, <1>2 DEF ProvenInv

LEMMA ProvenByAccounts == ASSUME Typed, ProvenInv, NEW pr \in Proc, AccountStep(pr) PROVE ProvenInv'
<1> USE DEF accountTables, sessionTables, oauthTables, histories
<1> DEFINE r == request[pr]
           q == request'[pr]
           Rows == \A u \in User : users'[u].verified => <<u, users'[u].email>> \in proven'
<1>1. /\ \A u \in User : users[u].verified => <<u, users[u].email>> \in proven
      /\ r.at = "verify" => <<r.user, r.email>> \in proven
      /\ r.at \in {"save", "write"} => (r.row.verified => <<r.user, r.row.email>> \in proven)
  BY DEF ProvenInv, ProvenRow
<1>2. ASSUME NEW u \in User, NEW e \in Email, CreateUserFromSignup(pr, u, e) \/ CreateUserWithToken(pr, u, e)
      PROVE  ProvenInv'
  BY <1>1, <1>2, SignUpIs, ProvenKept DEF Accepted
<1>3. ASSUME NEW u \in User, NEW right \in BOOLEAN, Tries(pr, u, right) PROVE ProvenInv'
  <2>1. /\ Others(pr) /\ UNCHANGED <<situation, users, proven>> /\ q.at = "attempt"
    BY <1>3, TryIs DEF Accepted
  <2> QED BY <1>1, <2>1, ProvenKept
<1>4. ASSUME NEW u \in User, Changes(pr, u) PROVE ProvenInv'
  BY <1>1, <1>4, ChangeIs, ProvenKept DEF Accepted
<1>5. ASSUME NEW u \in User, NEW k, NEW phase, Asks(pr, u, k, phase) PROVE ProvenInv'
  <2>1. phase \notin {"save", "write"}
    BY <1>5 DEF Asks
  <2>2. /\ Others(pr) /\ UNCHANGED <<situation, users>> /\ proven \subseteq proven'
        /\ q.at = phase /\ q.user = u /\ (phase = "verify" => <<u, q.email>> \in proven')
    BY <1>5, AskIs DEF Accepted
  <2> QED BY <1>1, <2>1, <2>2, ProvenKept
<1>6. CASE Save(pr)
  <2>1. Rows /\ UNCHANGED proven
    BY <1>1, <1>6, SaveIs DEF RowsOf
  <2> QED BY <1>6, <2>1, SaveIs, IdleFields, ProvenKept
<1>7. CASE SendEmailVerification(pr) \/ CreatePasswordRecoveryToken(pr) \/ DeleteToken(pr)
  BY <1>1, <1>7, EndIs, IdleFields, ProvenKept
<1>8. CASE VerifyEmail(pr)
  <2>1. Rows /\ UNCHANGED proven
    BY <1>1, <1>8, VerifyIs DEF RowsOf
  <2>2. Others(pr) /\ UNCHANGED situation /\ q.at \in {"idle", "spend"}
    BY <1>8, VerifyIs, IdleFields
  <2> QED BY <2>1, <2>2, ProvenKept
<1>9. CASE UpdateFailedPasswordAttempts(pr)
  <2>1. Rows /\ UNCHANGED proven
    BY <1>1, <1>9, AttemptIs DEF RowsOf
  <2>2. Others(pr) /\ UNCHANGED situation /\ q.at \in {"idle", "session", "password", "update"}
    BY <1>9, AttemptIs, IdleFields
  <2> QED BY <2>1, <2>2, ProvenKept
<1>10. CASE UpdatePassword(pr)
  <2>1. Rows /\ UNCHANGED proven
    BY <1>1, <1>10, PasswordIs DEF RowsOf
  <2>2. Others(pr) /\ UNCHANGED situation /\ q.at \in {"idle", "spend"}
    BY <1>10, PasswordIs, IdleFields
  <2> QED BY <2>1, <2>2, ProvenKept
<1>u. CASE UpdateUser(pr)
  <2>1. /\ Others(pr) /\ UNCHANGED <<situation, users, proven>> /\ q.at \in {"idle", "read"}
    BY <1>u, RecheckIs, IdleFields
  <2> QED BY <1>1, <2>1, ProvenKept
<1>11. CASE ReadOldUser(pr)
  <2>1. /\ Others(pr) /\ UNCHANGED <<situation, users, proven>> /\ r.user \in User
        /\ q.at = "write" /\ q.user = r.user /\ q.row = users[r.user]
    BY <1>11, ReadIs
  <2> QED BY <1>1, <2>1, ProvenKept
<1>12. CASE Update(pr)
  <2>1. Rows /\ UNCHANGED proven
    BY <1>1, <1>12, UpdateIs DEF RowsOf
  <2>2. Others(pr) /\ UNCHANGED situation /\ q.at \in {"idle", "mail"}
    BY <1>12, UpdateIs, IdleFields
  <2> QED BY <2>1, <2>2, ProvenKept
<1>13. CASE DeleteRow(pr)
  <2>1. Rows /\ UNCHANGED proven
    BY <1>1, <1>13, DeleteIs DEF RowsOf
  <2>2. Others(pr) /\ UNCHANGED situation /\ q.at = "list"
    BY <1>13, DeleteIs
  <2> QED BY <2>1, <2>2, ProvenKept
<1> QED BY <1>2, <1>3, <1>4, <1>5, <1>6, <1>7, <1>8, <1>9, <1>10, <1>u, <1>11, <1>12, <1>13 DEF AccountStep

LEMMA ProvenStep == ASSUME Typed, ProvenInv, [Next]_vars PROVE ProvenInv'
<1> USE DEF accountTables, sessionTables, oauthTables, histories
<1>1. ASSUME NEW pr \in Proc, OtherStep(pr) \/ Fault(pr) PROVE ProvenInv'
  <2>1. /\ UNCHANGED <<situation, users, proven>> /\ Others(pr)
        /\ request'[pr].at \in SessionPhases \cup {"idle"}
    BY <1>1, OtherSteps, BecomeIs, IdleFields DEF Fault
  <2>2. request'[pr].at \notin {"verify", "save", "write"}
    BY <2>1 DEF SessionPhases, Grants, Revokes
  <2> QED BY <2>1, <2>2, ProvenKept DEF ProvenInv
<1>2. CASE UNCHANGED <<situation, users, proven, request>>
  BY <1>2 DEF ProvenInv, ProvenRow, Proc
<1>3. (\E s \in removing : RemoveInBackground(s)) \/ Expiry \/ UNCHANGED vars =>
        UNCHANGED <<situation, users, proven, request>>
  BY DEF RemoveInBackground, Expiry, ExpireToken, ExpireSession, ExpireCode, Outlive, vars
<1> QED BY <1>1, <1>2, <1>3, ProvenByAccounts, Steps

-----------------------------------------------------------------------------
(* The first account: only a sign-up makes an admin of nobody, and only    *)
(* while there is no account; those that began then are still at work.     *)
Signs(pr) == request[pr].at = "save"
Admins == {u \in User : users[u].type = "admin"}
AdminSigns == {pr \in Proc : Signs(pr) /\ request[pr].row.type = "admin"}
AtWork == {"attempt", "update", "read", "write"}

SignUps ==
  /\ \A u \in User : ~Exists(u) => users[u].type # "admin"
  /\ \A pr \in Proc : Signs(pr) => ~Exists(request[pr].user)
  /\ \A pr, q \in Proc : Signs(pr) /\ Signs(q) /\ pr # q => request[pr].user # request[q].user
  /\ \A pr \in Proc : request[pr].at \in AtWork \cup {"delete"} => Exists(request[pr].user)
  /\ \A pr \in Proc : request[pr].at = "write" => request[pr].row.status # "none"
  /\ \A pr \in Proc : Signs(pr) => request[pr].row.status = "live"
TypesStay == "type" \notin situation.ops =>
  \A pr \in Proc : /\ request[pr].at \in AtWork => ~request[pr].trusted
                   /\ request[pr].at = "write" => request[pr].row.type = users[request[pr].user].type
FewAdmins == (DOMAIN situation.typeOf = {} /\ "type" \notin situation.ops) =>
  /\ IsFiniteSet(Admins) /\ Cardinality(Admins) + Cardinality(AdminSigns) <= situation.slots
SignInv == SignUps /\ TypesStay /\ FewAdmins

LEMMA Slots ==
  ASSUME Typed
  PROVE  /\ situation.slots \in Nat \ {0} /\ IsFiniteSet(Proc) /\ Cardinality(Proc) = situation.slots
         /\ \A S \in SUBSET Proc : IsFiniteSet(S) /\ Cardinality(S) \in Nat /\ Cardinality(S) <= situation.slots
<1>1. situation.slots \in Nat \ {0}
  BY AccountStoreAssumption DEF Typed, RowsTyped
<1>2. IsFiniteSet(Proc) /\ Cardinality(Proc) = situation.slots
  BY <1>1, FS_Interval DEF Proc
<1> QED BY <1>1, <1>2, FS_Subset, FS_CardinalityType

LEMMA SignInit == ASSUME Init PROVE SignInv
<1>1. \A pr \in Proc : request[pr].at = "idle"
  BY IdleFields DEF Init, Proc
<1>2. \A u \in User : users[u] = IF u \in DOMAIN situation.typeOf
                                 THEN [NoUser EXCEPT !.status = "live", !.type = situation.typeOf[u],
                                         !.email = situation.emailOf[u], !.verified = TRUE]
                                 ELSE NoUser
  BY DEF Init
<1>3. ASSUME NEW u \in User, u \notin DOMAIN situation.typeOf PROVE users[u].type = "normal"
  <2>1. users[u] = NoUser
    BY <1>2, <1>3
  <2> QED BY <2>1 DEF NoUser
<1>4. \A u \in User : u \in DOMAIN situation.typeOf => Exists(u)
  <2>1. ASSUME NEW u \in User, u \in DOMAIN situation.typeOf
        PROVE  users[u].status = "live"
    <3>1. users[u] = [NoUser EXCEPT !.status = "live", !.type = situation.typeOf[u],
                                    !.email = situation.emailOf[u], !.verified = TRUE]
      BY <1>2, <2>1
    <3> QED BY <3>1 DEF NoUser
  <2> QED BY <2>1 DEF Exists
<1>5. FewAdmins
  <2>1. ASSUME DOMAIN situation.typeOf = {} PROVE Admins = {}
    BY <1>3, <2>1 DEF Admins
  <2>2. AdminSigns = {}
    BY <1>1 DEF AdminSigns, Signs
  <2>3. situation.slots \in Nat
    BY AccountStoreAssumption DEF Init
  <2>4. IsFiniteSet({}) /\ Cardinality({}) = 0
    BY FS_EmptySet
  <2> QED BY <2>1, <2>2, <2>3, <2>4 DEF FewAdmins
<1> QED BY <1>1, <1>3, <1>4, <1>5 DEF SignInv, SignUps, TypesStay, Signs, AtWork

LEMMA SignKept ==
  ASSUME Typed, SignInv, NEW pr \in Proc, Others(pr), UNCHANGED situation,
         ~Signs(pr), request'[pr].at # "save",
         \A u \in User : /\ users'[u].status = "none" <=> users[u].status = "none"
                         /\ ~Exists(u) \/ "type" \notin situation.ops => users'[u].type = users[u].type,
         request'[pr].at \in AtWork \cup {"delete"} => request'[pr].user \in User /\ Exists(request'[pr].user),
         request'[pr].at \in AtWork => "type" \in situation.ops \/ ~request'[pr].trusted,
         request'[pr].at = "write" => /\ request'[pr].row.status # "none"
                                      /\ request'[pr].row.type = users[request'[pr].user].type
  PROVE  SignInv'
<1>1. Proc' = Proc
  BY DEF Proc
<1>2. \A q \in Proc : q # pr => request'[q] = request[q]
  BY DEF Others
<1>3. \A q \in Proc : Sound(request[q], DOMAIN tokens, sessions, DOMAIN codes)
  BY Current
<1>4. SignUps'
  <2>1. \A u \in User : Exists(u)' <=> Exists(u)
    BY DEF Exists
  <2>2. \A q \in Proc : Signs(q)' <=> (q # pr /\ Signs(q))
    BY <1>2 DEF Signs
  <2>3. \A q \in Proc : request[q].at \in AtWork \cup {"delete", "save"} => request[q].user \in User
    BY <1>3 DEF Sound, AtWork
  <2>4. \A u \in User : ~Exists(u)' => users'[u].type # "admin"
    BY <2>1 DEF SignInv, SignUps
  <2>5. ASSUME NEW q \in Proc
        PROVE  /\ Signs(q)' => ~Exists(request[q].user)' /\ request'[q].row.status = "live"
               /\ request'[q].at \in AtWork \cup {"delete"} => Exists(request[q].user)'
               /\ request'[q].at = "write" => request'[q].row.status # "none"
    <3>1. CASE q = pr
      BY <2>1, <2>2, <3>1 DEF Exists
    <3>2. CASE q # pr
      BY <1>2, <2>1, <2>2, <2>3, <3>2 DEF SignInv, SignUps, Exists, Signs
    <3> QED BY <3>1, <3>2
  <2>6. \A p, q \in Proc : Signs(p)' /\ Signs(q)' /\ p # q => request'[p].user # request'[q].user
    BY <1>2, <2>2 DEF SignInv, SignUps
  <2> QED BY <1>1, <2>4, <2>5, <2>6 DEF SignUps
<1>5. TypesStay'
  <2>1. ASSUME "type" \notin situation.ops, NEW q \in Proc
        PROVE  /\ request'[q].at \in AtWork => ~request'[q].trusted
               /\ request'[q].at = "write" => request'[q].row.type = users'[request'[q].user].type
    <3>1. CASE q = pr
      BY <2>1, <3>1 DEF AtWork
    <3>2. CASE q # pr
      <4>1. request[q].at = "write" => request[q].user \in User
        BY <1>3 DEF Sound
      <4> QED BY <1>2, <2>1, <3>2, <4>1 DEF SignInv, TypesStay
    <3> QED BY <3>1, <3>2
  <2> QED BY <1>1, <2>1 DEF TypesStay
<1>6. FewAdmins'
  <2>1. AdminSigns' = AdminSigns
    BY <1>1, <1>2 DEF AdminSigns, Signs
  <2>2. "type" \notin situation.ops => Admins' = Admins
    BY DEF Admins
  <2> QED BY <2>1, <2>2 DEF FewAdmins, SignInv
<1> QED BY <1>4, <1>5, <1>6 DEF SignInv

LEMMA SignBySignUp ==
  ASSUME Typed, SignInv, NEW pr \in Proc, NEW u \in User, NEW e \in Email,
         CreateUserFromSignup(pr, u, e) \/ CreateUserWithToken(pr, u, e)
  PROVE  SignInv'
<1> DEFINE q == request'[pr]
<1>1. /\ request[pr] = Idle /\ Others(pr) /\ UNCHANGED <<situation, users>>
      /\ q.at = "save" /\ q.user = u /\ q.row.status = "live" /\ q.row.type = FirstType
      /\ ~Exists(u) /\ \A p \in Proc : request[p].user # u
  BY SignUpIs DEF Accepted
<1>2. Proc' = Proc /\ ~Signs(pr)
  BY <1>1, IdleFields DEF Proc, Signs
<1>3. \A p \in Proc : p # pr => request'[p] = request[p]
  BY <1>1 DEF Others
<1>4. SignUps'
  <2>1. \A v : Exists(v)' <=> Exists(v)
    BY <1>1 DEF Exists
  <2> QED BY <1>1, <1>2, <1>3, <2>1 DEF SignInv, SignUps, Signs, AtWork
<1>5. TypesStay'
  BY <1>1, <1>2, <1>3 DEF SignInv, TypesStay, AtWork
<1>6. FewAdmins'
  <2>1. Admins' = Admins
    BY <1>1 DEF Admins
  <2>2. CASE FirstType = "admin"
    <3>1. Admins = {}
      BY <2>2 DEF FirstType, Admins, SignInv, SignUps
    <3>2. AdminSigns' \in SUBSET Proc
      BY <1>2 DEF AdminSigns
    <3>3. Cardinality(AdminSigns') <= situation.slots /\ Cardinality(AdminSigns') \in Nat
      BY <3>2, Slots
    <3> QED BY <1>1, <2>1, <3>1, <3>3, FS_EmptySet DEF FewAdmins
  <2>3. CASE FirstType # "admin"
    <3>1. AdminSigns' = AdminSigns
      BY <1>1, <1>2, <1>3, <2>3 DEF AdminSigns, Signs
    <3> QED BY <1>1, <2>1, <3>1 DEF FewAdmins, SignInv
  <2> QED BY <2>2, <2>3
<1> QED BY <1>4, <1>5, <1>6 DEF SignInv

LEMMA SignBySave == ASSUME Typed, SignInv, NEW pr \in Proc, Save(pr) PROVE SignInv'
<1> DEFINE r == request[pr]
           q == request'[pr]
<1>1. /\ r.at = "save" /\ r.user \in User /\ r.row \in UserRow
      /\ Others(pr) /\ UNCHANGED situation /\ q.at \in {"idle", "mail"} /\ RowsOf(r.user)
      /\ users' = users \/ users'[r.user] = r.row
  BY SaveIs, IdleFields
<1>2. Proc' = Proc /\ Signs(pr) /\ \A p \in Proc : p # pr => request'[p] = request[p]
  BY <1>1 DEF Proc, Others, Signs
<1>3. ~Exists(r.user) /\ users[r.user].type # "admin" /\ r.row.status = "live"
  BY <1>1, <1>2 DEF SignInv, SignUps
<1>4. \A v \in User : v # r.user => users'[v] = users[v]
  BY <1>1 DEF RowsOf
<1>5. \A p \in Proc : request[p].at \in AtWork \cup {"delete", "save"} => request[p].user \in User
  BY Current DEF Sound, AtWork
<1>6. SignUps'
  <2>1. \A v \in User : Exists(v) => Exists(v)' /\ users'[v] = users[v]
    BY <1>3, <1>4 DEF Exists
  <2>2. \A v \in User : ~Exists(v)' => users'[v].type # "admin"
    <3>1. ASSUME NEW v \in User, ~Exists(v)' PROVE users'[v] = users[v] /\ ~Exists(v)
      BY <1>1, <1>3, <1>4, <3>1 DEF Exists
    <3> QED BY <3>1 DEF SignInv, SignUps
  <2>3. ASSUME NEW p \in Proc
        PROVE  /\ Signs(p)' => ~Exists(request[p].user)' /\ request'[p].row.status = "live"
               /\ request'[p].at \in AtWork \cup {"delete"} => Exists(request[p].user)'
               /\ request'[p].at = "write" => request'[p].row.status # "none"
    <3>1. CASE p = pr
      BY <1>1, <3>1 DEF Signs, AtWork
    <3>2. CASE p # pr
      <4>1. Signs(p) => request[p].user # r.user
        BY <1>2, <3>2 DEF SignInv, SignUps
      <4>2. Signs(p)' => ~Exists(request[p].user)' /\ request'[p].row.status = "live"
        BY <1>2, <1>4, <1>5, <3>2, <4>1 DEF SignInv, SignUps, Signs, Exists
      <4> QED BY <1>2, <1>5, <2>1, <3>2, <4>2 DEF SignInv, SignUps, Exists
    <3> QED BY <3>1, <3>2
  <2>4. \A p, o \in Proc : Signs(p)' /\ Signs(o)' /\ p # o => request'[p].user # request'[o].user
    BY <1>1, <1>2 DEF SignInv, SignUps, Signs
  <2> QED BY <1>2, <2>2, <2>3, <2>4 DEF SignUps
<1>7. TypesStay'
  <2>1. ASSUME "type" \notin situation.ops, NEW p \in Proc
        PROVE  /\ request'[p].at \in AtWork => ~request'[p].trusted
               /\ request'[p].at = "write" => request'[p].row.type = users'[request'[p].user].type
    <3>1. CASE p = pr
      BY <1>1, <3>1 DEF AtWork
    <3>2. CASE p # pr
      <4>1. request[p].at = "write" => request[p].user \in User /\ Exists(request[p].user)
        BY <1>5 DEF SignInv, SignUps, AtWork
      <4>2. request[p].at = "write" => users'[request[p].user] = users[request[p].user]
        BY <1>3, <1>4, <4>1
      <4> QED BY <1>2, <2>1, <3>2, <4>2 DEF SignInv, TypesStay
    <3> QED BY <3>1, <3>2
  <2> QED BY <1>1, <1>2, <2>1 DEF TypesStay
<1>8. FewAdmins'
  <2> SUFFICES ASSUME DOMAIN situation.typeOf = {}, "type" \notin situation.ops
               PROVE  /\ IsFiniteSet(Admins')
                      /\ Cardinality(Admins') + Cardinality(AdminSigns') <= situation.slots
    BY <1>1 DEF FewAdmins
  <2>1. /\ IsFiniteSet(Admins) /\ Cardinality(Admins) \in Nat
        /\ Cardinality(Admins) + Cardinality(AdminSigns) <= situation.slots
    BY FS_CardinalityType DEF SignInv, FewAdmins
  <2>2. /\ AdminSigns \in SUBSET Proc /\ IsFiniteSet(AdminSigns) /\ Cardinality(AdminSigns) \in Nat
        /\ situation.slots \in Nat
    BY Slots DEF AdminSigns
  <2>3. AdminSigns' = AdminSigns \ {pr}
    BY <1>1, <1>2 DEF AdminSigns, Signs
  <2>4. Cardinality(AdminSigns') = IF r.row.type = "admin" THEN Cardinality(AdminSigns) - 1
                                   ELSE Cardinality(AdminSigns)
    <3>1. pr \in AdminSigns <=> r.row.type = "admin"
      BY <1>2 DEF AdminSigns
    <3> QED BY <2>2, <2>3, <3>1, FS_RemoveElement
  <2>5. Admins' = Admins \/ (r.row.type = "admin" /\ Admins' = Admins \cup {r.user})
    <3>1. CASE users' = users
      BY <3>1 DEF Admins
    <3>2. CASE users'[r.user] = r.row
      BY <1>1, <1>3, <1>4, <3>2 DEF Admins
    <3> QED BY <1>1, <3>1, <3>2
  <2>6. r.user \notin Admins
    BY <1>3 DEF Admins
  <2>7. CASE Admins' = Admins
    BY <2>1, <2>2, <2>4, <2>7
  <2>8. CASE r.row.type = "admin" /\ Admins' = Admins \cup {r.user}
    <3>1. IsFiniteSet(Admins') /\ Cardinality(Admins') = Cardinality(Admins) + 1
      BY <2>1, <2>6, <2>8, FS_AddElement
    <3> QED BY <2>1, <2>2, <2>4, <2>8, <3>1
  <2> QED BY <2>5, <2>7, <2>8
<1> QED BY <1>6, <1>7, <1>8 DEF SignInv

LEMMA SignByAccounts == ASSUME Typed, SignInv, NEW pr \in Proc, AccountStep(pr) PROVE SignInv'
<1> DEFINE r == request[pr]
           q == request'[pr]
           Rows == \A u \in User : /\ users'[u].status = "none" <=> users[u].status = "none"
                                   /\ ~Exists(u) \/ "type" \notin situation.ops => users'[u].type = users[u].type
<1>1. /\ r.at = "write" => r.row.status # "none"
      /\ r.at \in AtWork \cup {"delete"} => Exists(r.user)
      /\ "type" \notin situation.ops => /\ r.at \in AtWork => ~r.trusted
                                        /\ r.at = "write" => r.row.type = users[r.user].type
      /\ r.trusted \in BOOLEAN
  BY Current DEF SignInv, SignUps, TypesStay, Request
<1>2. UNCHANGED users => Rows
  OBVIOUS
<1>3. ASSUME NEW u \in User, NEW right \in BOOLEAN, Tries(pr, u, right) PROVE SignInv'
  <2>1. /\ Others(pr) /\ UNCHANGED <<situation, users>> /\ r = Idle
        /\ q.at = "attempt" /\ q.user = u /\ Exists(u) /\ ~q.trusted
    BY <1>3, TryIs DEF Accepted, IsLive, Exists, Plain
  <2> QED BY <1>2, <2>1, IdleFields, SignKept DEF Signs
<1>4. ASSUME NEW u \in User, Changes(pr, u) PROVE SignInv'
  <2>1. /\ Others(pr) /\ UNCHANGED <<situation, users>> /\ r = Idle
        /\ q.at \in {"update", "read"} /\ q.user = u /\ Exists(u)
        /\ q.trusted => "type" \in situation.ops
    BY <1>4, ChangeIs DEF Accepted, IsLive, Exists
  <2> QED BY <1>2, <2>1, IdleFields, SignKept DEF Signs
<1>5. ASSUME NEW u \in User, NEW k, NEW phase, Asks(pr, u, k, phase) PROVE SignInv'
  <2>1. phase \notin AtWork \cup {"save"}
    BY <1>5 DEF Asks, AtWork
  <2>2. /\ Others(pr) /\ UNCHANGED <<situation, users>> /\ r = Idle
        /\ q.at = phase /\ q.user = u
    BY <1>5, AskIs DEF Accepted
  <2>3. phase = "delete" => Exists(u)
    BY ZenonT(60), <1>5, AskIs DEF IsLive, Exists
  <2> QED BY <1>2, <2>1, <2>2, <2>3, IdleFields, SignKept DEF Signs, AtWork
<1>6. CASE SendEmailVerification(pr) \/ CreatePasswordRecoveryToken(pr) \/ DeleteToken(pr)
  <2>1. Others(pr) /\ UNCHANGED <<situation, users>> /\ r.at # "save" /\ q.at = "idle"
    BY <1>6, EndIs, IdleFields
  <2> QED BY <1>2, <2>1, SignKept DEF Signs, AtWork
<1>7. CASE VerifyEmail(pr)
  <2>1. Others(pr) /\ UNCHANGED situation /\ r.at # "save" /\ q.at \in {"idle", "spend"} /\ Rows
    BY <1>7, VerifyIs, IdleFields DEF RowsOf
  <2> QED BY <2>1, SignKept DEF Signs, AtWork
<1>8. CASE UpdateFailedPasswordAttempts(pr)
  <2>1. /\ Others(pr) /\ UNCHANGED situation /\ r.at = "attempt" /\ r.user \in User
        /\ q.at = "idle" \/ (q.at \in {"session", "password", "update"} /\ Carries(pr))
    BY <1>8, AttemptIs, IdleFields
  <2>2. Rows
    BY <1>8, AttemptIs DEF RowsOf
  <2>3. q.at \notin {"save", "write", "delete"} /\ (q.at \in AtWork => q.user = r.user /\ q.trusted = r.trusted)
    BY <2>1 DEF AtWork, Carries
  <2> QED BY <1>1, <2>1, <2>2, <2>3, SignKept DEF Signs, AtWork
<1>9. CASE UpdatePassword(pr)
  <2>1. Others(pr) /\ UNCHANGED situation /\ r.at # "save" /\ q.at \in {"idle", "spend"} /\ Rows
    BY <1>9, PasswordIs, IdleFields DEF RowsOf
  <2> QED BY <2>1, SignKept DEF Signs, AtWork
<1>u. CASE UpdateUser(pr)
  <2>1. /\ Others(pr) /\ UNCHANGED <<situation, users>> /\ r.at = "update" /\ r.user \in User
        /\ q.at = "idle" \/ (q.at = "read" /\ q.user = r.user /\ q.trusted = r.trusted)
    BY <1>u, RecheckIs, IdleFields
  <2> QED BY <1>1, <1>2, <2>1, SignKept DEF Signs, AtWork
<1>10. CASE ReadOldUser(pr)
  <2>1. /\ Others(pr) /\ UNCHANGED <<situation, users>> /\ r.at = "read" /\ r.user \in User
        /\ q.at = "write" /\ q.user = r.user /\ q.row = users[r.user] /\ q.trusted = r.trusted
    BY <1>10, ReadIs
  <2>2. Exists(r.user) /\ q.row.status # "none"
    BY <1>1, <2>1 DEF AtWork, Exists
  <2> QED BY <1>1, <1>2, <2>1, <2>2, SignKept DEF Signs, AtWork
<1>11. CASE Update(pr)
  <2>1. Others(pr) /\ UNCHANGED situation /\ r.at = "write" /\ r.user \in User /\ q.at \in {"idle", "mail"}
    BY <1>11, UpdateIs, IdleFields
  <2>2. Rows
    <3>1. Exists(r.user)
      BY <1>1, <2>1 DEF AtWork
    <3>2. users'[r.user].status # "none" \/ users' = users
      BY <1>1, <1>11, <2>1, UpdateIs
    <3>3. "type" \notin situation.ops => users'[r.user].type = users[r.user].type
      BY <1>1, <1>11, <2>1, UpdateIs DEF AtWork
    <3> QED BY <1>11, <2>1, <3>1, <3>2, <3>3, UpdateIs DEF RowsOf, Exists
  <2> QED BY <2>1, <2>2, SignKept DEF Signs, AtWork
<1>12. CASE DeleteRow(pr)
  <2>1. Others(pr) /\ UNCHANGED situation /\ r.at = "delete" /\ r.user \in User /\ q.at = "list"
    BY <1>12, DeleteIs
  <2>2. Rows
    <3>1. Exists(r.user)
      BY <1>1, <2>1
    <3> QED BY <1>12, <3>1, DeleteIs DEF RowsOf, Exists
  <2> QED BY <2>1, <2>2, SignKept DEF Signs, AtWork
<1> QED BY <1>3, <1>4, <1>5, <1>6, <1>7, <1>8, <1>9, <1>u, <1>10, <1>11, <1>12, SignBySignUp, SignBySave
     DEF AccountStep

LEMMA SignStep == ASSUME Typed, SignInv, [Next]_vars PROVE SignInv'
<1> USE DEF accountTables, sessionTables, oauthTables, histories
<1>1. ASSUME NEW pr \in Proc, OtherStep(pr) PROVE SignInv'
  <2>1. /\ UNCHANGED <<situation, users>> /\ Others(pr)
        /\ request[pr].at # "save" /\ request'[pr].at \notin AtWork \cup {"save", "delete"}
    BY <1>1, OtherSteps DEF SessionPhases, Grants, Revokes, AtWork
  <2> QED BY <2>1, SignKept DEF Signs, AtWork
<1>2. ASSUME NEW pr \in Proc, Fault(pr) PROVE SignInv'
  <2>1. UNCHANGED <<situation, users>> /\ Others(pr) /\ request'[pr].at = "idle"
    BY <1>2, BecomeIs, IdleFields DEF Fault
  <2>2. CASE ~Signs(pr)
    BY <2>1, <2>2, SignKept DEF AtWork
  <2>3. CASE Signs(pr)
    <3>1. Proc' = Proc /\ \A p \in Proc : p # pr => request'[p] = request[p]
      BY <2>1 DEF Proc, Others
    <3>2. SignUps' /\ TypesStay'
      BY <2>1, <3>1 DEF SignInv, SignUps, TypesStay, Signs, AtWork, Exists
    <3>3. Admins' = Admins /\ AdminSigns' \subseteq AdminSigns /\ AdminSigns \in SUBSET Proc
      BY <2>1, <3>1 DEF Admins, AdminSigns, Signs
    <3>4. Cardinality(AdminSigns') <= Cardinality(AdminSigns) /\ Cardinality(AdminSigns') \in Nat
          /\ Cardinality(AdminSigns) \in Nat /\ situation.slots \in Nat
      BY <3>3, Slots, FS_Subset
    <3>5. FewAdmins'
      BY <2>1, <3>3, <3>4, FS_CardinalityType DEF SignInv, FewAdmins
    <3> QED BY <3>2, <3>5 DEF SignInv
  <2> QED BY <2>2, <2>3
<1>3. CASE UNCHANGED <<situation, users, request>>
  <2>1. Admins' = Admins /\ AdminSigns' = AdminSigns /\ Proc' = Proc
    BY <1>3 DEF Admins, AdminSigns, Signs, Proc
  <2> QED BY <1>3, <2>1 DEF SignInv, SignUps, TypesStay, FewAdmins, Signs, Exists
<1>4. (\E s \in removing : RemoveInBackground(s)) \/ Expiry \/ UNCHANGED vars =>
        UNCHANGED <<situation, users, request>>
  BY DEF RemoveInBackground, Expiry, ExpireToken, ExpireSession, ExpireCode, Outlive, vars
<1> QED BY <1>1, <1>2, <1>3, <1>4, SignByAccounts, Steps

-----------------------------------------------------------------------------
(* Mailed tokens: while a token lives, each of its uses belongs to a       *)
(* request that is still to delete it; the others have a slot each.        *)
Using(k) == {pr \in Proc : request[pr].at \in {"verify", "password"} /\ request[pr].token = k}
Spending(k) == {pr \in Proc : request[pr].at = "spend" /\ request[pr].token = k}
UsesBounded == \A k \in DOMAIN tokens : <<"token", k>> \notin lost =>
  /\ used[k] + Cardinality(Using(k)) <= situation.slots
  /\ tokens[k].live => used[k] <= Cardinality(Spending(k))

LEMMA UsesCounted ==
  ASSUME Typed, NEW k
  PROVE  /\ Using(k) \in SUBSET Proc /\ Spending(k) \in SUBSET Proc
         /\ IsFiniteSet(Using(k)) /\ IsFiniteSet(Spending(k))
         /\ Cardinality(Using(k)) \in Nat /\ Cardinality(Spending(k)) \in Nat
         /\ Cardinality(Using(k)) + Cardinality(Spending(k)) <= situation.slots
<1>1. Using(k) \in SUBSET Proc /\ Spending(k) \in SUBSET Proc /\ Using(k) \cap Spending(k) = {}
      /\ Using(k) \cup Spending(k) \in SUBSET Proc
  BY DEF Using, Spending
<1>2. /\ IsFiniteSet(Using(k)) /\ IsFiniteSet(Spending(k))
      /\ Cardinality(Using(k)) \in Nat /\ Cardinality(Spending(k)) \in Nat
      /\ Cardinality(Using(k) \cup Spending(k)) <= situation.slots
  BY <1>1, Slots
<1>3. Cardinality(Using(k) \cup Spending(k)) = Cardinality(Using(k)) + Cardinality(Spending(k))
  BY <1>1, <1>2, FS_Union, FS_EmptySet
<1> QED BY <1>1, <1>2, <1>3

LEMMA UsesInit == ASSUME Init PROVE UsesBounded
<1>1. tokens = <<>>
  BY DEF Init
<1> QED BY <1>1 DEF UsesBounded

LEMMA UsesKept ==
  ASSUME Typed, UsesBounded, NEW pr \in Proc, Others(pr), UNCHANGED <<situation, used>>,
         DOMAIN tokens' = DOMAIN tokens, lost \subseteq lost',
         \A k \in DOMAIN tokens : tokens'[k].live => tokens[k].live,
         request[pr].at # "spend" \/ <<"token", request[pr].token>> \in lost',
         \/ request'[pr].at \notin {"verify", "password", "spend"}
         \/ request'[pr].at = "password" /\ request'[pr].token = 0
  PROVE  UsesBounded'
<1>1. Proc' = Proc /\ \A p \in Proc : p # pr => request'[p] = request[p]
  BY DEF Proc, Others
<1>2. ASSUME NEW k \in DOMAIN tokens, <<"token", k>> \notin lost'
      PROVE  /\ used[k] + Cardinality(Using(k)') <= situation.slots
             /\ tokens'[k].live => used[k] <= Cardinality(Spending(k)')
  <2>1. k # 0 /\ used[k] \in Nat /\ situation.slots \in Nat
    BY SeqDomain, Slots DEF Typed, RowsTyped, TypeOK
  <2>2. Using(k)' \subseteq Using(k)
    BY <1>1, <2>1 DEF Using
  <2>3. Spending(k)' = Spending(k)
    BY <1>1, <1>2 DEF Spending
  <2>4. /\ used[k] + Cardinality(Using(k)) <= situation.slots
        /\ tokens[k].live => used[k] <= Cardinality(Spending(k))
    BY <1>2 DEF UsesBounded
  <2>5. Cardinality(Using(k)') <= Cardinality(Using(k)) /\ Cardinality(Using(k)') \in Nat
        /\ Cardinality(Using(k)) \in Nat
    BY <2>2, UsesCounted, FS_Subset, FS_CardinalityType
  <2>6. tokens'[k].live => used[k] <= Cardinality(Spending(k)')
    BY <2>3, <2>4
  <2> QED BY <2>1, <2>4, <2>5, <2>6
<1> QED BY <1>2 DEF UsesBounded

(* A use begins: the token lives.                                          *)
LEMMA UseBegins ==
  ASSUME Typed, UsesBounded, NEW pr \in Proc, Others(pr), request[pr] = Idle,
         UNCHANGED <<situation, tokens, used, lost>>,
         NEW k \in DOMAIN tokens, tokens[k].live,
         request'[pr].at \in {"verify", "password"}, request'[pr].token = k
  PROVE  UsesBounded'
<1>1. Proc' = Proc /\ \A p \in Proc : p # pr => request'[p] = request[p]
  BY DEF Proc, Others
<1>2. request[pr].at = "idle"
  BY IdleFields
<1>3. ASSUME NEW i \in DOMAIN tokens, <<"token", i>> \notin lost
      PROVE  /\ used[i] + Cardinality(Using(i)') <= situation.slots
             /\ tokens[i].live => used[i] <= Cardinality(Spending(i)')
  <2>1. Spending(i)' = Spending(i) /\ Using(i)' = IF i = k THEN Using(i) \cup {pr} ELSE Using(i)
    BY <1>1, <1>2 DEF Spending, Using
  <2>2. /\ used[i] + Cardinality(Using(i)) <= situation.slots
        /\ tokens[i].live => used[i] <= Cardinality(Spending(i))
    BY <1>3 DEF UsesBounded
  <2>3. CASE i # k
    BY <2>1, <2>2, <2>3
  <2>4. CASE i = k
    <3> DEFINE S == Using(k) \cup {pr}
    <3>1. S \in SUBSET Proc /\ S \cap Spending(k) = {} /\ S \cup Spending(k) \in SUBSET Proc
      BY <1>2 DEF Using, Spending
    <3>2. /\ Cardinality(S \cup Spending(k)) <= situation.slots /\ Cardinality(S) \in Nat
          /\ IsFiniteSet(S) /\ IsFiniteSet(Spending(k)) /\ Cardinality(Spending(k)) \in Nat
          /\ situation.slots \in Nat /\ used[k] \in Nat
      BY SMTT(30), <3>1, Slots, UsesCounted DEF Typed, TypeOK
    <3>3. Cardinality(S \cup Spending(k)) = Cardinality(S) + Cardinality(Spending(k))
      <4> HIDE DEF S
      <4> QED BY <3>1, <3>2, FS_Union, FS_EmptySet
    <3>4. used[k] <= Cardinality(Spending(k))
      BY <2>2, <2>4
    <3> HIDE DEF S
    <3> QED BY <2>1, <2>4, <3>2, <3>3, <3>4 DEF S
  <2> QED BY <2>3, <2>4
<1> QED BY <1>3 DEF UsesBounded

(* A use is made: the request goes on to delete the token.                 *)
LEMMA UseMade ==
  ASSUME Typed, UsesBounded, NEW pr \in Proc, Others(pr),
         UNCHANGED <<situation, tokens, lost>>,
         NEW k \in DOMAIN tokens, used' = [used EXCEPT ![k] = @ + 1],
         request[pr].at \in {"verify", "password"}, request[pr].token = k,
         request'[pr].at = "spend", request'[pr].token = k
  PROVE  UsesBounded'
<1>1. Proc' = Proc /\ \A p \in Proc : p # pr => request'[p] = request[p]
  BY DEF Proc, Others
<1>2. k \in DOMAIN used /\ \A i \in DOMAIN tokens : used[i] \in Nat
  BY SeqDomain DEF Typed, RowsTyped, TypeOK
<1>3. ASSUME NEW i \in DOMAIN tokens, <<"token", i>> \notin lost
      PROVE  /\ used'[i] + Cardinality(Using(i)') <= situation.slots
             /\ tokens[i].live => used'[i] <= Cardinality(Spending(i)')
  <2>1. /\ used[i] + Cardinality(Using(i)) <= situation.slots
        /\ tokens[i].live => used[i] <= Cardinality(Spending(i))
    BY <1>3 DEF UsesBounded
  <2>2. CASE i # k
    <3>1. Spending(i)' = Spending(i) /\ Using(i)' = Using(i)
      BY <1>1, <2>2 DEF Spending, Using
    <3>2. used'[i] = used[i]
      BY <1>2, <2>2
    <3> QED BY <2>1, <3>1, <3>2
  <2>3. CASE i = k
    <3>1. /\ Spending(k)' = Spending(k) \cup {pr} /\ pr \notin Spending(k)
          /\ Using(k)' = Using(k) \ {pr} /\ pr \in Using(k)
      BY <1>1 DEF Spending, Using
    <3>2. /\ IsFiniteSet(Using(k)) /\ IsFiniteSet(Spending(k)) /\ Cardinality(Using(k)) \in Nat
          /\ Cardinality(Spending(k)) \in Nat /\ situation.slots \in Nat
      BY UsesCounted, Slots
    <3>3. Cardinality(Spending(k)') = Cardinality(Spending(k)) + 1
      BY <3>1, <3>2, FS_AddElement
    <3>4. Cardinality(Using(k)') = Cardinality(Using(k)) - 1
      BY <3>1, <3>2, FS_RemoveElement
    <3>5. used'[k] = used[k] + 1 /\ used[k] \in Nat
      BY <1>2
    <3> QED BY <2>1, <2>3, <3>2, <3>3, <3>4, <3>5
  <2> QED BY <2>2, <2>3
<1>4. DOMAIN tokens' = DOMAIN tokens
  OBVIOUS
<1> QED BY <1>3, <1>4 DEF UsesBounded

LEMMA UsesByMail ==
  ASSUME Typed, UsesBounded, NEW pr \in Proc, SendEmailVerification(pr) \/ CreatePasswordRecoveryToken(pr)
  PROVE  UsesBounded'
<1>1. /\ request[pr].at \in {"mail", "recover"} /\ request'[pr].at = "idle" /\ Others(pr)
      /\ UNCHANGED <<situation, lost>> /\ used' = Append(used, 0)
      /\ \E row : tokens' = Append(tokens, row)
  BY EndIs, IdleFields DEF SendEmailVerification, CreatePasswordRecoveryToken, Mailing, At
<1>2. PICK row : tokens' = Append(tokens, row)
  BY <1>1
<1>3. /\ tokens \in Seq(TokenRow) /\ used \in Seq(Nat) /\ Len(used) = Len(tokens) /\ Len(tokens) \in Nat
      /\ DOMAIN tokens = 1..Len(tokens)
  BY SeqDomain DEF Typed, RowsTyped, TypeOK
<1>4. /\ DOMAIN tokens' = 1..Len(tokens) + 1
      /\ \A k \in DOMAIN tokens : tokens'[k] = tokens[k] /\ used'[k] = used[k]
      /\ used'[Len(tokens) + 1] = 0
  <2>1. tokens \in Seq(TokenRow \cup {row})
    BY <1>3
  <2> QED BY <1>1, <1>2, <1>3, <2>1, AppendProperties
<1>5. Proc' = Proc /\ \A p \in Proc : p # pr => request'[p] = request[p]
  BY <1>1 DEF Proc, Others
<1>6. \A k : Using(k)' = Using(k) /\ Spending(k)' = Spending(k)
  BY <1>1, <1>5 DEF Using, Spending
<1>7. ASSUME NEW k \in DOMAIN tokens', <<"token", k>> \notin lost'
      PROVE  /\ used'[k] + Cardinality(Using(k)') <= situation.slots
             /\ tokens'[k].live => used'[k] <= Cardinality(Spending(k)')
  <2>1. CASE k \in DOMAIN tokens
    BY <1>1, <1>4, <1>6, <1>7, <2>1 DEF UsesBounded
  <2>2. CASE k = Len(tokens) + 1
    <3>1. /\ Cardinality(Using(k)) \in Nat /\ Cardinality(Spending(k)) \in Nat
          /\ Cardinality(Using(k)) <= situation.slots
      BY UsesCounted, Slots DEF Using
    <3>2. used'[k] = 0
      BY <1>4, <2>2
    <3> QED BY <1>6, <3>1, <3>2
  <2> QED BY <1>3, <1>4, <1>7, <2>1, <2>2
<1> QED BY <1>1, <1>7 DEF UsesBounded

LEMMA UsesByAccounts == ASSUME Typed, UsesBounded, NEW pr \in Proc, AccountStep(pr) PROVE UsesBounded'
<1> USE DEF accountTables, sessionTables, oauthTables, histories
<1> DEFINE r == request[pr]
           q == request'[pr]
<1>1. UNCHANGED tokens => /\ DOMAIN tokens' = DOMAIN tokens
                          /\ \A k \in DOMAIN tokens : tokens'[k].live => tokens[k].live
  OBVIOUS
<1>2. ASSUME NEW u \in User, NEW e \in Email, CreateUserFromSignup(pr, u, e) \/ CreateUserWithToken(pr, u, e)
      PROVE  UsesBounded'
  BY <1>1, <1>2, SignUpIs, IdleFields, UsesKept DEF Accepted
<1>3. ASSUME NEW u \in User, NEW right \in BOOLEAN, Tries(pr, u, right) PROVE UsesBounded'
  <2>1. r = Idle /\ Others(pr) /\ UNCHANGED <<situation, tokens, used, lost>> /\ q.at = "attempt"
    BY <1>3, TryIs DEF Accepted
  <2> QED BY <1>1, <2>1, IdleFields, UsesKept
<1>4. ASSUME NEW u \in User, Changes(pr, u) PROVE UsesBounded'
  BY <1>1, <1>4, ChangeIs, IdleFields, UsesKept DEF Accepted
<1>5. ASSUME NEW u \in User, NEW k, NEW phase, Asks(pr, u, k, phase) PROVE UsesBounded'
  <2>1. phase \in {"mail", "recover", "password", "delete", "verify"}
    BY <1>5 DEF Asks
  <2>2. /\ r = Idle /\ Others(pr) /\ UNCHANGED <<situation, tokens, used, lost>>
        /\ q.at = phase /\ q.token = k /\ (phase = "verify" => k # 0)
        /\ (k # 0 => k \in DOMAIN tokens /\ tokens[k].live)
    BY <1>5, AskIs DEF Accepted
  <2>3. CASE k # 0 /\ phase \in {"verify", "password"}
    BY <2>2, <2>3, UseBegins
  <2>4. CASE phase \notin {"verify", "password"} \/ (phase = "password" /\ k = 0)
    BY <1>1, <2>1, <2>2, <2>4, IdleFields, UsesKept
  <2> QED BY <2>2, <2>3, <2>4
<1>6. CASE Save(pr)
  BY <1>1, <1>6, SaveIs, IdleFields, UsesKept
<1>7. CASE DeleteToken(pr)
  <2>1. /\ r.at = "spend" /\ q.at = "idle" /\ Others(pr) /\ UNCHANGED <<situation, used, lost>>
        /\ r.token \in DOMAIN tokens /\ tokens' = [tokens EXCEPT ![r.token].live = FALSE]
    BY <1>7, EndIs, IdleFields, Current DEF DeleteToken, Delete, At, Sound
  <2>2. Proc' = Proc /\ \A p \in Proc : p # pr => request'[p] = request[p]
    BY <2>1 DEF Proc, Others
  <2>3. DOMAIN tokens' = DOMAIN tokens /\ ~tokens'[r.token].live
        /\ \A k \in DOMAIN tokens : k # r.token => tokens'[k] = tokens[k]
    <3>1. tokens[r.token] \in TokenRow
      BY <2>1 DEF Typed, TypeOK
    <3> QED BY <2>1, <3>1 DEF TokenRow
  <2>4. ASSUME NEW k \in DOMAIN tokens, <<"token", k>> \notin lost
        PROVE  /\ used[k] + Cardinality(Using(k)') <= situation.slots
               /\ tokens'[k].live => used[k] <= Cardinality(Spending(k)')
    <3>1. Using(k)' = Using(k) /\ (k # r.token => Spending(k)' = Spending(k))
      BY <2>1, <2>2 DEF Using, Spending
    <3> QED BY <2>3, <2>4, <3>1 DEF UsesBounded
  <2> QED BY <2>1, <2>3, <2>4 DEF UsesBounded
<1>8. CASE VerifyEmail(pr)
  <2>1. /\ r.at = "verify" /\ r.token \in DOMAIN tokens
        /\ Others(pr) /\ UNCHANGED <<situation, tokens, lost>>
        /\ \/ used' = used /\ request'[pr] = Idle
           \/ used' = [used EXCEPT ![r.token] = @ + 1] /\ request'[pr].at = "spend" /\ Carries(pr)
    BY <1>8, VerifyIs
  <2>2. CASE used' = used /\ request'[pr] = Idle
    BY <1>1, <2>1, <2>2, IdleFields, UsesKept
  <2>3. CASE used' = [used EXCEPT ![r.token] = @ + 1] /\ request'[pr].at = "spend" /\ Carries(pr)
    BY <2>1, <2>3, UseMade DEF Carries
  <2> QED BY <2>1, <2>2, <2>3
<1>9. CASE UpdateFailedPasswordAttempts(pr)
  <2>1. /\ r.at = "attempt" /\ r.token = 0 /\ Others(pr) /\ UNCHANGED <<situation, tokens, used, lost>>
        /\ q.at = "idle" \/ (q.at \in {"session", "password", "update"} /\ q.token = r.token)
    BY <1>9, AttemptIs, IdleFields DEF Carries
  <2> QED BY <1>1, <2>1, UsesKept
<1>10. CASE UpdatePassword(pr)
  <2>1. /\ r.at = "password" /\ r.token \in DOMAIN tokens \cup {0}
        /\ Others(pr) /\ UNCHANGED <<situation, tokens, lost>>
        /\ \/ r.token = 0 /\ used' = used /\ request'[pr] = Idle
           \/ /\ r.token # 0 /\ used' = [used EXCEPT ![r.token] = @ + 1]
              /\ request'[pr].at = "spend" /\ Carries(pr)
    BY <1>10, PasswordIs
  <2>2. CASE used' = used /\ request'[pr] = Idle
    BY <1>1, <2>1, <2>2, IdleFields, UsesKept
  <2>3. CASE /\ r.token # 0 /\ used' = [used EXCEPT ![r.token] = @ + 1]
             /\ request'[pr].at = "spend" /\ Carries(pr)
    BY <2>1, <2>3, UseMade DEF Carries
  <2> QED BY <2>1, <2>2, <2>3
<1>u. CASE UpdateUser(pr)
  <2>1. /\ Others(pr) /\ UNCHANGED <<situation, tokens, used, lost>> /\ r.at = "update"
        /\ q.at \in {"idle", "read"}
    BY <1>u, RecheckIs, IdleFields
  <2> QED BY <1>1, <2>1, UsesKept
<1>11. CASE ReadOldUser(pr)
  BY <1>1, <1>11, ReadIs, UsesKept
<1>12. CASE Update(pr)
  <2>1. /\ Others(pr) /\ UNCHANGED <<situation, tokens, used, lost>> /\ r.at = "write"
        /\ q.at \in {"idle", "mail"}
    BY <1>12, UpdateIs, IdleFields
  <2> QED BY <1>1, <2>1, UsesKept
<1>13. CASE DeleteRow(pr)
  BY <1>1, <1>13, DeleteIs, UsesKept
<1> QED BY <1>2, <1>3, <1>4, <1>5, <1>6, <1>7, <1>8, <1>9, <1>10, <1>u, <1>11, <1>12, <1>13, UsesByMail
     DEF AccountStep

LEMMA UsesStep == ASSUME Typed, UsesBounded, [Next]_vars PROVE UsesBounded'
<1> USE DEF accountTables, sessionTables, oauthTables, histories
<1>1. ASSUME NEW pr \in Proc, OtherStep(pr) PROVE UsesBounded'
  <2>1. /\ UNCHANGED <<situation, tokens, used>> /\ Others(pr) /\ lost \subseteq lost'
        /\ request[pr].at # "spend" /\ request'[pr].at \notin {"verify", "password", "spend"}
    BY <1>1, OtherSteps DEF SessionPhases, Grants, Revokes
  <2> QED BY <2>1, UsesKept
<1>2. ASSUME NEW pr \in Proc, Fault(pr) PROVE UsesBounded'
  <2>1. /\ UNCHANGED <<situation, tokens, used>> /\ Others(pr) /\ lost \subseteq lost'
        /\ request'[pr].at = "idle"
        /\ request[pr].at # "spend" \/ <<"token", request[pr].token>> \in lost'
    BY <1>2, BecomeIs, IdleFields DEF Fault, LostBy
  <2> QED BY <2>1, UsesKept
<1>3. CASE /\ UNCHANGED <<situation, used, request>> /\ lost \subseteq lost' /\ DOMAIN tokens' = DOMAIN tokens
           /\ \A k \in DOMAIN tokens : tokens'[k].live = tokens[k].live
  <2>1. \A k : Using(k)' = Using(k) /\ Spending(k)' = Spending(k)
    BY <1>3 DEF Using, Spending, Proc
  <2> QED BY <1>3, <2>1 DEF UsesBounded
<1>4. ASSUME NEW k \in DOMAIN tokens, ExpireToken(k)
      PROVE  DOMAIN tokens' = DOMAIN tokens /\ \A i \in DOMAIN tokens : tokens'[i].live = tokens[i].live
  <2>1. \A i \in DOMAIN tokens : tokens[i] \in TokenRow
    BY DEF Typed, TypeOK
  <2> QED BY <1>4, <2>1 DEF ExpireToken, TokenRow
<1>5. CASE (\E s \in removing : RemoveInBackground(s)) \/ Expiry \/ UNCHANGED vars
  <2>1. /\ UNCHANGED <<situation, used, request>> /\ lost \subseteq lost'
        /\ UNCHANGED tokens \/ (\E k \in DOMAIN tokens : ExpireToken(k))
    BY <1>5 DEF RemoveInBackground, Expiry, ExpireToken, ExpireSession, ExpireCode, Outlive, vars
  <2> QED BY <1>3, <1>4, <2>1
<1> QED BY <1>1, <1>2, <1>5, UsesByAccounts, Steps

-----------------------------------------------------------------------------
(* Guesses, one request at a time: the request that compares a password    *)
(* is the only one, so that it counts on from what it read.                *)
Missing(u) == <<"guess", u>> \in lost
WrongBy(pr, u) == request[pr].at = "attempt" /\ request[pr].user = u /\ ~request[pr].right

GuessRows(pr) == \A u \in User :
  /\ users[u].attempts <= MaximumLoginAttempts
  /\ ~Exists(u) => guesses[u] = 0 \/ Missing(u)
  /\ ~WrongBy(pr, u) /\ ~Missing(u) => guesses[u] <= users[u].attempts
GuessAt(pr) ==
  LET r == request[pr] IN
  /\ r.at = "attempt" => /\ r.row.attempts < MaximumLoginAttempts
                         /\ ~Missing(r.user) => guesses[r.user] <= r.row.attempts + 1
  /\ r.at = "save" => r.row.attempts = 0
  /\ r.at = "write" => r.row = users[r.user]
GuessInv == Alone => \A pr \in Proc : GuessRows(pr) /\ GuessAt(pr)

LEMMA TheOnlyOne == ASSUME Alone, NEW pr \in Proc PROVE Proc = {pr} /\ (UNCHANGED situation => Proc' = {pr} /\ Alone')
BY DEF Alone, Proc

LEMMA GuessInit == ASSUME Init PROVE GuessInv
<1>1. \A pr \in Proc : request[pr].at = "idle"
  BY IdleFields DEF Init, Proc
<1>2. \A u \in User : users[u].attempts = 0 /\ guesses[u] = 0
  <2>1. \A u \in User : users[u] = IF u \in DOMAIN situation.typeOf
                                   THEN [NoUser EXCEPT !.status = "live", !.type = situation.typeOf[u],
                                           !.email = situation.emailOf[u], !.verified = TRUE]
                                   ELSE NoUser
    BY DEF Init
  <2>2. ASSUME NEW u \in User PROVE users[u].attempts = 0
    <3>1. CASE u \in DOMAIN situation.typeOf
      BY <2>1, <3>1 DEF NoUser
    <3>2. CASE u \notin DOMAIN situation.typeOf
      <4>1. users[u] = NoUser /\ NoUser.attempts = 0
        BY <2>1, <3>2, Zenon DEF NoUser
      <4> QED BY <4>1
    <3> QED BY <3>1, <3>2
  <2> QED BY <2>2 DEF Init
<1>3. MaximumLoginAttempts \in Nat
  BY AccountStoreAssumption
<1> QED BY <1>1, <1>2, <1>3 DEF GuessInv, GuessRows, GuessAt

(* A step that leaves the counts alone and does not end an attempt, except *)
(* by losing it.                                                           *)
LEMMA GuessKept ==
  ASSUME Typed, GuessInv, NEW pr \in Proc, Others(pr), UNCHANGED <<situation, guesses>>,
         lost \subseteq lost',
         request[pr].at # "attempt" \/ <<"guess", request[pr].user>> \in lost',
         \A u \in User : /\ users'[u].attempts = users[u].attempts
                         /\ users'[u].status = "none" => users[u].status = "none",
         request'[pr].at \notin {"attempt", "save", "write"}
  PROVE  GuessInv'
<1> SUFFICES ASSUME Alone PROVE GuessRows(pr)' /\ GuessAt(pr)'
  BY TheOnlyOne DEF GuessInv, Alone
<1>1. GuessRows(pr)
  BY DEF GuessInv
<1>2. \A u \in User : WrongBy(pr, u) => Missing(u)'
  BY DEF WrongBy, Missing
<1>3. \A u \in User : Missing(u) => Missing(u)'
  BY DEF Missing
<1>4. GuessRows(pr)'
  BY <1>1, <1>2, <1>3 DEF GuessRows, Exists, WrongBy
<1> QED BY <1>4 DEF GuessAt

LEMMA GuessByAccounts ==
  ASSUME Typed, SignInv, GuessInv, NEW pr \in Proc, AccountStep(pr)
  PROVE  GuessInv'
<1> USE DEF accountTables, sessionTables, oauthTables, histories
<1> DEFINE r == request[pr]
           q == request'[pr]
<1>0. SUFFICES ASSUME Alone PROVE GuessInv'
  <2>1. UNCHANGED situation
    BY SignUpIs, TryIs, ChangeIs, AskIs, SaveIs, EndIs, VerifyIs, AttemptIs, PasswordIs, RecheckIs,
       ReadIs, UpdateIs, DeleteIs DEF AccountStep, Accepted
  <2> QED BY <2>1 DEF GuessInv, Alone
<1>a. /\ GuessRows(pr) /\ GuessAt(pr)
      /\ \A u \in User : users[u].attempts \in Nat /\ guesses[u] \in Nat
      /\ MaximumLoginAttempts \in Nat /\ pr \in Proc
      /\ r.at = "save" => ~Exists(r.user)
      /\ guesses \in [User -> Nat]
  <2>1. GuessRows(pr) /\ GuessAt(pr)
    BY <1>0 DEF GuessInv
  <2>2. \A u \in User : users[u] \in UserRow
    BY Current
  <2> QED BY <2>1, <2>2, AccountStoreAssumption
          DEF Typed, TypeOK, UserRow, SignInv, SignUps, Signs
<1>b. ASSUME UNCHANGED situation, GuessRows(pr)', GuessAt(pr)' PROVE GuessInv'
  BY <1>0, <1>b, TheOnlyOne DEF GuessInv
<1>1. ASSUME NEW u \in User, NEW e \in Email, CreateUserFromSignup(pr, u, e) \/ CreateUserWithToken(pr, u, e)
      PROVE  GuessInv'
  <2>1. /\ r = Idle /\ UNCHANGED <<situation, users, guesses, lost>>
        /\ q.at = "save" /\ q.row.attempts = 0
    BY <1>1, SignUpIs DEF Accepted
  <2>2. GuessRows(pr)'
    BY <1>a, <2>1, IdleFields DEF GuessRows, WrongBy, Missing, Exists
  <2>3. GuessAt(pr)'
    BY <2>1 DEF GuessAt
  <2> QED BY <1>b, <2>1, <2>2, <2>3
<1>2. ASSUME NEW u \in User, NEW right \in BOOLEAN, Tries(pr, u, right) PROVE GuessInv'
  <2>1. /\ r = Idle /\ UNCHANGED <<situation, users, lost>> /\ q.at = "attempt" /\ q.user = u
        /\ q.row = users[u] /\ q.right = right /\ IsLive(u) /\ MayTry(u)
        /\ guesses' = IF right THEN guesses ELSE [guesses EXCEPT ![u] = @ + 1]
    BY <1>2, TryIs DEF Accepted
  <2>2. r.at = "idle"
    BY <2>1, IdleFields
  <2>3. /\ ~Missing(u) => guesses[u] <= users[u].attempts
        /\ Exists(u) /\ users[u].attempts < MaximumLoginAttempts
    BY <1>a, <2>1, <2>2 DEF GuessRows, WrongBy, IsLive, Exists, MayTry
  <2>4. /\ \A v \in User : v # u => guesses'[v] = guesses[v]
        /\ guesses'[u] = IF right THEN guesses[u] ELSE guesses[u] + 1
    BY <1>a, <2>1
  <2>5. GuessRows(pr)'
    <3> SUFFICES ASSUME NEW v \in User
                 PROVE  /\ users[v].attempts <= MaximumLoginAttempts
                        /\ ~Exists(v) => guesses'[v] = 0 \/ Missing(v)
                        /\ ~WrongBy(pr, v)' /\ ~Missing(v) => guesses'[v] <= users[v].attempts
      BY <2>1 DEF GuessRows, Exists, Missing
    <3>1. CASE v = u
      BY <1>a, <2>1, <2>3, <2>4, <3>1 DEF GuessRows, WrongBy
    <3>2. CASE v # u
      BY <1>a, <2>2, <2>4, <3>2 DEF GuessRows, WrongBy
    <3> QED BY <3>1, <3>2
  <2>6. GuessAt(pr)'
    BY <1>a, <2>1, <2>3, <2>4 DEF GuessAt, Missing
  <2> QED BY <1>b, <2>1, <2>5, <2>6
<1>3. ASSUME NEW u \in User, Changes(pr, u) PROVE GuessInv'
  BY <1>3, ChangeIs, IdleFields, GuessKept DEF Accepted
<1>4. ASSUME NEW u \in User, NEW k, NEW phase, Asks(pr, u, k, phase) PROVE GuessInv'
  <2>1. phase \in {"mail", "recover", "password", "delete", "verify"}
    BY <1>4 DEF Asks
  <2>2. /\ Others(pr) /\ UNCHANGED <<situation, users, guesses, lost>> /\ r = Idle /\ q.at = phase
    BY <1>4, AskIs DEF Accepted
  <2>3. r.at = "idle" /\ q.at \notin {"attempt", "save", "write"}
    BY <2>1, <2>2, IdleFields
  <2> QED BY <2>2, <2>3, GuessKept
<1>5. CASE Save(pr)
  <2>1. /\ r.at = "save" /\ r.user \in User /\ RowsOf(r.user) /\ UNCHANGED <<situation, guesses, lost>>
        /\ users' = users \/ users'[r.user] = r.row
        /\ q.at \in {"idle", "mail"}
    BY <1>5, SaveIs, IdleFields
  <2>2. r.row.attempts = 0 /\ (guesses[r.user] = 0 \/ Missing(r.user)) /\ r.row.status = "live"
    BY <1>a, <2>1 DEF GuessRows, GuessAt, SignInv, SignUps, Signs
  <2>3. GuessRows(pr)'
    <3> SUFFICES ASSUME NEW v \in User
                 PROVE  /\ users'[v].attempts <= MaximumLoginAttempts
                        /\ users'[v].status = "none" => guesses[v] = 0 \/ Missing(v)
                        /\ ~Missing(v) => guesses[v] <= users'[v].attempts
      BY <2>1 DEF GuessRows, Exists, Missing
    <3>1. CASE users'[v] = users[v]
      BY <1>a, <2>1, <3>1 DEF GuessRows, WrongBy, Exists
    <3>2. CASE v = r.user /\ users'[v] = r.row
      BY <1>a, <2>1, <2>2, <3>2
    <3> QED BY <2>1, <3>1, <3>2 DEF RowsOf
  <2>4. q.at \in {"idle", "mail"}
    BY <1>5, SaveIs, IdleFields
  <2>5. GuessAt(pr)'
    BY <2>4 DEF GuessAt
  <2> QED BY <1>b, <2>1, <2>3, <2>5
<1>6. CASE SendEmailVerification(pr) \/ CreatePasswordRecoveryToken(pr) \/ DeleteToken(pr)
  BY <1>6, EndIs, IdleFields, GuessKept
<1>7. CASE VerifyEmail(pr)
  <2>1. /\ Others(pr) /\ UNCHANGED <<situation, guesses, lost>> /\ r.at = "verify"
        /\ q.at \in {"idle", "spend"}
        /\ \A u \in User : users'[u].attempts = users[u].attempts /\ users'[u].status = users[u].status
    BY <1>7, VerifyIs, IdleFields DEF RowsOf
  <2> QED BY <2>1, GuessKept
<1>8. CASE UpdateFailedPasswordAttempts(pr)
  <2>1. /\ r.at = "attempt" /\ r.user \in User /\ r.right \in BOOLEAN /\ r.row.attempts \in Nat
        /\ UNCHANGED <<situation, lost>> /\ RowsOf(r.user)
        /\ users'[r.user].attempts = Attempts(r) /\ users'[r.user].status = users[r.user].status
        /\ guesses' = IF r.right THEN [guesses EXCEPT ![r.user] = 0] ELSE guesses
        /\ q.at \in {"idle", "session", "password", "update"}
    BY <1>8, AttemptIs, IdleFields, Current DEF UserRow, Request
  <2>2. /\ r.row.attempts < MaximumLoginAttempts
        /\ ~Missing(r.user) => guesses[r.user] <= r.row.attempts + 1
    BY <1>a, <2>1 DEF GuessAt
  <2>3. /\ \A v \in User : v # r.user => guesses'[v] = guesses[v]
        /\ guesses'[r.user] = IF r.right THEN 0 ELSE guesses[r.user]
        /\ Attempts(r) = IF r.right THEN 0 ELSE r.row.attempts + 1
    BY <1>a, <2>1 DEF Attempts
  <2>4. GuessRows(pr)'
    <3> SUFFICES ASSUME NEW v \in User
                 PROVE  /\ users'[v].attempts <= MaximumLoginAttempts
                        /\ users'[v].status = "none" => guesses'[v] = 0 \/ Missing(v)
                        /\ ~Missing(v) => guesses'[v] <= users'[v].attempts
      BY <2>1 DEF GuessRows, Exists, Missing
    <3>1. CASE v # r.user
      BY <1>a, <2>1, <2>3, <3>1 DEF GuessRows, WrongBy, Exists, RowsOf
    <3>2. CASE v = r.user
      <4>1. guesses[v] = 0 \/ Missing(v) \/ users[v].status # "none"
        BY <1>a DEF GuessRows, Exists
      <4> QED BY <1>a, <2>1, <2>2, <2>3, <3>2, <4>1
    <3> QED BY <3>1, <3>2
  <2>5. GuessAt(pr)'
    BY <2>1 DEF GuessAt
  <2> QED BY <1>b, <2>1, <2>4, <2>5
<1>9. CASE UpdatePassword(pr)
  <2>1. /\ r.at = "password" /\ r.user \in User /\ UNCHANGED <<situation, lost>> /\ RowsOf(r.user)
        /\ users'[r.user].attempts = 0 /\ users'[r.user].status = users[r.user].status
        /\ guesses' = [guesses EXCEPT ![r.user] = 0] /\ q.at \in {"idle", "spend"}
    BY <1>9, PasswordIs, IdleFields
  <2>2. guesses'[r.user] = 0 /\ \A v \in User : v # r.user => guesses'[v] = guesses[v]
    BY <1>a, <2>1
  <2>3. GuessRows(pr)'
    <3> SUFFICES ASSUME NEW v \in User
                 PROVE  /\ users'[v].attempts <= MaximumLoginAttempts
                        /\ users'[v].status = "none" => guesses'[v] = 0 \/ Missing(v)
                        /\ ~Missing(v) => guesses'[v] <= users'[v].attempts
      BY <2>1 DEF GuessRows, Exists, Missing
    <3>1. CASE v # r.user
      BY <1>a, <2>1, <2>2, <3>1 DEF GuessRows, WrongBy, Exists, RowsOf
    <3>2. CASE v = r.user
      BY <1>a, <2>1, <2>2, <3>2
    <3> QED BY <3>1, <3>2
  <2>4. GuessAt(pr)'
    BY <2>1 DEF GuessAt
  <2> QED BY <1>b, <2>1, <2>3, <2>4
<1>u. CASE UpdateUser(pr)
  <2>1. /\ Others(pr) /\ UNCHANGED <<situation, users, guesses, lost>> /\ r.at = "update"
        /\ q.at \in {"idle", "read"}
    BY <1>u, RecheckIs, IdleFields
  <2> QED BY <2>1, GuessKept
<1>10. CASE ReadOldUser(pr)
  <2>1. /\ r.at = "read" /\ UNCHANGED <<situation, users, guesses, lost>>
        /\ q.at = "write" /\ q.user = r.user /\ q.row = users[r.user]
    BY <1>10, ReadIs
  <2>2. GuessRows(pr)' /\ GuessAt(pr)'
    BY <1>a, <2>1 DEF GuessRows, GuessAt, WrongBy, Missing, Exists
  <2> QED BY <1>b, <2>1, <2>2
<1>11. CASE Update(pr)
  <2>1. /\ r.at = "write" /\ r.user \in User /\ Others(pr) /\ UNCHANGED <<situation, guesses, lost>>
        /\ RowsOf(r.user) /\ q.at \in {"idle", "mail"}
        /\ \/ users' = users
           \/ /\ users'[r.user].attempts = r.row.attempts
              /\ users'[r.user].status = IF r.trusted THEN "live" ELSE r.row.status
    BY <1>11, UpdateIs, IdleFields
  <2>2. r.row = users[r.user]
    BY <1>a, <2>1 DEF GuessAt
  <2>3. \A u \in User : /\ users'[u].attempts = users[u].attempts
                        /\ users'[u].status = "none" => users[u].status = "none"
    BY <2>1, <2>2 DEF RowsOf
  <2> QED BY <2>1, <2>3, GuessKept
<1>12. CASE DeleteRow(pr)
  <2>1. /\ Others(pr) /\ UNCHANGED <<situation, guesses, lost>> /\ r.at = "delete" /\ q.at = "list"
        /\ \A u \in User : /\ users'[u].attempts = users[u].attempts
                           /\ users'[u].status = "none" => users[u].status = "none"
    BY <1>12, DeleteIs DEF RowsOf
  <2> QED BY <2>1, GuessKept
<1> QED BY <1>1, <1>2, <1>3, <1>4, <1>5, <1>6, <1>7, <1>8, <1>9, <1>u, <1>10, <1>11, <1>12 DEF AccountStep

LEMMA GuessStep == ASSUME Typed, SignInv, GuessInv, [Next]_vars PROVE GuessInv'
<1> USE DEF accountTables, sessionTables, oauthTables, histories
<1>1. ASSUME NEW pr \in Proc, OtherStep(pr) PROVE GuessInv'
  <2>1. /\ UNCHANGED <<situation, users, guesses>> /\ Others(pr) /\ lost \subseteq lost'
        /\ request[pr].at # "attempt" /\ request'[pr].at \notin {"attempt", "save", "write"}
    BY <1>1, OtherSteps DEF SessionPhases, Grants, Revokes
  <2> QED BY <2>1, GuessKept
<1>2. ASSUME NEW pr \in Proc, Fault(pr) PROVE GuessInv'
  <2>1. /\ UNCHANGED <<situation, users, guesses>> /\ Others(pr) /\ lost \subseteq lost'
        /\ request'[pr].at = "idle"
        /\ request[pr].at # "attempt" \/ <<"guess", request[pr].user>> \in lost'
    BY <1>2, BecomeIs, IdleFields DEF Fault, LostBy
  <2> QED BY <2>1, GuessKept
<1>3. CASE (\E s \in removing : RemoveInBackground(s)) \/ Expiry \/ UNCHANGED vars
  <2>1. UNCHANGED <<situation, users, guesses, request>> /\ lost \subseteq lost'
    BY <1>3 DEF RemoveInBackground, Expiry, ExpireToken, ExpireSession, ExpireCode, Outlive, vars
  <2> SUFFICES ASSUME Alone, NEW pr \in Proc PROVE GuessRows(pr)' /\ GuessAt(pr)'
    BY <2>1 DEF GuessInv, Alone, Proc
  <2>2. GuessRows(pr) /\ GuessAt(pr) /\ \A u : Missing(u) => Missing(u)'
    BY <2>1 DEF GuessInv, Missing
  <2> QED BY <2>1, <2>2 DEF GuessRows, GuessAt, WrongBy, Exists
<1> QED BY <1>1, <1>2, <1>3, GuessByAccounts, Steps

-----------------------------------------------------------------------------
(* What the steps that have to do with sessions do, one kind at a time.    *)
Same(q, r) ==
  /\ q.then = r.then /\ q.user = r.user /\ q.app = r.app /\ q.token = r.token
  /\ q.code = r.code /\ q.all = r.all /\ q.todo = r.todo

(* Those that leave sessions and access data alone, in whichever phases.   *)
ClericalPhase == {"idle", "app_write", "code", "allow", "unauthorize"}
Clerical(pr) ==
  \/ \E c \in App :
       \/ \E u \in User : \/ createOAuthApp(pr, u, c)
                          \/ \E response \in {"code", "implicit"} : authorizeOAuthApp(pr, u, c, response)
       \/ updateOAuthApp(pr, c) \/ RegenerateOAuthAppSecret(pr, c)
  \/ \E k \in DOMAIN codes : RefuseExpiredCode(pr, k)
  \/ UpdateApp(pr) \/ GetOAuthCodeRedirect(pr) \/ SaveAuthorizedApp(pr) \/ DeleteAuthorizedApp(pr)

(* A code is made anew, or made no more of than before.                    *)
CodesFade == \A k \in DOMAIN codes' :
  \/ codes'[k].made = 0
  \/ k \in DOMAIN codes /\ codes'[k].made = codes[k].made /\ (codes'[k].live => codes[k].live)

LEMMA ClericalIs ==
  ASSUME Typed, NEW pr \in Proc, Clerical(pr)
  PROVE  LET r == request[pr]
             q == request'[pr] IN
         /\ Others(pr) /\ UNCHANGED <<situation, users, sessionTables, lost>> /\ CodesFade
         /\ r.at \in ClericalPhase /\ q.at \in ClericalPhase \cup {"implicit"}
         /\ q.at = "implicit" => q.user \in User /\ IsLive(q.user)
         /\ q.all => r.all
<1> USE DEF accountTables, sessionTables, oauthTables, histories
<1> DEFINE r == request[pr]
           q == request'[pr]
           Goal == /\ Others(pr) /\ UNCHANGED <<situation, users, sessionTables, lost>> /\ CodesFade
                   /\ r.at \in ClericalPhase /\ q.at \in ClericalPhase \cup {"implicit"}
                   /\ q.at = "implicit" => q.user \in User /\ IsLive(q.user)
                   /\ q.all => r.all
<1>1. /\ r \in Request /\ Sound(r, DOMAIN tokens, sessions, DOMAIN codes) /\ pr \in DOMAIN request
      /\ codes \in Seq(CodeRow) /\ DOMAIN codes = 1..Len(codes) /\ Len(codes) \in Nat
      /\ \A k \in DOMAIN codes : codes[k] \in CodeRow
  BY Current, SeqDomain DEF Typed, TypeOK, RowsTyped
<1>2. UNCHANGED codes => CodesFade
  BY DEF CodesFade
<1>3. ASSUME NEW k \in DOMAIN codes,
             codes' = [codes EXCEPT ![k].live = FALSE] \/ codes' = [codes EXCEPT ![k].delivered = TRUE]
      PROVE  CodesFade
  <2>1. DOMAIN codes' = DOMAIN codes
    BY <1>3
  <2>2. ASSUME NEW j \in DOMAIN codes
        PROVE  codes'[j].made = codes[j].made /\ (codes'[j].live => codes[j].live)
    <3>1. CASE j # k
      BY <1>3, <3>1
    <3>2. CASE j = k
      <4>1. codes'[j] = [codes[j] EXCEPT !.live = FALSE] \/ codes'[j] = [codes[j] EXCEPT !.delivered = TRUE]
        BY <1>3, <3>2
      <4>2. codes[j] \in CodeRow
        BY <1>1
      <4> QED BY <4>1, <4>2 DEF CodeRow
    <3> QED BY <3>1, <3>2
  <2> QED BY <2>1, <2>2 DEF CodesFade
<1>4. ASSUME NEW c \in App, NEW u \in User, createOAuthApp(pr, u, c) PROVE Goal
  <2>1. r = Idle /\ request' = request /\ UNCHANGED <<situation, users, sessionTables, lost, codes>>
    BY <1>4 DEF createOAuthApp, Accept
  <2> QED BY <1>2, <2>1, IdleFields DEF Others, ClericalPhase
<1>5. ASSUME NEW c \in App, NEW u \in User, NEW response \in {"code", "implicit"},
             authorizeOAuthApp(pr, u, c, response)
      PROVE  Goal
  <2> DEFINE p == [Idle EXCEPT !.at = response, !.user = u, !.app = c]
  <2>1. p.at = response /\ p.user = u /\ p.all = FALSE
    BY IdleTyped, IdleFields DEF Request
  <2>2. Others(pr) /\ q = p /\ r = Idle
    BY <1>5, BecomeIs DEF authorizeOAuthApp, Accept
  <2>3. /\ UNCHANGED <<situation, users, sessionTables, lost, codes>>
        /\ response = "implicit" => IsLive(u)
    BY <1>5 DEF authorizeOAuthApp, Accept, UnchangedTables
  <2> HIDE DEF p
  <2> QED BY <1>2, <2>1, <2>2, <2>3, IdleFields DEF ClericalPhase
<1>6. ASSUME NEW c \in App, NEW op, NEW secret, ChangeOAuthApp(pr, c, op, secret) PROVE Goal
  <2> DEFINE p == [Idle EXCEPT !.at = "app_write", !.app = c, !.secret = secret]
  <2>1. p.at = "app_write" /\ p.all = FALSE
    BY IdleTyped, IdleFields DEF Request
  <2>2. Others(pr) /\ q = p /\ r = Idle
    BY <1>6, BecomeIs DEF ChangeOAuthApp, Accept
  <2>3. UNCHANGED <<situation, users, sessionTables, lost, codes>>
    BY <1>6 DEF ChangeOAuthApp, Accept, UnchangedTables
  <2> HIDE DEF p
  <2> QED BY <1>2, <2>1, <2>2, <2>3, IdleFields DEF ClericalPhase
<1>7. ASSUME NEW k \in DOMAIN codes, RefuseExpiredCode(pr, k) PROVE Goal
  <2>1. /\ r = Idle /\ request' = request /\ UNCHANGED <<situation, users, sessionTables, lost>>
        /\ codes' = [codes EXCEPT ![k].live = FALSE]
    BY <1>7 DEF RefuseExpiredCode, Accept
  <2> QED BY <1>3, <2>1, IdleFields DEF Others, ClericalPhase
<1>8. CASE UpdateApp(pr) \/ DeleteAuthorizedApp(pr)
  <2>1. /\ r.at \in {"app_write", "unauthorize"} /\ Others(pr) /\ q = Idle
        /\ UNCHANGED <<situation, users, sessionTables, lost, codes>>
    BY <1>8, BecomeIs DEF UpdateApp, DeleteAuthorizedApp, At
  <2> QED BY <1>2, <2>1, IdleFields DEF ClericalPhase
<1>9. CASE SaveAuthorizedApp(pr)
  <2>1. /\ r.at = "allow" /\ Others(pr) /\ q = Idle
        /\ UNCHANGED <<situation, users, sessionTables, lost>>
        /\ codes' = codes \/ (r.code # 0 /\ codes' = [codes EXCEPT ![r.code].delivered = TRUE])
    BY <1>9, BecomeIs DEF SaveAuthorizedApp, At
  <2>2. r.code \in DOMAIN codes \cup {0}
    BY <1>1, <2>1 DEF Sound
  <2> QED BY <1>2, <1>3, <2>1, <2>2, IdleFields DEF ClericalPhase
<1>10. CASE GetOAuthCodeRedirect(pr)
  <2> DEFINE p == [r EXCEPT !.at = "allow", !.code = Len(codes) + 1]
             none == [r EXCEPT !.at = "allow"]
             row == [app |-> r.app, user |-> r.user, live |-> TRUE,
                     fresh |-> TRUE, delivered |-> FALSE, made |-> 0]
  <2>1. p.at = "allow" /\ p.all = r.all /\ none.at = "allow" /\ none.all = r.all
    BY <1>1 DEF Request
  <2>2. Others(pr) /\ q \in {p, none}
    BY <1>10, BecomeIs DEF GetOAuthCodeRedirect
  <2>3. /\ UNCHANGED <<situation, users, sessionTables, lost>> /\ r.at = "code"
        /\ codes' = codes \/ codes' = Append(codes, row)
    BY <1>10 DEF GetOAuthCodeRedirect, At
  <2>4. CodesFade
    <3>1. CASE codes' = codes
      BY <1>1, <3>1 DEF CodesFade
    <3>2. CASE codes' = Append(codes, row)
      <4>1. row.made = 0
        OBVIOUS
      <4> HIDE DEF row
      <4>2. codes \in Seq(CodeRow \cup {row})
        BY <1>1
      <4>3. /\ DOMAIN codes' = 1..Len(codes) + 1
            /\ \A k \in DOMAIN codes : codes'[k] = codes[k]
            /\ codes'[Len(codes) + 1] = row
        BY <1>1, <3>2, <4>2, AppendProperties
      <4>4. \A k \in DOMAIN codes' : k \in DOMAIN codes \/ k = Len(codes) + 1
        BY <1>1, <4>3
      <4> QED BY <4>1, <4>3, <4>4 DEF CodesFade
    <3> QED BY <2>3, <3>1, <3>2
  <2> HIDE DEF p, none
  <2> QED BY <2>1, <2>2, <2>3, <2>4 DEF ClericalPhase
<1> QED BY <1>4, <1>5, <1>6, <1>7, <1>8, <1>9, <1>10
        DEF Clerical, updateOAuthApp, RegenerateOAuthAppSecret

(* Those that begin something, without writing anything yet.               *)
Begins(pr) ==
  \/ \E s \in DOMAIN sessions : RevokeSessionById(pr, s)
  \/ \E u \in User, c \in App : deauthorizeOAuthApp(pr, u, c) \/ Refresh(pr, c, u)
  \/ \E k \in DOMAIN codes : getAccessToken(pr, k)

LEMMA BeginIs ==
  ASSUME Typed, NEW pr \in Proc, Begins(pr)
  PROVE  LET q == request'[pr] IN
         /\ Accepted(pr) /\ UNCHANGED <<users, sessionTables, codes, lost>>
         /\ ~q.all /\ q.session = 0
         /\ \/ q.at \in {"revoke", "unauthorize", "code_done"}
            \/ /\ q.at = "exchange" /\ q.user \in User /\ IsLive(q.user)
               /\ accessData[q.app][q.user] = NoData /\ q.code \in DOMAIN codes /\ codes[q.code].live
            \/ /\ q.at = "renew" /\ q.user \in User /\ IsLive(q.user)
               /\ accessData[q.app][q.user].token = q.token
<1> USE DEF accountTables, sessionTables, oauthTables, histories
<1> DEFINE q == request'[pr]
           Goal == /\ Accepted(pr) /\ UNCHANGED <<users, sessionTables, codes, lost>>
                   /\ ~q.all /\ q.session = 0
                   /\ \/ q.at \in {"revoke", "unauthorize", "code_done"}
                      \/ /\ q.at = "exchange" /\ q.user \in User /\ IsLive(q.user)
                         /\ accessData[q.app][q.user] = NoData /\ q.code \in DOMAIN codes
                         /\ codes[q.code].live
                      \/ /\ q.at = "renew" /\ q.user \in User /\ IsLive(q.user)
                         /\ accessData[q.app][q.user].token = q.token
<1>1. ASSUME NEW s \in DOMAIN sessions, RevokeSessionById(pr, s) PROVE Goal
  <2> DEFINE base == [Idle EXCEPT !.user = sessions[s].user]
             p == [base EXCEPT !.at = "revoke", !.todo = {s}, !.then = "idle"]
  <2>1. base \in Request /\ base.all = FALSE /\ base.session = 0
    BY IdleTyped, IdleFields DEF Typed, RowsTyped, TypeOK, SessionRow, Request
  <2>2. Accepted(pr) /\ q = p /\ UNCHANGED <<users, sessionTables, codes, lost>>
    BY <1>1, BecomeIs DEF RevokeSessionById, Accept, Accepted, Revoking
  <2>3. p.at = "revoke" /\ p.all = FALSE /\ p.session = 0
    <3> HIDE DEF base
    <3> QED BY <2>1 DEF Request
  <2> HIDE DEF p
  <2> QED BY <2>2, <2>3
<1>2. ASSUME NEW u \in User, NEW c \in App, deauthorizeOAuthApp(pr, u, c) PROVE Goal
  <2> DEFINE base == [Idle EXCEPT !.user = u, !.app = c]
             s == accessData[c][u].token
             p == IF s = 0 THEN [base EXCEPT !.at = "unauthorize"]
                  ELSE [base EXCEPT !.at = "revoke", !.todo = {s}, !.then = "unauthorize"]
  <2>1. base \in Request /\ base.all = FALSE /\ base.session = 0
    BY IdleTyped, IdleFields DEF Request
  <2>2. Accepted(pr) /\ q = p /\ UNCHANGED <<users, sessionTables, codes, lost>>
    BY <1>2, BecomeIs DEF deauthorizeOAuthApp, Accept, Accepted, UnchangedTables
  <2>3. p.at \in {"revoke", "unauthorize"} /\ p.all = FALSE /\ p.session = 0
    <3> HIDE DEF base, s
    <3> QED BY <2>1 DEF Request
  <2> HIDE DEF p
  <2> QED BY <2>2, <2>3
<1>3. ASSUME NEW u \in User, NEW c \in App, Refresh(pr, c, u) PROVE Goal
  <2> DEFINE p == [Idle EXCEPT !.at = "renew", !.user = u, !.app = c, !.token = accessData[c][u].token]
  <2>1. p.at = "renew" /\ p.all = FALSE /\ p.session = 0 /\ p.user = u /\ p.app = c
        /\ p.token = accessData[c][u].token
    BY IdleTyped, IdleFields DEF Request
  <2>2. Accepted(pr) /\ q = p /\ UNCHANGED <<users, sessionTables, codes, lost>> /\ IsLive(u)
    BY <1>3, BecomeIs DEF Refresh, Accept, Accepted, UnchangedTables
  <2> HIDE DEF p
  <2> QED BY <2>1, <2>2
<1>4. ASSUME NEW k \in DOMAIN codes, getAccessToken(pr, k) PROVE Goal
  <2> DEFINE data == accessData[codes[k].app][codes[k].user]
             base == [Idle EXCEPT !.at = ExchangePhase(data), !.then = "code_done"]
             more == [base EXCEPT !.user = codes[k].user, !.app = codes[k].app]
             p == [more EXCEPT !.code = k, !.token = data.token]
  <2>1. ExchangePhase(data) \in {"renew", "code_done"} \/ (ExchangePhase(data) = "exchange" /\ data = NoData)
    BY DEF ExchangePhase
  <2>2. /\ Accepted(pr) /\ q = p /\ UNCHANGED <<users, sessionTables, codes, lost>>
        /\ codes[k].live /\ IsLive(codes[k].user)
    BY <1>4, BecomeIs DEF getAccessToken, Accept, Accepted, UnchangedTables
  <2>3. codes[k].user \in User
    BY DEF Typed, TypeOK, CodeRow
  <2>4. /\ p.at = ExchangePhase(data) /\ p.all = FALSE /\ p.session = 0 /\ p.user = codes[k].user
        /\ p.app = codes[k].app /\ p.code = k /\ p.token = data.token
    <3> HIDE DEF data
    <3>1. ExchangePhase(data) \in Phase /\ codes[k].app \in App
      BY <2>1 DEF Phase, Typed, TypeOK, CodeRow
    <3>2. base \in Request /\ base.at = ExchangePhase(data) /\ base.all = FALSE /\ base.session = 0
      <4>1. "code_done" \in Phase
        BY DEF Phase
      <4> QED BY <3>1, <4>1, IdleTyped, IdleFields DEF Request
    <3> HIDE DEF base
    <3>3. /\ more \in Request /\ more.at = base.at /\ more.all = FALSE /\ more.session = 0
          /\ more.user = codes[k].user /\ more.app = codes[k].app
      BY <2>3, <3>1, <3>2 DEF Request
    <3> HIDE DEF more
    <3>4. /\ p.at = more.at /\ p.all = more.all /\ p.session = more.session /\ p.user = more.user
          /\ p.app = more.app /\ p.code = k /\ p.token = data.token
      BY <3>3 DEF Request
    <3> QED BY <3>2, <3>3, <3>4
  <2> HIDE DEF p
  <2> QED BY <2>1, <2>2, <2>3, <2>4
<1> QED BY <1>1, <1>2, <1>3, <1>4 DEF Begins

(* Those that make a session for an application.                           *)
Makes(pr) == GetOAuthImplicitRedirect(pr) \/ ExchangeSession(pr) \/ RenewSession(pr)

LEMMA MakesIs ==
  ASSUME Typed, NEW pr \in Proc, Makes(pr)
  PROVE  LET r == request[pr]
             q == request'[pr] IN
         /\ r.at \in {"implicit", "exchange", "renew_session"} /\ r.user \in User /\ r.app \in App
         /\ q.at = CASE r.at = "implicit" -> "implicit_data"
                     [] r.at = "exchange" -> "exchange_data"
                     [] OTHER -> "renew_data"
         /\ q.session = NewSessionId /\ Same(q, r) /\ NewSession(r.user, r.app)
         /\ Others(pr) /\ UNCHANGED <<situation, users, removing, accessData, lost>>
         /\ IF r.at = "exchange" THEN codes' = [codes EXCEPT ![r.code].made = @ + 1] ELSE codes' = codes
<1> USE DEF accountTables, sessionTables, oauthTables, histories
<1> DEFINE r == request[pr]
<1>1. /\ r \in Request /\ Sound(r, DOMAIN tokens, sessions, DOMAIN codes)
  BY Current
<1>2. PICK phase \in {"implicit_data", "exchange_data", "renew_data"} :
        /\ Become(pr, [r EXCEPT !.at = phase, !.session = NewSessionId])
        /\ <<r.at, phase>> \in {<<"implicit", "implicit_data">>, <<"exchange", "exchange_data">>,
                                <<"renew_session", "renew_data">>}
  BY DEF Makes, GetOAuthImplicitRedirect, ExchangeSession, RenewSession, At
<1>3. /\ r.at \in {"implicit", "exchange", "renew_session"} /\ r.user \in User /\ r.app \in App
  BY <1>1, <1>2 DEF Sound, Grants
<1>4. /\ request'[pr].at = phase /\ request'[pr].session = NewSessionId /\ Same(request'[pr], r) /\ Others(pr)
  <2> HIDE DEF r
  <2>1. request'[pr] = [r EXCEPT !.at = phase, !.session = NewSessionId] /\ Others(pr)
    BY <1>2, BecomeIs
  <2>2. LET p == [r EXCEPT !.at = phase, !.session = NewSessionId]
        IN p.at = phase /\ p.session = NewSessionId /\ Same(p, r)
    BY <1>1 DEF Request, Same
  <2> QED BY <2>1, <2>2
<1>5. /\ NewSession(r.user, r.app) /\ UNCHANGED <<situation, users, removing, accessData, lost>>
      /\ IF r.at = "exchange" THEN codes' = [codes EXCEPT ![r.code].made = @ + 1] ELSE codes' = codes
  BY DEF Makes, GetOAuthImplicitRedirect, ExchangeSession, RenewSession, At
<1> QED BY <1>2, <1>3, <1>4, <1>5

(* Those that save the access token of a session just made.                *)
LEMMA SavesIs ==
  ASSUME Typed, NEW pr \in Proc, SaveImplicitAccessData(pr) \/ SaveExchangedAccessData(pr)
  PROVE  LET r == request[pr]
             q == request'[pr] IN
         /\ r.at \in {"implicit_data", "exchange_data"} /\ r.user \in User /\ r.app \in App
         /\ Others(pr) /\ UNCHANGED <<situation, users, sessions, removing, codes>>
         /\ \/ /\ accessData[r.app][r.user] = NoData /\ lost' = lost
               /\ \E row \in DataRow : row.token = r.session
                                       /\ accessData' = [accessData EXCEPT ![r.app][r.user] = row]
               /\ q.at = (IF r.at = "implicit_data" THEN "allow" ELSE "code_done") /\ Same(q, r)
            \/ /\ accessData[r.app][r.user] # NoData /\ accessData' = accessData /\ q = Idle
               /\ lost' = lost \cup {<<"session", r.session>>}
<1> USE DEF accountTables, sessionTables, oauthTables, histories
<1> DEFINE r == request[pr]
           q == request'[pr]
<1>1. /\ r \in Request /\ Sound(r, DOMAIN tokens, sessions, DOMAIN codes)
      /\ NewRefreshToken \in Nat /\ r.session \in Nat
  BY Current, SeqDomain DEF NewRefreshToken, Typed, RowsTyped, Request
<1>2. PICK refresh \in {0, NewRefreshToken}, phase \in {"allow", "code_done"} :
        /\ SaveAccessData(pr, refresh, phase)
        /\ <<r.at, phase>> \in {<<"implicit_data", "allow">>, <<"exchange_data", "code_done">>}
        /\ UNCHANGED situation
  BY DEF SaveImplicitAccessData, SaveExchangedAccessData, At
<1>3. r.at \in {"implicit_data", "exchange_data"} /\ r.user \in User /\ r.app \in App
  BY <1>1, <1>2 DEF Sound, Grants
<1>4. UNCHANGED <<situation, users, sessions, removing, codes>>
  BY <1>2 DEF SaveAccessData
<1> DEFINE row == [token |-> r.session, refresh |-> refresh]
<1>5. row \in DataRow /\ row.token = r.session
  BY <1>1 DEF DataRow
<1>6. CASE accessData[r.app][r.user] = NoData
  <2>1. /\ accessData' = [accessData EXCEPT ![r.app][r.user] = row] /\ lost' = lost
        /\ Become(pr, [r EXCEPT !.at = phase, !.session = 0])
    BY <1>2, <1>6 DEF SaveAccessData
  <2>2. q.at = phase /\ Same(q, r) /\ Others(pr)
    <3> HIDE DEF r
    <3>1. q = [r EXCEPT !.at = phase, !.session = 0] /\ Others(pr)
      BY <2>1, BecomeIs
    <3>2. LET p == [r EXCEPT !.at = phase, !.session = 0] IN p.at = phase /\ Same(p, r)
      BY <1>1 DEF Request, Same
    <3> QED BY <3>1, <3>2
  <2> HIDE DEF row
  <2> QED BY <1>2, <1>3, <1>4, <1>5, <1>6, <2>1, <2>2
<1>7. CASE accessData[r.app][r.user] # NoData
  <2>1. /\ accessData' = accessData /\ lost' = lost \cup {<<"session", r.session>>} /\ q = Idle /\ Others(pr)
    BY <1>2, <1>7, BecomeIs DEF SaveAccessData
  <2> QED BY <1>3, <1>4, <1>7, <2>1
<1> QED BY <1>6, <1>7

(* The renewal of an access token.                                         *)
LEMMA RenewRemoveIs ==
  ASSUME Typed, NEW pr \in Proc, RenewRemove(pr)
  PROVE  LET r == request[pr]
             q == request'[pr] IN
         /\ r.at = "renew" /\ q.at = "renew_session" /\ Same(q, r) /\ q.session = r.session
         /\ r.token \in DOMAIN sessions
         /\ Others(pr) /\ UNCHANGED <<situation, users, removing, accessData, codes>>
         /\ \/ Remove(r.token) /\ lost' = lost
            \/ UNCHANGED sessions /\ lost' = lost \cup {<<"session", r.token>>}
<1> USE DEF accountTables, sessionTables, oauthTables, histories
<1> DEFINE r == request[pr]
<1>1. r \in Request /\ r.at = "renew" /\ r.token \in DOMAIN sessions
  BY Current DEF RenewRemove, At, Sound, Renews
<1>2. request'[pr] = [r EXCEPT !.at = "renew_session"] /\ Others(pr)
  BY BecomeIs DEF RenewRemove
<1>3. LET p == [r EXCEPT !.at = "renew_session"]
      IN p.at = "renew_session" /\ Same(p, r) /\ p.session = r.session
  BY <1>1 DEF Request, Same
<1> QED BY <1>1, <1>2, <1>3 DEF RenewRemove, At

LEMMA RenewDataIs ==
  ASSUME Typed, NEW pr \in Proc, RenewData(pr)
  PROVE  LET r == request[pr]
             q == request'[pr] IN
         /\ r.at = "renew_data"
         /\ q = Idle \/ (q.at = "code_done" /\ Same(q, r))
         /\ r.user \in User /\ r.app \in App
         /\ Others(pr) /\ UNCHANGED <<situation, users, sessions, removing, codes, lost>>
         /\ \/ accessData[r.app][r.user] = NoData /\ accessData' = accessData
            \/ \E row \in DataRow : row.token = r.session
                                    /\ accessData' = [accessData EXCEPT ![r.app][r.user] = row]
<1> USE DEF accountTables, sessionTables, oauthTables, histories
<1> DEFINE r == request[pr]
           row == UpdateAccessData(accessData[r.app][r.user], r.session)
<1>1. /\ r \in Request /\ r.at = "renew_data" /\ r.then \in {"idle", "code_done"}
      /\ r.user \in User /\ r.app \in App
  BY Current DEF RenewData, At, Sound, Renews, Grants
<1>2. /\ Others(pr)
      /\ request'[pr] = Idle \/ (r.then # "idle" /\ request'[pr] = [r EXCEPT !.at = r.then, !.session = 0])
  BY BecomeIs DEF RenewData
<1>3. LET p == [r EXCEPT !.at = r.then, !.session = 0] IN p.at = r.then /\ Same(p, r)
  BY <1>1 DEF Request, Same
<1>4. row \in DataRow /\ row.token = r.session
  <2>1. NewRefreshToken \in Nat /\ r.session \in Nat
    BY <1>1, SeqDomain DEF NewRefreshToken, Typed, RowsTyped, Request
  <2> QED BY <2>1 DEF UpdateAccessData, DataRow
<1>5. \/ accessData[r.app][r.user] = NoData /\ accessData' = accessData
      \/ accessData' = [accessData EXCEPT ![r.app][r.user] = row]
  BY DEF RenewData
<1> HIDE DEF row
<1> QED BY <1>1, <1>2, <1>3, <1>4, <1>5 DEF RenewData, At

LEMMA FinishIs ==
  ASSUME Typed, NEW pr \in Proc, FinishExchange(pr)
  PROVE  LET r == request[pr] IN
         /\ r.at = "code_done" /\ request'[pr] = Idle /\ r.code \in DOMAIN codes
         /\ Others(pr) /\ UNCHANGED <<situation, users, sessionTables>>
         /\ \/ codes' = [codes EXCEPT ![r.code].live = FALSE] /\ lost' = lost
            \/ codes' = codes /\ lost' = lost \cup {<<"code", r.code>>}
<1>1. request[pr].at = "code_done" /\ request[pr].code \in DOMAIN codes
  BY Current DEF FinishExchange, At, Sound, Exchanges
<1> QED BY <1>1, BecomeIs DEF FinishExchange, At, RemoveAuthData, accountTables

(* Revocation.                                                             *)
LEMMA ListIs ==
  ASSUME Typed, NEW pr \in Proc, GetSessions(pr)
  PROVE  LET r == request[pr]
             q == request'[pr] IN
         /\ r.at = "list" /\ r.user \in User /\ q.at = "revoke" /\ q.user = r.user /\ q.all
         /\ q.then = "idle" /\ q.todo = LiveSessions(r.user)
         /\ Others(pr) /\ UNCHANGED <<situation, users, sessionTables, codes, lost>>
<1> USE DEF oauthTables, accountTables, histories
<1> DEFINE r == request[pr]
           base == [r EXCEPT !.at = "revoke", !.todo = LiveSessions(r.user), !.then = "idle"]
<1>1. r \in Request /\ r.at = "list" /\ r.user \in User
  BY Current DEF GetSessions, At, Sound
<1>2. request'[pr] = [base EXCEPT !.all = TRUE] /\ Others(pr)
  BY BecomeIs DEF GetSessions, Revoking
<1>3. /\ base.at = "revoke" /\ base.user = r.user /\ base.then = "idle" /\ base.todo = LiveSessions(r.user)
      /\ DOMAIN base = DOMAIN r /\ "all" \in DOMAIN r
  BY <1>1 DEF Request
<1>4. LET p == [base EXCEPT !.all = TRUE]
      IN p.at = "revoke" /\ p.user = r.user /\ p.then = "idle" /\ p.todo = LiveSessions(r.user) /\ p.all
  <2> HIDE DEF base
  <2> QED BY <1>1, <1>3 DEF Request
<1> QED BY <1>1, <1>2, <1>4 DEF GetSessions, At

(* A step of a revocation: the session s it has come to.                   *)
LEMMA RevokeIs ==
  ASSUME Typed, NEW pr \in Proc, RevokeSession(pr)
  PROVE  LET r == request[pr]
             q == request'[pr]
             s == NextToRevoke(r) IN
         /\ r.at = "revoke" /\ Others(pr) /\ UNCHANGED <<situation, users, codes>>
         /\ \/ /\ r.todo = {} /\ UNCHANGED <<sessionTables, lost>>
               /\ q = Idle \/ (r.then # "idle" /\ q.at = "unauthorize" /\ Same(q, r))
            \/ /\ s \in DOMAIN sessions /\ sessions[s].app = None /\ Remove(s) /\ q = Revoked(r)
               /\ UNCHANGED <<removing, accessData, lost>>
            \/ /\ s \in DOMAIN sessions /\ sessions[s].user = r.user /\ sessions[s].app # None
               /\ removing' = removing \cup {s} /\ UNCHANGED <<sessions, accessData>>
               /\ \/ GetAccessData(s) = {} /\ q = Skipped(r) /\ lost' = lost
                  \/ q.at = "revoke_data" /\ Same(q, r) /\ lost' = lost
                  \/ q = Skipped(r) /\ lost' = lost \cup {<<"revocation", r.user>>}
<1> USE DEF oauthTables, accountTables, histories, sessionTables
<1> DEFINE r == request[pr]
           q == request'[pr]
           s == NextToRevoke(r)
<1>1. r \in Request /\ Sound(r, DOMAIN tokens, sessions, DOMAIN codes) /\ r.at = "revoke"
  BY Current DEF RevokeSession, At
<1>2. UNCHANGED <<situation, users, codes>>
  BY DEF RevokeSession, At
<1>3. \A phase : LET p == [r EXCEPT !.at = phase] IN p.at = phase /\ Same(p, r)
  BY <1>1 DEF Request, Same
<1>4. CASE r.todo = {} /\ Goto(pr, r.then) /\ UNCHANGED <<sessionTables, lost>>
  <2>1. Others(pr) /\ (q = Idle \/ (r.then # "idle" /\ q = [r EXCEPT !.at = r.then]))
    BY <1>4, BecomeIs
  <2>2. r.then \in {"idle", "unauthorize"}
    BY <1>1 DEF Sound, Revokes
  <2>3. LET p == [r EXCEPT !.at = r.then] IN p.at = r.then /\ Same(p, r)
    BY <1>1 DEF Request, Same
  <2> QED BY <1>1, <1>2, <1>4, <2>1, <2>2, <2>3
<1>5. r.todo # {} => s \in DOMAIN sessions /\ sessions[s].user = r.user
  BY <1>1, RevokedTyped DEF Revokes
<1>6. CASE /\ r.todo # {} /\ sessions[s].app = None
           /\ Remove(s) /\ Become(pr, Revoked(r))
           /\ UNCHANGED <<removing, accessData, lost>>
  <2>1. Others(pr) /\ q = Revoked(r)
    BY <1>6, BecomeIs
  <2> QED BY <1>1, <1>2, <1>5, <1>6, <2>1
<1>7. CASE /\ r.todo # {} /\ sessions[s].app # None
           /\ removing' = removing \cup {s}
           /\ \/ /\ IF GetAccessData(s) = {} THEN Become(pr, Skipped(r)) ELSE Goto(pr, "revoke_data")
                 /\ UNCHANGED lost
              \/ Become(pr, Skipped(r)) /\ lost' = lost \cup {<<"revocation", r.user>>}
           /\ UNCHANGED <<sessions, accessData>>
  <2>1. Others(pr) /\ \/ GetAccessData(s) = {} /\ q = Skipped(r) /\ lost' = lost
                      \/ q = [r EXCEPT !.at = "revoke_data"] /\ lost' = lost
                      \/ q = Skipped(r) /\ lost' = lost \cup {<<"revocation", r.user>>}
    BY <1>7, BecomeIs
  <2>2. LET p == [r EXCEPT !.at = "revoke_data"] IN p.at = "revoke_data" /\ Same(p, r)
    BY <1>1 DEF Request, Same
  <2>3. \/ GetAccessData(s) = {} /\ q = Skipped(r) /\ lost' = lost
        \/ q.at = "revoke_data" /\ Same(q, r) /\ lost' = lost
        \/ q = Skipped(r) /\ lost' = lost \cup {<<"revocation", r.user>>}
    BY <2>1, <2>2
  <2> QED BY <1>1, <1>2, <1>5, <1>7, <2>1, <2>3
<1> QED BY <1>4, <1>6, <1>7 DEF RevokeSession

LEMMA RevokeDataIs ==
  ASSUME Typed, NEW pr \in Proc, RevokeAccessToken(pr)
  PROVE  LET r == request[pr]
             q == request'[pr]
             s == NextToRevoke(r) IN
         /\ r.at = "revoke_data" /\ Others(pr) /\ UNCHANGED <<situation, users, codes, sessions, removing>>
         /\ s \in DOMAIN sessions /\ s \in r.todo /\ sessions[s].user = r.user
         /\ \/ RemoveAccessData(s) /\ q.at = "revoke_wait" /\ Same(q, r) /\ lost' = lost
            \/ q = Skipped(r) /\ lost' = lost \cup {<<"revocation", r.user>>} /\ UNCHANGED accessData
<1> USE DEF oauthTables, accountTables, histories
<1> DEFINE r == request[pr]
           q == request'[pr]
           s == NextToRevoke(r)
<1>1. /\ r \in Request /\ r.at = "revoke_data"
      /\ s \in DOMAIN sessions /\ s \in r.todo /\ sessions[s].user = r.user
  BY Current, RevokedTyped DEF RevokeAccessToken, At, Revokes, Sound
<1>2. UNCHANGED <<situation, users, codes, sessions, removing>>
  BY DEF RevokeAccessToken, At
<1>3. Others(pr) /\ \/ RemoveAccessData(s) /\ q = [r EXCEPT !.at = "revoke_wait"] /\ lost' = lost
                    \/ q = Skipped(r) /\ lost' = lost \cup {<<"revocation", r.user>>} /\ UNCHANGED accessData
  BY BecomeIs DEF RevokeAccessToken
<1>4. LET p == [r EXCEPT !.at = "revoke_wait"] IN p.at = "revoke_wait" /\ Same(p, r)
  BY <1>1 DEF Request, Same
<1> QED BY <1>1, <1>2, <1>3, <1>4

LEMMA WaitIs ==
  ASSUME Typed, NEW pr \in Proc, AwaitRemoval(pr)
  PROVE  LET r == request[pr] IN
         /\ r.at = "revoke_wait" /\ Others(pr)
         /\ UNCHANGED <<situation, users, codes, sessionTables, lost>>
         /\ NextToRevoke(r) \notin removing /\ request'[pr] = Revoked(r)
BY BecomeIs DEF AwaitRemoval, At, oauthTables, accountTables, histories

LEMMA Kinds ==
  ASSUME Typed, NEW pr \in Proc, OtherStep(pr)
  PROVE  \/ Clerical(pr) \/ Begins(pr) \/ Makes(pr) \/ DoLogin(pr)
         \/ SaveImplicitAccessData(pr) \/ SaveExchangedAccessData(pr)
         \/ RenewRemove(pr) \/ RenewData(pr) \/ FinishExchange(pr)
         \/ GetSessions(pr) \/ RevokeSession(pr) \/ RevokeAccessToken(pr) \/ AwaitRemoval(pr)
         \/ \E c \in App : DeleteApp(pr, c)
BY DEF OtherStep, Revocation, Authorization, Exchange, Clerical, Begins, Makes

(* And what the steps that have to do with accounts leave alone.           *)
AccountPhase == {"save", "mail", "attempt", "verify", "spend", "update", "read", "write", "password",
                 "recover", "delete"}

LEMMA AccountIs ==
  ASSUME Typed, NEW pr \in Proc, AccountStep(pr)
  PROVE  /\ Others(pr) /\ UNCHANGED <<situation, sessionTables, codes, lost>>
         /\ request[pr].at \in AccountPhase \cup {"idle"}
         /\ request'[pr].at \in AccountPhase \cup {"idle", "session", "list"}
         /\ request'[pr].all => request[pr].all
<1> USE DEF accountTables, oauthTables, histories, AccountPhase
<1> DEFINE r == request[pr]
           q == request'[pr]
           Goal == /\ Others(pr) /\ UNCHANGED <<situation, sessionTables, codes, lost>>
                   /\ r.at \in AccountPhase \cup {"idle"}
                   /\ q.at \in AccountPhase \cup {"idle", "session", "list"}
                   /\ q.all => r.all
<1>1. ASSUME NEW u \in User, NEW e \in Email, CreateUserFromSignup(pr, u, e) \/ CreateUserWithToken(pr, u, e)
      PROVE  Goal
  BY <1>1, SignUpIs, IdleFields DEF Accepted, Plain
<1>2. ASSUME NEW u \in User, NEW right \in BOOLEAN, Tries(pr, u, right) PROVE Goal
  BY <1>2, TryIs, IdleFields DEF Accepted, Plain
<1>3. ASSUME NEW u \in User, Changes(pr, u) PROVE Goal
  BY <1>3, ChangeIs, IdleFields DEF Accepted
<1>4. ASSUME NEW u \in User, NEW k, NEW phase, Asks(pr, u, k, phase) PROVE Goal
  <2>1. phase \in {"mail", "recover", "password", "delete", "verify"}
    BY <1>4 DEF Asks
  <2>2. /\ Accepted(pr) /\ Plain(q) /\ q.at = phase /\ UNCHANGED <<sessionTables, oauthTables, lost>>
    BY <1>4, AskIs
  <2> QED BY <2>1, <2>2, IdleFields DEF Accepted, Plain
<1>5. CASE Save(pr)
  BY <1>5, SaveIs, IdleFields DEF Carries
<1>6. CASE SendEmailVerification(pr) \/ CreatePasswordRecoveryToken(pr) \/ DeleteToken(pr)
  BY <1>6, EndIs, IdleFields
<1>7. CASE VerifyEmail(pr)
  BY <1>7, VerifyIs, IdleFields DEF Carries
<1>8. CASE UpdateFailedPasswordAttempts(pr)
  BY <1>8, AttemptIs, IdleFields DEF Carries
<1>9. CASE UpdatePassword(pr)
  BY <1>9, PasswordIs, IdleFields DEF Carries
<1>u. CASE UpdateUser(pr)
  BY <1>u, RecheckIs, IdleFields
<1>10. CASE ReadOldUser(pr)
  BY <1>10, ReadIs
<1>11. CASE Update(pr)
  BY <1>11, UpdateIs, IdleFields
<1>12. CASE DeleteRow(pr)
  BY <1>12, DeleteIs DEF Carries
<1> QED BY <1>1, <1>2, <1>3, <1>4, <1>5, <1>6, <1>7, <1>8, <1>9, <1>u, <1>10, <1>11, <1>12 DEF AccountStep

-----------------------------------------------------------------------------
(* Codes, one request at a time: a code of which a session was made is     *)
(* gone, or with the request that makes it go.                             *)
NotLost(k) == <<"code", k>> \notin lost
InExchange(r) == r.at \in {"exchange_data", "code_done"}

CodesAt(r) ==
  /\ r.at \in {"exchange", "exchange_data"} => accessData[r.app][r.user] = NoData
  /\ r.at = "exchange" /\ NotLost(r.code) => codes[r.code].made = 0
  /\ \A k \in DOMAIN codes : NotLost(k) =>
       \/ codes[k].made = 0
       \/ codes[k].made = 1 /\ (~codes[k].live \/ (r.code = k /\ InExchange(r)))
CodesInv == Alone => \A pr \in Proc : CodesAt(request[pr])

LEMMA CodesInit == ASSUME Init PROVE CodesInv
<1>1. codes = <<>> /\ \A pr \in Proc : request[pr].at = "idle"
  BY IdleFields DEF Init, Proc
<1> QED BY <1>1 DEF CodesInv, CodesAt

LEMMA CodesKept ==
  ASSUME Typed, CodesInv, NEW pr \in Proc, UNCHANGED situation, lost \subseteq lost', CodesFade,
         InExchange(request[pr]) =>
           \/ InExchange(request'[pr]) /\ request'[pr].code = request[pr].code
           \/ <<"code", request[pr].code>> \in lost',
         request'[pr].at \notin {"exchange", "exchange_data"}
  PROVE  CodesInv'
<1> SUFFICES ASSUME Alone PROVE CodesAt(request[pr])'
  BY TheOnlyOne DEF CodesInv, Alone
<1>1. CodesAt(request[pr])
  BY DEF CodesInv
<1>2. ASSUME NEW k \in DOMAIN codes', <<"code", k>> \notin lost'
      PROVE  \/ codes'[k].made = 0
             \/ codes'[k].made = 1 /\ (~codes'[k].live \/ (request'[pr].code = k /\ InExchange(request'[pr])))
  BY <1>1, <1>2 DEF CodesFade, CodesAt, NotLost
<1> QED BY <1>2 DEF CodesAt, NotLost, InExchange

LEMMA CodesStep == ASSUME Typed, CodesInv, [Next]_vars PROVE CodesInv'
<1> USE DEF accountTables, sessionTables, oauthTables, histories
<1>0. UNCHANGED codes => CodesFade
  BY DEF CodesFade
<1>1. ASSUME NEW pr \in Proc, AccountStep(pr) PROVE CodesInv'
  <2>1. /\ UNCHANGED <<situation, codes, lost>> /\ ~InExchange(request[pr])
        /\ request'[pr].at \notin {"exchange", "exchange_data"}
    BY <1>1, AccountIs DEF AccountPhase, InExchange
  <2> QED BY <1>0, <2>1, CodesKept
<1>2. ASSUME NEW pr \in Proc, OtherStep(pr) PROVE CodesInv'
  <2> DEFINE r == request[pr]
             q == request'[pr]
  <2>0. /\ r \in Request /\ Sound(r, DOMAIN tokens, sessions, DOMAIN codes)
        /\ DOMAIN codes = 1..Len(codes) /\ \A k \in DOMAIN codes : codes[k] \in CodeRow
        /\ CodesAt(r) \/ ~Alone
    BY Current, SeqDomain DEF Typed, TypeOK, RowsTyped, CodesInv
  <2>1. CASE Clerical(pr)
    BY <2>1, ClericalIs, CodesKept DEF ClericalPhase, InExchange
  <2>2. CASE Begins(pr)
    <3>1. /\ r.at = "idle" /\ UNCHANGED <<situation, sessionTables, codes, lost>>
          /\ \/ q.at \in {"revoke", "unauthorize", "code_done", "renew"}
             \/ /\ q.at = "exchange" /\ accessData[q.app][q.user] = NoData
                /\ q.code \in DOMAIN codes /\ codes[q.code].live
      BY <2>2, BeginIs, IdleFields DEF Accepted
    <3>2. CASE q.at # "exchange"
      BY <1>0, <3>1, <3>2, CodesKept DEF InExchange
    <3>3. CASE q.at = "exchange"
      <4>1. Alone => CodesAt(request[pr])'
        BY <2>0, <3>1, <3>3 DEF CodesAt, NotLost, InExchange
      <4> QED BY <3>1, <4>1, TheOnlyOne DEF CodesInv, Alone
    <3> QED BY <3>2, <3>3
  <2>3. CASE Makes(pr)
    <3>1. CASE r.at # "exchange"
      BY <1>0, <2>3, <3>1, MakesIs, CodesKept DEF InExchange
    <3>2. CASE r.at = "exchange"
      <4>1. /\ q.at = "exchange_data" /\ Same(q, r) /\ UNCHANGED <<situation, accessData, lost>>
            /\ codes' = [codes EXCEPT ![r.code].made = @ + 1] /\ r.code \in DOMAIN codes
        BY <2>0, <2>3, <3>2, MakesIs DEF Sound, Exchanges
      <4>2. DOMAIN codes' = DOMAIN codes /\ \A k \in DOMAIN codes : k # r.code => codes'[k] = codes[k]
        BY <4>1
      <4>3. codes'[r.code].made = codes[r.code].made + 1
        <5>1. codes[r.code] \in CodeRow
          BY <2>0, <4>1
        <5> QED BY <4>1, <5>1 DEF CodeRow
      <4>4. Alone => CodesAt(request[pr])'
        <5> SUFFICES ASSUME Alone PROVE CodesAt(request[pr])'
          OBVIOUS
        <5>1. accessData'[q.app][q.user] = NoData
          BY <2>0, <3>2, <4>1 DEF CodesAt, Same
        <5>2. ASSUME NEW k \in DOMAIN codes, <<"code", k>> \notin lost
              PROVE  \/ codes'[k].made = 0
                     \/ codes'[k].made = 1 /\ (~codes'[k].live \/ (q.code = k /\ InExchange(q)))
          <6>1. CASE k # r.code
            BY <2>0, <3>2, <4>2, <5>2, <6>1 DEF CodesAt, NotLost, InExchange
          <6>2. CASE k = r.code
            BY <2>0, <3>2, <4>1, <4>3, <5>2, <6>2 DEF CodesAt, NotLost, InExchange, Same
          <6> QED BY <6>1, <6>2
        <5> QED BY <4>1, <4>2, <5>1, <5>2 DEF CodesAt, NotLost
      <4> QED BY <4>1, <4>4, TheOnlyOne DEF CodesInv, Alone
    <3> QED BY <3>1, <3>2
  <2>4. CASE DoLogin(pr)
    <3>1. r.at = "session" /\ q.at = "idle" /\ UNCHANGED <<situation, codes, lost>>
      BY <2>4, BecomeIs, IdleFields DEF DoLogin, At
    <3> QED BY <1>0, <3>1, CodesKept DEF InExchange
  <2>5. CASE SaveImplicitAccessData(pr) \/ SaveExchangedAccessData(pr)
    <3>1. /\ r.at \in {"implicit_data", "exchange_data"} /\ UNCHANGED <<situation, codes>>
          /\ \/ /\ lost' = lost /\ Same(q, r)
                /\ q.at = (IF r.at = "implicit_data" THEN "allow" ELSE "code_done")
             \/ /\ accessData[r.app][r.user] # NoData /\ q.at = "idle" /\ lost \subseteq lost'
      BY <2>5, SavesIs, IdleFields
    <3> SUFFICES ASSUME Alone PROVE CodesInv'
      BY <3>1 DEF CodesInv, Alone
    <3>2. r.at = "exchange_data" => accessData[r.app][r.user] = NoData
      BY <2>0 DEF CodesAt
    <3>3. InExchange(r) => InExchange(q) /\ q.code = r.code
      BY <3>1, <3>2 DEF InExchange, Same
    <3>4. lost \subseteq lost' /\ q.at \notin {"exchange", "exchange_data"}
      BY <3>1
    <3> QED BY <1>0, <3>1, <3>3, <3>4, CodesKept
  <2>6. CASE RenewRemove(pr)
    BY <1>0, <2>6, RenewRemoveIs, CodesKept DEF InExchange
  <2>7. CASE RenewData(pr)
    BY <1>0, <2>7, RenewDataIs, IdleFields, CodesKept DEF InExchange
  <2>8. CASE FinishExchange(pr)
    <3>1. /\ r.at = "code_done" /\ q = Idle /\ r.code \in DOMAIN codes
          /\ UNCHANGED <<situation, accessData>> /\ lost \subseteq lost'
          /\ \/ codes' = [codes EXCEPT ![r.code].live = FALSE]
             \/ codes' = codes /\ <<"code", r.code>> \in lost'
      BY <2>8, FinishIs
    <3>2. DOMAIN codes' = DOMAIN codes /\ \A k \in DOMAIN codes : k # r.code => codes'[k] = codes[k]
      BY <3>1
    <3>3. /\ codes'[r.code].made = codes[r.code].made
          /\ ~codes'[r.code].live \/ <<"code", r.code>> \in lost'
      <4>1. codes[r.code] \in CodeRow
        BY <2>0, <3>1
      <4> QED BY <3>1, <4>1 DEF CodeRow
    <3>4. Alone => CodesAt(request[pr])'
      <4> SUFFICES ASSUME Alone, NEW k \in DOMAIN codes, <<"code", k>> \notin lost'
                   PROVE  codes'[k].made = 0 \/ (codes'[k].made = 1 /\ ~codes'[k].live)
        BY <3>1, <3>2, IdleFields DEF CodesAt, NotLost
      <4>1. CASE k = r.code
        BY <2>0, <3>1, <3>3, <4>1 DEF CodesAt, NotLost
      <4>2. CASE k # r.code
        BY <2>0, <3>1, <3>2, <4>2 DEF CodesAt, NotLost
      <4> QED BY <4>1, <4>2
    <3> QED BY <3>1, <3>4, TheOnlyOne DEF CodesInv, Alone
  <2>9. CASE GetSessions(pr) \/ RevokeSession(pr) \/ RevokeAccessToken(pr) \/ AwaitRemoval(pr)
    <3>1. Revocation(pr)
      BY <2>9 DEF Revocation
    <3> QED BY <1>0, <3>1, RevocationSteps, CodesKept DEF InExchange, Revokes
  <2>10. ASSUME NEW c \in App, DeleteApp(pr, c) PROVE CodesInv'
    <3>1. r = Idle /\ q = r /\ UNCHANGED <<situation, codes, lost>>
      BY <2>10 DEF DeleteApp, Accept
    <3> QED BY <1>0, <3>1, IdleFields, CodesKept DEF InExchange
  <2> QED BY <1>2, <2>1, <2>2, <2>3, <2>4, <2>5, <2>6, <2>7, <2>8, <2>9, <2>10, Kinds
<1>3. ASSUME NEW pr \in Proc, Fault(pr) PROVE CodesInv'
  <2>1. /\ UNCHANGED <<situation, codes>> /\ lost \subseteq lost' /\ request'[pr].at = "idle"
        /\ request[pr].code # 0 => <<"code", request[pr].code>> \in lost'
    BY <1>3, BecomeIs, IdleFields DEF Fault, LostBy
  <2>2. InExchange(request[pr]) => request[pr].code # 0
    <3>1. DOMAIN codes = 1..Len(codes)
      BY SeqDomain DEF Typed, RowsTyped
    <3> QED BY <3>1, Current DEF InExchange, Sound, Exchanges
  <2> QED BY <1>0, <2>1, <2>2, CodesKept
<1>4. CASE (\E s \in removing : RemoveInBackground(s)) \/ Expiry \/ UNCHANGED vars
  <2>1. UNCHANGED <<situation, accessData, request>> /\ lost \subseteq lost' /\ DOMAIN codes' = DOMAIN codes
    BY <1>4 DEF RemoveInBackground, Expiry, ExpireToken, ExpireSession, ExpireCode, Outlive, vars
  <2>2. \A k \in DOMAIN codes : codes'[k].made = codes[k].made /\ codes'[k].live = codes[k].live
    <3>1. ASSUME NEW j \in DOMAIN codes, codes' = [codes EXCEPT ![j].fresh = FALSE], NEW k \in DOMAIN codes
          PROVE  codes'[k].made = codes[k].made /\ codes'[k].live = codes[k].live
      <4>1. codes[k] \in CodeRow
        BY DEF Typed, TypeOK
      <4> QED BY <3>1, <4>1 DEF CodeRow
    <3>2. codes' = codes \/ \E j \in DOMAIN codes : codes' = [codes EXCEPT ![j].fresh = FALSE]
      BY <1>4 DEF RemoveInBackground, Expiry, ExpireToken, ExpireSession, ExpireCode, Outlive, vars
    <3> QED BY <3>1, <3>2
  <2> SUFFICES ASSUME Alone, NEW pr \in Proc PROVE CodesAt(request[pr])'
    BY <2>1 DEF CodesInv, Alone, Proc
  <2>3. CodesAt(request[pr])
    BY DEF CodesInv
  <2>4. request[pr].at = "exchange" => request[pr].code \in DOMAIN codes
    BY Current DEF Sound, Exchanges
  <2> QED BY <2>1, <2>2, <2>3, <2>4 DEF CodesAt, NotLost, InExchange
<1> QED BY <1>1, <1>2, <1>3, <1>4, Steps

-----------------------------------------------------------------------------
(* Sessions of deleted accounts, one request at a time: what makes a       *)
(* session does so for who is there, and what revokes them all has the     *)
(* others still to do.                                                     *)
MakesSession == {"session", "implicit", "exchange", "renew", "renew_session"}
NotMissed(u) == <<"revocation", u>> \notin lost
Gone(s) == s \in removing \/ <<"session", s>> \in lost

InName(r) ==
  /\ r.at \in MakesSession \cup AtWork => IsLive(r.user)
  /\ r.at = "write" => r.row = users[r.user]
  /\ r.all => r.at \in Revokes /\ r.then = "idle"
Waited(r) ==
  r.at \in {"revoke_data", "revoke_wait"} => Gone(NextToRevoke(r)) \/ ~sessions[NextToRevoke(r)].live
ToRevoke(r) == \A s \in DOMAIN sessions :
  LET u == sessions[s].user IN
  (users[u].status = "deleted" /\ NotMissed(u) /\ ~(r.user = u /\ r.at = "list") /\ sessions[s].live)
    => Gone(s) \/ (r.user = u /\ r.all /\ s \in r.todo)
DeletedInv == Alone => \A pr \in Proc : InName(request[pr]) /\ Waited(request[pr]) /\ ToRevoke(request[pr])

LEMMA DeletedInit == ASSUME Init PROVE DeletedInv
<1>1. \A pr \in Proc : request[pr] = Idle
  BY DEF Init, Proc
<1>2. ASSUME NEW s \in DOMAIN sessions PROVE users[sessions[s].user].status = "live"
  <2>1. sessions[s].user = situation.loggedIn[s] /\ s \in DOMAIN situation.loggedIn
    BY DEF Init
  <2>2. situation.loggedIn[s] \in DOMAIN situation.typeOf /\ DOMAIN situation.typeOf \subseteq User
    <3>1. situation \in Situations
      BY DEF Init
    <3>2. situation.loggedIn \in Seq(DOMAIN situation.typeOf) /\ DOMAIN situation.typeOf \subseteq User
      BY <3>1, AccountStoreAssumption
    <3> QED BY <2>1, <3>2
  <2>3. users[sessions[s].user] =
          [NoUser EXCEPT !.status = "live", !.type = situation.typeOf[sessions[s].user],
             !.email = situation.emailOf[sessions[s].user], !.verified = TRUE]
    BY <2>1, <2>2 DEF Init
  <2> QED BY <2>3 DEF NoUser
<1> QED BY <1>1, <1>2, IdleFields DEF DeletedInv, InName, Waited, ToRevoke, MakesSession, AtWork

(* Every step but those of a revocation, and of the deletion itself.       *)
LEMMA DeletedKept ==
  ASSUME Typed, DeletedInv, NEW pr \in Proc, UNCHANGED situation, lost \subseteq lost',
         \A s \in DOMAIN sessions' :
           (sessions'[s].live /\ users'[sessions'[s].user].status = "deleted") =>
             /\ s \in DOMAIN sessions /\ sessions[s].live /\ sessions'[s].user = sessions[s].user
             /\ users[sessions[s].user].status = "deleted",
         removing \subseteq removing',
         request[pr].at \in Revokes \cup {"list"} => <<"revocation", request[pr].user>> \in lost',
         request'[pr].at \notin {"revoke_data", "revoke_wait"},
         request'[pr].all => request[pr].all /\ request[pr].at \notin Revokes,
         request'[pr].at \in MakesSession \cup AtWork => users'[request'[pr].user].status = "live",
         request'[pr].at = "write" => request'[pr].row = users'[request'[pr].user]
  PROVE  DeletedInv'
<1> DEFINE r == request[pr]
           q == request'[pr]
<1> SUFFICES ASSUME Alone PROVE InName(request[pr])' /\ Waited(request[pr])' /\ ToRevoke(request[pr])'
  BY TheOnlyOne DEF DeletedInv, Alone
<1>1. InName(r) /\ ToRevoke(r)
  BY DEF DeletedInv
<1>2. ~q.all
  BY <1>1 DEF InName
<1>3. InName(request[pr])' /\ Waited(request[pr])'
  BY <1>2 DEF InName, Waited, IsLive
<1>4. ASSUME NEW s \in DOMAIN sessions', users'[sessions'[s].user].status = "deleted",
             <<"revocation", sessions'[s].user>> \notin lost', sessions'[s].live
      PROVE  s \in removing' \/ <<"session", s>> \in lost'
  <2>1. /\ s \in DOMAIN sessions /\ sessions[s].live /\ sessions'[s].user = sessions[s].user
        /\ users[sessions[s].user].status = "deleted" /\ NotMissed(sessions[s].user)
    BY <1>4 DEF NotMissed
  <2>2. r.user = sessions[s].user => r.at \notin Revokes \cup {"list"}
    BY <1>4, <2>1
  <2>3. r.all => r.at \in Revokes
    BY <1>1 DEF InName
  <2> QED BY <1>1, <2>1, <2>2, <2>3 DEF ToRevoke, Gone
<1> QED BY <1>3, <1>4 DEF ToRevoke, NotMissed, Gone

LEMMA DeletedByAccounts ==
  ASSUME Typed, SignInv, DeletedInv, NEW pr \in Proc, AccountStep(pr)
  PROVE  DeletedInv'
<1> DEFINE r == request[pr]
           q == request'[pr]
<1>1. /\ UNCHANGED <<situation, sessions, removing, lost>>
      /\ r.at \in AccountPhase \cup {"idle"} /\ q.at \in AccountPhase \cup {"idle", "session", "list"}
      /\ q.all => r.all
  BY AccountIs DEF sessionTables
<1>2. /\ r.at \notin Revokes \cup {"list"} /\ q.at \notin {"revoke_data", "revoke_wait"}
      /\ q.all => r.all /\ r.at \notin Revokes
      /\ q.at \in MakesSession \cup AtWork => q.at \in {"session"} \cup AtWork
  BY <1>1 DEF AccountPhase, Revokes, MakesSession, AtWork
<1> SUFFICES ASSUME Alone PROVE DeletedInv'
  BY <1>1 DEF DeletedInv, Alone
<1>3. /\ InName(r) /\ ToRevoke(r) /\ \A s \in DOMAIN sessions : sessions[s].user \in User
  BY DEF DeletedInv, Typed, TypeOK, SessionRow
<1>4. ASSUME \A u \in User : users'[u].status = "deleted" => users[u].status = "deleted",
             q.at \in {"session"} \cup AtWork => users'[q.user].status = "live",
             q.at = "write" => q.row = users'[q.user]
      PROVE  DeletedInv'
  BY <1>1, <1>2, <1>3, <1>4, DeletedKept
<1>5. ASSUME NEW u \in User, NEW e \in Email, CreateUserFromSignup(pr, u, e) \/ CreateUserWithToken(pr, u, e)
      PROVE  DeletedInv'
  BY <1>4, <1>5, SignUpIs DEF AtWork
<1>6. ASSUME NEW u \in User, NEW right \in BOOLEAN, Tries(pr, u, right) PROVE DeletedInv'
  BY <1>4, <1>6, TryIs DEF AtWork, IsLive
<1>7. ASSUME NEW u \in User, Changes(pr, u) PROVE DeletedInv'
  BY <1>4, <1>7, ChangeIs DEF AtWork, IsLive
<1>8. ASSUME NEW u \in User, NEW k, NEW phase, Asks(pr, u, k, phase) PROVE DeletedInv'
  <2>1. phase \in {"mail", "recover", "password", "delete", "verify"}
    BY <1>8 DEF Asks
  <2>2. q.at = phase /\ UNCHANGED users
    BY <1>8, AskIs
  <2> QED BY <1>4, <2>1, <2>2 DEF AtWork
<1>9. CASE Save(pr)
  <2>1. r.at = "save" /\ r.user \in User /\ RowsOf(r.user) /\ q.at \in {"idle", "mail"}
        /\ (users' = users \/ users'[r.user] = r.row)
    BY <1>9, SaveIs, IdleFields
  <2>2. r.row.status = "live"
    BY <2>1 DEF SignInv, SignUps, Signs
  <2> QED BY <1>4, <2>1, <2>2 DEF RowsOf, AtWork
<1>10. CASE SendEmailVerification(pr) \/ CreatePasswordRecoveryToken(pr) \/ DeleteToken(pr)
  BY <1>4, <1>10, EndIs, IdleFields DEF AtWork
<1>11. CASE VerifyEmail(pr)
  <2>1. \A u \in User : users'[u].status = users[u].status
    BY <1>11, VerifyIs DEF RowsOf
  <2>2. q.at \in {"idle", "spend"}
    BY <1>11, VerifyIs, IdleFields
  <2> QED BY <1>4, <2>1, <2>2 DEF AtWork
<1>12. CASE UpdateFailedPasswordAttempts(pr)
  <2>1. r.at = "attempt" /\ r.user \in User /\ \A u \in User : users'[u].status = users[u].status
    BY <1>12, AttemptIs DEF RowsOf
  <2>2. q.at = "idle" \/ (q.at \in {"session", "password", "update"} /\ q.user = r.user)
    BY <1>12, AttemptIs, IdleFields DEF Carries
  <2>3. users[r.user].status = "live"
    BY <1>3, <2>1 DEF InName, AtWork, IsLive
  <2> QED BY <1>4, <2>1, <2>2, <2>3 DEF AtWork
<1>13. CASE UpdatePassword(pr)
  <2>1. \A u \in User : users'[u].status = users[u].status
    BY <1>13, PasswordIs DEF RowsOf
  <2>2. q.at \in {"idle", "spend"}
    BY <1>13, PasswordIs, IdleFields
  <2> QED BY <1>4, <2>1, <2>2 DEF AtWork
<1>u. CASE UpdateUser(pr)
  <2>1. /\ r.at = "update" /\ UNCHANGED users
        /\ q.at = "idle" \/ (q.at = "read" /\ q.user = r.user)
    BY <1>u, RecheckIs, IdleFields
  <2>2. users[r.user].status = "live"
    BY <1>3, <2>1 DEF InName, AtWork, IsLive
  <2> QED BY <1>4, <2>1, <2>2 DEF AtWork
<1>14. CASE ReadOldUser(pr)
  <2>1. r.at = "read" /\ UNCHANGED users /\ q.at = "write" /\ q.user = r.user /\ q.row = users[r.user]
    BY <1>14, ReadIs
  <2>2. users[r.user].status = "live"
    BY <1>3, <2>1 DEF InName, AtWork, IsLive
  <2> QED BY <1>4, <2>1, <2>2
<1>15. CASE Update(pr)
  <2>1. /\ r.at = "write" /\ r.user \in User /\ RowsOf(r.user) /\ q.at \in {"idle", "mail"}
        /\ \/ users' = users
           \/ users'[r.user].status = IF r.trusted THEN "live" ELSE r.row.status
    BY <1>15, UpdateIs, IdleFields
  <2>2. r.row = users[r.user]
    BY <1>3, <2>1 DEF InName
  <2>3. \A u \in User : users'[u].status = "deleted" => users[u].status = "deleted"
    BY <2>1, <2>2 DEF RowsOf
  <2> QED BY <1>4, <2>1, <2>3 DEF AtWork
<1>16. CASE DeleteRow(pr)
  <2>1. /\ r.at = "delete" /\ r.user \in User /\ q.at = "list" /\ Carries(pr)
        /\ \A u \in User : u # r.user => users'[u].status = users[u].status
    BY <1>16, DeleteIs DEF RowsOf
  <2>2. ~r.all /\ q.user = r.user /\ q.all = r.all
    BY <1>3, <2>1 DEF InName, Revokes, Carries
  <2>3. ToRevoke(request[pr])'
    <3> SUFFICES ASSUME NEW s \in DOMAIN sessions, users'[sessions[s].user].status = "deleted",
                        NotMissed(sessions[s].user), sessions[s].user # r.user, sessions[s].live
                 PROVE  Gone(s)
      BY <1>1, <2>1, <2>2 DEF ToRevoke, NotMissed, Gone
    <3> QED BY <1>3, <2>1, <2>2 DEF ToRevoke
  <2>4. InName(request[pr])' /\ Waited(request[pr])'
    BY <2>1, <2>2 DEF InName, Waited, MakesSession, AtWork
  <2> QED BY <1>1, <2>3, <2>4, TheOnlyOne DEF DeletedInv
<1> QED BY <1>5, <1>6, <1>7, <1>8, <1>9, <1>10, <1>11, <1>12, <1>13, <1>u, <1>14, <1>15, <1>16 DEF AccountStep

(* The steps of a revocation, and the goroutine that deletes a session.    *)
LEMMA DeletedByRevocation ==
  ASSUME Typed, DeletedInv, NEW pr \in Proc,
         GetSessions(pr) \/ RevokeSession(pr) \/ RevokeAccessToken(pr) \/ AwaitRemoval(pr)
  PROVE  DeletedInv'
<1> USE DEF sessionTables
<1> DEFINE r == request[pr]
           q == request'[pr]
           s == NextToRevoke(r)
           GoneThen == s \in removing' \/ <<"session", s>> \in lost'
           Goal == InName(request[pr])' /\ Waited(request[pr])' /\ ToRevoke(request[pr])'
<1>1. UNCHANGED <<situation, users>> /\ lost \subseteq lost'
  BY ListIs, RevokeIs, RevokeDataIs, WaitIs
<1> SUFFICES ASSUME Alone PROVE Goal
  BY <1>1, TheOnlyOne DEF DeletedInv, Alone
<1>2. /\ InName(r) /\ Waited(r) /\ ToRevoke(r)
      /\ r \in Request /\ Sound(r, DOMAIN tokens, sessions, DOMAIN codes)
      /\ \A t \in DOMAIN sessions : sessions[t].live \in BOOLEAN
  BY Current DEF DeletedInv, Typed, TypeOK, SessionRow
<1>3. /\ Revoked(r).at = "revoke" /\ Revoked(r).all = r.all /\ Revoked(r).user = r.user
      /\ Revoked(r).todo = r.todo \ {s} /\ Revoked(r).then = r.then
      /\ Skipped(r) = Revoked(r) \/ (~r.all /\ Skipped(r) = Idle)
  BY <1>2, RevokedFields
<1>4. r.at \in Revokes /\ r.todo # {} =>
        s \in DOMAIN sessions /\ sessions[s].user = r.user /\ s \in r.todo
  BY RevokedTyped
(* The request revokes the others, with s out of the way; or it is over,   *)
(* which only that of a single session is.                                 *)
<1>5. ASSUME q = Revoked(r) \/ (~r.all /\ q = Idle), r.at \in Revokes,
             DOMAIN sessions' = DOMAIN sessions,
             \A t \in DOMAIN sessions : /\ sessions'[t].user = sessions[t].user
                                        /\ sessions'[t].live => sessions[t].live,
             removing \subseteq removing',
             r.all => GoneThen \/ ~sessions'[s].live \/ <<"revocation", r.user>> \in lost'
                      \/ s \notin r.todo
      PROVE  Goal
  <2>1. q.at \in {"revoke", "idle"} /\ (q.all => r.all)
    BY <1>3, <1>5, IdleFields
  <2>2. InName(request[pr])' /\ Waited(request[pr])'
    BY <1>2, <1>3, <1>5, <2>1, IdleFields DEF InName, Waited, MakesSession, AtWork, Revokes
  <2>3. ASSUME NEW t \in DOMAIN sessions, LET u == sessions[t].user IN
                 /\ users[u].status = "deleted" /\ <<"revocation", u>> \notin lost' /\ sessions'[t].live
        PROVE  t \in removing' \/ <<"session", t>> \in lost' \/ (q.user = sessions[t].user /\ q.all /\ t \in q.todo)
    <3>1. Gone(t) \/ (r.user = sessions[t].user /\ r.all /\ t \in r.todo)
      BY <1>1, <1>2, <1>5, <2>3 DEF ToRevoke, NotMissed, Revokes
    <3>2. CASE Gone(t)
      BY <1>1, <1>5, <3>2 DEF Gone
    <3>3. CASE r.user = sessions[t].user /\ r.all /\ t \in r.todo
      <4>1. q.user = r.user /\ q.all /\ q.todo = r.todo \ {s}
        BY <1>3, <1>5, <3>3
      <4> QED BY <1>5, <2>3, <3>3, <4>1 DEF Gone
    <3> QED BY <3>1, <3>2, <3>3
  <2>4. ToRevoke(request[pr])'
    BY <1>1, <1>5, <2>3 DEF ToRevoke, NotMissed, Gone
  <2> QED BY <2>2, <2>4
(* The request goes on with s.                                             *)
<1>6. ASSUME Same(q, r), r.at \in Revokes, q.at \in {"revoke_data", "revoke_wait"}, UNCHANGED <<sessions, lost>>,
             removing \subseteq removing', GoneThen \/ ~sessions[s].live
      PROVE  Goal
  <2>1. NextToRevoke(q) = s
    BY <1>6 DEF Same, NextToRevoke
  <2>2. InName(request[pr])' /\ Waited(request[pr])'
    BY <1>2, <1>6, <2>1 DEF InName, Waited, MakesSession, AtWork, Revokes, Same, Gone
  <2>3. ToRevoke(request[pr])'
    BY <1>1, <1>2, <1>6 DEF ToRevoke, NotMissed, Gone, Same, Revokes
  <2> QED BY <2>2, <2>3
<1>7. CASE GetSessions(pr)
  <2>1. /\ r.at = "list" /\ q.at = "revoke" /\ q.user = r.user /\ q.all /\ q.then = "idle"
        /\ q.todo = LiveSessions(r.user) /\ UNCHANGED <<users, sessions, removing, lost>>
    BY <1>7, ListIs
  <2>2. InName(request[pr])' /\ Waited(request[pr])'
    BY <2>1 DEF InName, Waited, MakesSession, AtWork, Revokes
  <2>3. ToRevoke(request[pr])'
    <3> SUFFICES ASSUME NEW t \in DOMAIN sessions, users[sessions[t].user].status = "deleted",
                        NotMissed(sessions[t].user), sessions[t].live
                 PROVE  Gone(t) \/ (q.user = sessions[t].user /\ t \in q.todo)
      BY <2>1 DEF ToRevoke, NotMissed, Gone
    <3>1. CASE sessions[t].user = r.user
      BY <2>1, <3>1 DEF LiveSessions
    <3>2. CASE sessions[t].user # r.user
      BY <1>2, <2>1, <3>2 DEF ToRevoke, InName, Revokes
    <3> QED BY <3>1, <3>2
  <2> QED BY <2>2, <2>3
<1>8. CASE RevokeSession(pr)
  <2>1. r.at = "revoke" /\ r.at \in Revokes
    BY <1>8, RevokeIs DEF Revokes
  <2>2. CASE /\ r.todo = {} /\ UNCHANGED <<sessionTables, lost>>
             /\ q = Idle \/ (r.then # "idle" /\ q.at = "unauthorize" /\ Same(q, r))
    <3>2. q.at \in {"idle", "unauthorize"} /\ ~q.all
      BY <1>2, <2>2, IdleFields DEF InName, Same
    <3>3. InName(request[pr])' /\ Waited(request[pr])'
      BY <3>2 DEF InName, Waited, MakesSession, AtWork
    <3>4. ToRevoke(request[pr])'
      BY <1>1, <1>2, <2>1, <2>2 DEF ToRevoke, NotMissed, Gone
    <3> QED BY <3>3, <3>4
  <2>3. CASE s \in DOMAIN sessions /\ Remove(s) /\ q = Revoked(r) /\ UNCHANGED <<removing, accessData>>
    <3>1. /\ DOMAIN sessions' = DOMAIN sessions /\ ~sessions'[s].live
          /\ \A t \in DOMAIN sessions : t # s => sessions'[t] = sessions[t]
          /\ \A t \in DOMAIN sessions : sessions'[t].user = sessions[t].user
      BY <2>3, RemoveTyped DEF SessionsGrow
    <3> QED BY <1>5, <2>1, <2>3, <3>1
  <2>4. CASE /\ s \in DOMAIN sessions /\ removing' = removing \cup {s} /\ UNCHANGED sessions
             /\ q = Skipped(r)
    <3>1. GoneThen
      BY <2>4 DEF Gone
    <3> QED BY <1>3, <1>5, <2>1, <2>4, <3>1
  <2>5. CASE /\ s \in DOMAIN sessions /\ removing' = removing \cup {s} /\ UNCHANGED sessions
             /\ q.at = "revoke_data" /\ Same(q, r) /\ lost' = lost
    <3>1. GoneThen /\ lost' = lost
      BY <2>5 DEF Gone
    <3> QED BY <1>6, <2>1, <2>5, <3>1
  <2> QED BY <1>8, <2>2, <2>3, <2>4, <2>5, RevokeIs
<1>9. CASE RevokeAccessToken(pr)
  <2>1. /\ r.at = "revoke_data" /\ r.at \in Revokes /\ UNCHANGED <<sessions, removing>>
        /\ \/ q.at = "revoke_wait" /\ Same(q, r) /\ lost' = lost
           \/ q = Skipped(r) /\ <<"revocation", r.user>> \in lost'
    BY <1>9, RevokeDataIs DEF Revokes
  <2>2. CASE q.at = "revoke_wait" /\ Same(q, r) /\ lost' = lost
    <3>1. GoneThen \/ ~sessions[s].live
      BY <1>2, <2>1, <2>2 DEF Waited, Gone
    <3> QED BY <1>6, <2>1, <2>2, <3>1
  <2>3. CASE q = Skipped(r) /\ <<"revocation", r.user>> \in lost'
    BY <1>3, <1>5, <2>1, <2>3
  <2> QED BY <2>1, <2>2, <2>3
<1>10. CASE AwaitRemoval(pr)
  <2>1. /\ r.at = "revoke_wait" /\ r.at \in Revokes /\ UNCHANGED <<sessions, removing, lost>>
        /\ q = Revoked(r)
    BY <1>10, WaitIs DEF Revokes
  <2>2. GoneThen \/ ~sessions[s].live
    BY <1>2, <2>1 DEF Waited, Gone
  <2> QED BY <1>5, <2>1, <2>2
<1> QED BY <1>7, <1>8, <1>9, <1>10

LEMMA DeletedStep == ASSUME Typed, SignInv, DeletedInv, [Next]_vars PROVE DeletedInv'
<1> USE DEF accountTables, sessionTables, oauthTables, histories
<1>1. ASSUME NEW pr \in Proc, OtherStep(pr) PROVE DeletedInv'
  <2> DEFINE r == request[pr]
             q == request'[pr]
  <2>1. Sound(r, DOMAIN tokens, sessions, DOMAIN codes) /\ (Alone => InName(r))
    BY Current DEF DeletedInv
  <2>2. ASSUME UNCHANGED <<situation, users>>, lost \subseteq lost', removing \subseteq removing',
               \A s \in DOMAIN sessions' :
                 sessions'[s].live /\ users[sessions'[s].user].status = "deleted" =>
                   s \in DOMAIN sessions /\ sessions[s].live /\ sessions'[s].user = sessions[s].user,
               r.at \notin Revokes \cup {"list"}, q.at \notin {"revoke_data", "revoke_wait"} \cup AtWork,
               q.all => r.all,
               q.at \in MakesSession => IsLive(q.user)
        PROVE  DeletedInv'
    BY <2>2, DeletedKept DEF IsLive, AtWork
  <2>3. ASSUME Alone, NewSession(r.user, IF r.at = "session" THEN None ELSE r.app), r.at \in MakesSession,
               r.user \in User, r.at # "session" => r.app \in App
        PROVE  \A s \in DOMAIN sessions' :
                 sessions'[s].live /\ users[sessions'[s].user].status = "deleted" =>
                   s \in DOMAIN sessions /\ sessions[s].live /\ sessions'[s].user = sessions[s].user
    <3> DEFINE c == IF r.at = "session" THEN None ELSE r.app
    <3>1. c \in App \cup {None} /\ users[r.user].status = "live"
      BY <2>1, <2>3 DEF InName, IsLive
    <3> HIDE DEF c
    <3>2. NewSession(r.user, c)
      BY <2>3 DEF c
    <3>3. /\ DOMAIN sessions' = DOMAIN sessions \cup {NewSessionId}
          /\ sessions'[NewSessionId] = [user |-> r.user, app |-> c, live |-> TRUE, expired |-> FALSE]
          /\ \A s \in DOMAIN sessions : sessions'[s] = sessions[s]
      <4> HIDE DEF r
      <4> QED BY <2>3, <3>1, <3>2, MadeTyped
    <3>4. sessions'[NewSessionId].user = r.user
      BY <3>3
    <3> QED BY <3>1, <3>3, <3>4
  <2>4. CASE Clerical(pr)
    BY <2>2, <2>4, ClericalIs DEF ClericalPhase, Revokes, MakesSession, AtWork
  <2>5. CASE Begins(pr)
    BY <2>2, <2>5, BeginIs, IdleFields DEF Accepted, Revokes, MakesSession, AtWork
  <2>6. CASE Makes(pr)
    <3>1. /\ r.at \in {"implicit", "exchange", "renew_session"} /\ r.user \in User /\ r.app \in App
          /\ NewSession(r.user, r.app) /\ UNCHANGED <<situation, users, removing, lost>>
          /\ q.at \in {"implicit_data", "exchange_data", "renew_data"} /\ q.all = r.all
      BY <2>6, MakesIs DEF Same
    <3> SUFFICES ASSUME Alone PROVE DeletedInv'
      BY <3>1 DEF DeletedInv, Alone
    <3> QED BY <2>2, <2>3, <3>1 DEF Revokes, MakesSession, AtWork
  <2>7. CASE DoLogin(pr)
    <3>1. /\ r.at = "session" /\ NewSession(r.user, None) /\ UNCHANGED <<situation, users, removing, lost>>
          /\ q.at = "idle" /\ ~q.all
      BY <2>7, BecomeIs, IdleFields DEF DoLogin, At
    <3>2. r.user \in User
      BY <2>1, <3>1 DEF Sound
    <3> SUFFICES ASSUME Alone PROVE DeletedInv'
      BY <3>1 DEF DeletedInv, Alone
    <3> QED BY <2>2, <2>3, <3>1, <3>2 DEF Revokes, MakesSession, AtWork
  <2>8. CASE SaveImplicitAccessData(pr) \/ SaveExchangedAccessData(pr)
    <3>1. /\ r.at \in {"implicit_data", "exchange_data"} /\ lost \subseteq lost'
          /\ UNCHANGED <<situation, users, sessions, removing>>
          /\ q.at \in {"allow", "code_done", "idle"} /\ (q.all => r.all)
      BY <2>8, SavesIs, IdleFields DEF Same
    <3> QED BY <2>2, <3>1 DEF Revokes, MakesSession, AtWork
  <2>9. CASE RenewRemove(pr)
    <3>1. /\ r.at = "renew" /\ q.at = "renew_session" /\ Same(q, r) /\ r.token \in DOMAIN sessions
          /\ UNCHANGED <<situation, users, removing>> /\ lost \subseteq lost'
          /\ Remove(r.token) \/ UNCHANGED sessions
      BY <2>9, RenewRemoveIs
    <3>2. \A s \in DOMAIN sessions' :
            sessions'[s].live => s \in DOMAIN sessions /\ sessions[s].live /\ sessions'[s].user = sessions[s].user
      BY <3>1, RemoveTyped
    <3> SUFFICES ASSUME Alone PROVE DeletedInv'
      BY <3>1 DEF DeletedInv, Alone
    <3>3. IsLive(q.user) /\ (q.all => r.all)
      BY <2>1, <3>1 DEF InName, MakesSession, Same
    <3> QED BY <2>2, <3>1, <3>2, <3>3 DEF Revokes, AtWork
  <2>10. CASE RenewData(pr)
    <3>1. /\ r.at = "renew_data" /\ UNCHANGED <<situation, users, sessions, removing, lost>>
          /\ q.at \in {"idle", "code_done"} /\ (q.all => r.all)
      BY <2>10, RenewDataIs, IdleFields DEF Same
    <3> QED BY <2>2, <3>1 DEF Revokes, MakesSession, AtWork
  <2>11. CASE FinishExchange(pr)
    <3>1. /\ r.at = "code_done" /\ UNCHANGED <<situation, users, sessions, removing>> /\ lost \subseteq lost'
          /\ q.at = "idle" /\ ~q.all
      BY <2>11, FinishIs, IdleFields
    <3> QED BY <2>2, <3>1 DEF Revokes, MakesSession, AtWork
  <2>12. ASSUME NEW c \in App, DeleteApp(pr, c) PROVE DeletedInv'
    <3>1. /\ r = Idle /\ q = r /\ UNCHANGED <<situation, users, removing, lost>>
          /\ \E its : sessions' = [s \in DOMAIN sessions |->
                                     IF s \in its THEN [sessions[s] EXCEPT !.live = FALSE] ELSE sessions[s]]
      BY <2>12 DEF DeleteApp, Accept
    <3>2. \A s \in DOMAIN sessions' :
            sessions'[s].live => s \in DOMAIN sessions /\ sessions[s].live /\ sessions'[s].user = sessions[s].user
      <4>1. \A s \in DOMAIN sessions : sessions[s] \in SessionRow
        BY DEF Typed, TypeOK
      <4> QED BY <3>1, <4>1 DEF SessionRow
    <3> QED BY <2>2, <3>1, <3>2, IdleFields DEF Revokes, MakesSession, AtWork
  <2> QED BY <1>1, <2>4, <2>5, <2>6, <2>7, <2>8, <2>9, <2>10, <2>11, <2>12, Kinds, DeletedByRevocation
<1>2. ASSUME NEW pr \in Proc, Fault(pr) PROVE DeletedInv'
  <2>1. /\ UNCHANGED <<situation, users, sessions, removing>> /\ lost \subseteq lost'
        /\ request'[pr].at = "idle" /\ ~request'[pr].all
        /\ request[pr].at \in Revokes \cup {"list"} => <<"revocation", request[pr].user>> \in lost'
    BY <1>2, BecomeIs, IdleFields DEF Fault, LostBy, Revokes
  <2> QED BY <2>1, DeletedKept DEF MakesSession, AtWork
<1>3. CASE (\E s \in removing : RemoveInBackground(s)) \/ Expiry \/ UNCHANGED vars
  <2>1. UNCHANGED <<situation, users, request>> /\ lost \subseteq lost'
    BY <1>3 DEF RemoveInBackground, Expiry, ExpireToken, ExpireSession, ExpireCode, Outlive, vars
  <2>2. /\ DOMAIN sessions' = DOMAIN sessions
        /\ \A s \in DOMAIN sessions : /\ sessions'[s].user = sessions[s].user
                                      /\ sessions'[s].live => sessions[s].live
        /\ \A s \in removing : s \in removing' \/ ~sessions'[s].live \/ <<"session", s>> \in lost'
    <3>0. removing \subseteq DOMAIN sessions /\ \A s \in DOMAIN sessions : sessions[s] \in SessionRow
      BY DEF Typed, TypeOK
    <3>1. ASSUME NEW t \in removing, RemoveInBackground(t) PROVE <2>2!1 /\ <2>2!2 /\ <2>2!3
      BY <3>0, <3>1, RemoveTyped DEF RemoveInBackground, SessionsGrow
    <3>2. ASSUME NEW t \in DOMAIN sessions, ExpireSession(t) PROVE <2>2!1 /\ <2>2!2 /\ <2>2!3
      BY <3>0, <3>2 DEF ExpireSession, SessionRow
    <3>3. UNCHANGED <<sessions, removing>> => <2>2!1 /\ <2>2!2 /\ <2>2!3
      OBVIOUS
    <3> QED BY <1>3, <3>1, <3>2, <3>3 DEF Expiry, ExpireToken, ExpireCode, vars
  <2> SUFFICES ASSUME Alone, NEW pr \in Proc
               PROVE  InName(request[pr])' /\ Waited(request[pr])' /\ ToRevoke(request[pr])'
    BY <2>1 DEF DeletedInv, Alone, Proc
  <2> DEFINE r == request[pr]
  <2>3. InName(r) /\ Waited(r) /\ ToRevoke(r)
    BY DEF DeletedInv
  <2>4. \A s \in DOMAIN sessions : Gone(s) => Gone(s)' \/ ~sessions'[s].live
    BY <2>1, <2>2 DEF Gone
  <2>5. InName(request[pr])'
    BY <2>1, <2>3 DEF InName, IsLive
  <2>6. Waited(request[pr])'
    <3>1. r.at \in {"revoke_data", "revoke_wait"} => NextToRevoke(r) \in DOMAIN sessions
      BY Current, RevokedTyped DEF Sound, Revokes
    <3>2. NextToRevoke(request[pr])' = NextToRevoke(r)
      BY <2>1 DEF NextToRevoke
    <3>3. r.at \in {"revoke_data", "revoke_wait"} => Gone(NextToRevoke(r))' \/ ~sessions'[NextToRevoke(r)].live
      BY <2>2, <2>3, <2>4, <3>1, <3>2 DEF Waited
    <3> QED BY <2>1, <3>2, <3>3 DEF Waited, Gone
  <2>7. ToRevoke(request[pr])'
    <3> SUFFICES ASSUME NEW s \in DOMAIN sessions, users[sessions[s].user].status = "deleted",
                        <<"revocation", sessions[s].user>> \notin lost',
                        ~(r.user = sessions[s].user /\ r.at = "list"), sessions'[s].live
                 PROVE  Gone(s)' \/ (r.user = sessions[s].user /\ r.all /\ s \in r.todo)
      BY <2>1, <2>2 DEF ToRevoke, NotMissed, Gone
    <3> QED BY <2>1, <2>2, <2>3, <2>4 DEF ToRevoke, NotMissed
  <2> QED BY <2>5, <2>6, <2>7
<1> QED BY <1>1, <1>2, <1>3, DeletedByAccounts, Steps

-----------------------------------------------------------------------------
(* Access tokens and sessions, one request at a time: they go together but *)
(* for the session the request is at work on, one a goroutine is about to  *)
(* delete, and what a failure has left.                                    *)
Excused(s) == <<"session", s>> \in lost \/ <<"revocation", sessions[s].user>> \in lost
DataOf(s) == accessData[sessions[s].app][sessions[s].user].token
InWork(r) ==
  CASE r.at \in {"implicit_data", "exchange_data"} -> {r.session}
    [] r.at = "renew_session" -> {r.token}
    [] r.at = "renew_data" -> {r.session, r.token}
    [] r.at = "revoke_data" -> {NextToRevoke(r)}
    [] OTHER -> {}

Fits(s) == IF s \in removing THEN DataOf(s) # s ELSE sessions[s].live <=> DataOf(s) = s
Fit(r) == \A s \in DOMAIN sessions :
  sessions[s].app # None /\ ~Excused(s) /\ s \notin InWork(r) => Fits(s)
HasMade(r) == r.at \in Saves =>
  sessions[r.session].live /\ r.session \notin removing /\ DataOf(r.session) # r.session
Renewing(r) ==
  /\ r.at \in Renews => accessData[r.app][r.user].token = r.token
  /\ r.at \in {"renew_session", "renew_data"} => ~sessions[r.token].live \/ Excused(r.token)
  /\ r.at = "renew_data" => r.session # r.token
MatchInv == Alone => \A pr \in Proc : Fit(request[pr]) /\ HasMade(request[pr]) /\ Renewing(request[pr])

LEMMA MatchInit == ASSUME Init PROVE MatchInv
<1>1. \A pr \in Proc : request[pr].at = "idle"
  BY IdleFields DEF Init, Proc
<1>2. \A s \in DOMAIN sessions : sessions[s].app = None
  BY DEF Init
<1> QED BY <1>1, <1>2 DEF MatchInv, Fit, HasMade, Renewing, Saves, Renews

(* Every step, from what it does to each session.                          *)
LEMMA MatchMoves ==
  ASSUME Typed, MatchInv, NEW pr \in Proc, UNCHANGED situation, lost \subseteq lost',
         \A s \in DOMAIN sessions' : sessions'[s].app # None =>
           \/ /\ s \in DOMAIN sessions /\ s \notin InWork(request[pr])
              /\ sessions'[s].app = sessions[s].app /\ sessions'[s].user = sessions[s].user
              /\ Fits(s) => Fits(s)'
           \/ Fits(s)' \/ s \in InWork(request[pr])' \/ Excused(s)',
         Alone => HasMade(request[pr])' /\ Renewing(request[pr])'
  PROVE  MatchInv'
<1> SUFFICES ASSUME Alone PROVE Fit(request[pr])'
  BY TheOnlyOne DEF MatchInv, Alone
<1>1. Fit(request[pr])
  BY DEF MatchInv
<1>2. ASSUME NEW s \in DOMAIN sessions', sessions'[s].app # None, ~Excused(s)', s \notin InWork(request[pr])'
      PROVE  Fits(s)'
  <2>1. CASE /\ s \in DOMAIN sessions /\ s \notin InWork(request[pr])
             /\ sessions'[s].app = sessions[s].app /\ sessions'[s].user = sessions[s].user
             /\ Fits(s) => Fits(s)'
    <3>1. ~Excused(s)
      BY <1>2, <2>1 DEF Excused
    <3> QED BY <1>1, <1>2, <2>1, <3>1 DEF Fit
  <2> QED BY <1>2, <2>1
<1> QED BY <1>2 DEF Fit

(* A step that does nothing to the sessions of applications.               *)
LEMMA MatchKept ==
  ASSUME Typed, MatchInv, NEW pr \in Proc, UNCHANGED <<situation, removing, accessData>>, lost \subseteq lost',
         \A s \in DOMAIN sessions' : sessions'[s].app # None =>
           s \in DOMAIN sessions /\ sessions'[s] = sessions[s],
         \A s \in InWork(request[pr]) : s \in InWork(request[pr])' \/ Excused(s)',
         request'[pr].at \notin Saves \cup {"renew_session", "renew_data"},
         request'[pr].at = "renew" => accessData[request'[pr].app][request'[pr].user].token = request'[pr].token
  PROVE  MatchInv'
<1>1. ASSUME NEW s \in DOMAIN sessions', sessions'[s].app # None
      PROVE  \/ /\ s \in DOMAIN sessions /\ s \notin InWork(request[pr])
                /\ sessions'[s].app = sessions[s].app /\ sessions'[s].user = sessions[s].user
                /\ Fits(s) => Fits(s)'
             \/ Fits(s)' \/ s \in InWork(request[pr])' \/ Excused(s)'
  <2>1. s \in DOMAIN sessions /\ sessions'[s] = sessions[s]
    BY <1>1
  <2>2. Fits(s) => Fits(s)'
    BY <2>1 DEF Fits, DataOf
  <2>3. CASE s \in InWork(request[pr])
    BY <2>3
  <2>4. CASE s \notin InWork(request[pr])
    BY <2>1, <2>2, <2>4
  <2> QED BY <2>3, <2>4
<1>2. HasMade(request[pr])' /\ Renewing(request[pr])'
  BY DEF HasMade, Renewing, Renews
<1> QED BY <1>1, <1>2, MatchMoves

(* The sessions of applications and their access data.                     *)
LEMMA AppSession ==
  ASSUME Typed, NEW s \in DOMAIN sessions, sessions[s].app # None
  PROVE  /\ sessions[s].app \in App /\ sessions[s].user \in User /\ sessions[s].live \in BOOLEAN
         /\ s \in Nat \ {0} /\ DataOf(s) \in DOMAIN sessions \cup {0}
<1>1. sessions[s] \in SessionRow /\ DOMAIN sessions = 1..Len(sessions) /\ Len(sessions) \in Nat
  BY SeqDomain DEF Typed, TypeOK, RowsTyped
<1>2. sessions[s].app \in App /\ sessions[s].user \in User /\ sessions[s].live \in BOOLEAN
  BY <1>1 DEF SessionRow
<1> QED BY <1>1, <1>2 DEF DataOf, Typed, TypeOK

LEMMA DataRemoved ==
  ASSUME Typed, NEW s \in DOMAIN sessions, RemoveAccessData(s), NEW c \in App, NEW u \in User
  PROVE  accessData'[c][u] = IF accessData[c][u].token = s THEN NoData ELSE accessData[c][u]
<1>1. s # 0
  BY SeqDomain DEF Typed, RowsTyped
<1>2. <<c, u>> \in GetAccessData(s) <=> accessData[c][u].token = s
  BY <1>1 DEF GetAccessData
<1> QED BY <1>2 DEF RemoveAccessData

(* A session is made: the request has still to save its access token.      *)
LEMMA MatchByMaking == ASSUME Typed, MatchInv, NEW pr \in Proc, Makes(pr) PROVE MatchInv'
<1> DEFINE r == request[pr]
           q == request'[pr]
           n == Len(sessions) + 1
<1>1. /\ r.at \in {"implicit", "exchange", "renew_session"} /\ r.user \in User /\ r.app \in App
      /\ q.at = CASE r.at = "implicit" -> "implicit_data"
                  [] r.at = "exchange" -> "exchange_data"
                  [] OTHER -> "renew_data"
      /\ q.session = n /\ Same(q, r) /\ NewSession(r.user, r.app)
      /\ UNCHANGED <<situation, removing, accessData, lost>>
  BY MakesIs DEF NewSessionId
<1>2. /\ DOMAIN sessions' = DOMAIN sessions \cup {n} /\ n \notin DOMAIN sessions
      /\ n # 0
      /\ sessions'[n] = [user |-> r.user, app |-> r.app, live |-> TRUE, expired |-> FALSE]
      /\ \A s \in DOMAIN sessions : sessions'[s] = sessions[s]
  <2> HIDE DEF r
  <2>1. NewSession(r.user, r.app) /\ r.user \in User /\ r.app \in App \cup {None}
    BY <1>1
  <2> QED BY <2>1, MadeTyped DEF NewSessionId
<1>3. sessions'[n].user = r.user /\ sessions'[n].app = r.app /\ sessions'[n].live
  BY <1>2
<1>4. removing \subseteq DOMAIN sessions /\ accessData[r.app][r.user].token \in DOMAIN sessions \cup {0}
  <2>1. \A s \in DOMAIN sessions : s \in 1..Len(sessions)
    BY SeqDomain DEF Typed, RowsTyped
  <2> QED BY <1>1, <2>1, SeqDomain DEF Typed, TypeOK, RowsTyped
<1>5. Sound(r, DOMAIN tokens, sessions, DOMAIN codes)
  BY Current
<1>6. InWork(request[pr])' = IF r.at = "renew_session" THEN {n, r.token} ELSE {n}
  BY <1>1 DEF InWork, Same
<1>7. InWork(r) = IF r.at = "renew_session" THEN {r.token} ELSE {}
  BY <1>1 DEF InWork
<1>8. ASSUME NEW s \in DOMAIN sessions', s \notin InWork(request[pr])'
      PROVE  /\ s \in DOMAIN sessions /\ s \notin InWork(r)
             /\ sessions'[s].app = sessions[s].app /\ sessions'[s].user = sessions[s].user
             /\ Fits(s) => Fits(s)'
  <2>1. s \in DOMAIN sessions /\ s \notin InWork(r) /\ sessions'[s] = sessions[s]
    BY <1>2, <1>6, <1>7, <1>8
  <2> QED BY <1>1, <2>1 DEF Fits, DataOf
<1>9. HasMade(request[pr])'
  BY <1>1, <1>2, <1>3, <1>4 DEF HasMade, DataOf
<1>10. Alone => Renewing(request[pr])'
  <2> SUFFICES ASSUME Alone PROVE Renewing(request[pr])'
    OBVIOUS
  <2>1. CASE r.at # "renew_session"
    BY <1>1, <2>1 DEF Renewing, Renews
  <2>2. CASE r.at = "renew_session"
    <3>1. /\ r.token \in DOMAIN sessions /\ accessData[r.app][r.user].token = r.token
          /\ ~sessions[r.token].live \/ Excused(r.token)
      BY <1>5, <2>2 DEF Sound, Renews, MatchInv, Renewing
    <3>2. q.app = r.app /\ q.user = r.user /\ q.token = r.token /\ sessions'[r.token] = sessions[r.token]
      BY <1>1, <1>2, <3>1 DEF Same
    <3> QED BY <1>1, <1>2, <2>2, <3>1, <3>2 DEF Renewing, Excused
  <2> QED BY <2>1, <2>2
<1> HIDE DEF r, q, n
<1> QED BY <1>1, <1>8, <1>9, <1>10, MatchMoves DEF r

(* The access token of the session just made is saved, or refused.         *)
LEMMA MatchBySaving ==
  ASSUME Typed, MatchInv, NEW pr \in Proc, SaveImplicitAccessData(pr) \/ SaveExchangedAccessData(pr)
  PROVE  MatchInv'
<1> DEFINE r == request[pr]
           q == request'[pr]
<1>1. /\ r.at \in {"implicit_data", "exchange_data"} /\ r.user \in User /\ r.app \in App
      /\ UNCHANGED <<situation, sessions, removing>> /\ lost \subseteq lost'
      /\ q.at \in {"allow", "code_done", "idle"}
  BY SavesIs, IdleFields
<1> SUFFICES ASSUME Alone PROVE MatchInv'
  BY <1>1 DEF MatchInv, Alone
<1>2. /\ r.session \in DOMAIN sessions /\ sessions[r.session].user = r.user /\ sessions[r.session].app = r.app
      /\ sessions[r.session].live /\ r.session \notin removing /\ DataOf(r.session) # r.session
  BY <1>1, Current DEF MatchInv, HasMade, Saves, Sound
<1>3. InWork(r) = {r.session} /\ r.app # None
  BY <1>1, AccountStoreAssumption DEF InWork
<1>4. HasMade(request[pr])' /\ Renewing(request[pr])'
  BY <1>1 DEF HasMade, Renewing, Saves, Renews
<1>5. CASE /\ accessData[r.app][r.user] = NoData
           /\ \E row \in DataRow : row.token = r.session
                                   /\ accessData' = [accessData EXCEPT ![r.app][r.user] = row]
  <2>1. PICK row \in DataRow : row.token = r.session
                               /\ accessData' = [accessData EXCEPT ![r.app][r.user] = row]
    BY <1>5
  <2>2. ASSUME NEW s \in DOMAIN sessions, sessions[s].app # None
        PROVE  IF s = r.session THEN Fits(s)' ELSE Fits(s) => Fits(s)'
    <3>1. /\ sessions[s].app \in App /\ sessions[s].user \in User /\ s \in Nat \ {0}
          /\ sessions[s].live \in BOOLEAN
      BY <2>2, AppSession
    <3>2. DataOf(s)' = IF sessions[s].app = r.app /\ sessions[s].user = r.user THEN r.session ELSE DataOf(s)
      <4> DEFINE c == sessions[s].app
                 u == sessions[s].user
      <4>1. accessData'[c][u] = IF c = r.app /\ u = r.user THEN row ELSE accessData[c][u]
        <5> HIDE DEF r, c, u
        <5>1. c \in App /\ u \in User /\ r.app \in App /\ r.user \in User
          BY <1>1, <2>1, <3>1 DEF c, u
        <5> QED BY <5>1, <2>1, <3>1 DEF Typed, RowsTyped
      <4>2. DataOf(s)' = accessData'[c][u].token /\ DataOf(s) = accessData[c][u].token
        BY <1>1 DEF DataOf
      <4> QED BY <2>1, <3>1, <4>1, <4>2
    <3>3. CASE s = r.session
      BY <1>1, <1>2, <3>2, <3>3 DEF Fits
    <3>4. CASE s # r.session
      <4>1. sessions[s].app = r.app /\ sessions[s].user = r.user => DataOf(s) = 0
        BY <1>5 DEF DataOf, NoData
      <4> QED BY <1>1, <3>1, <3>2, <3>4, <4>1 DEF Fits
    <3> QED BY <3>3, <3>4
  <2> QED BY <1>1, <1>3, <1>4, <2>2, MatchMoves
<1>6. CASE accessData' = accessData /\ lost' = lost \cup {<<"session", r.session>>}
  <2>1. \A s \in InWork(r) : Excused(s)'
    BY <1>3, <1>6 DEF Excused
  <2> QED BY <1>1, <1>6, <2>1, MatchKept DEF Saves
<1> QED BY <1>5, <1>6, SavesIs

(* The renewal.                                                            *)
LEMMA MatchByRemoving == ASSUME Typed, MatchInv, NEW pr \in Proc, RenewRemove(pr) PROVE MatchInv'
<1> DEFINE r == request[pr]
           q == request'[pr]
<1>1. /\ r.at = "renew" /\ q.at = "renew_session" /\ Same(q, r) /\ r.token \in DOMAIN sessions
      /\ UNCHANGED <<situation, removing, accessData>> /\ lost \subseteq lost'
      /\ Remove(r.token) \/ (UNCHANGED sessions /\ <<"session", r.token>> \in lost')
  BY RenewRemoveIs
<1>2. /\ DOMAIN sessions' = DOMAIN sessions
      /\ \A s \in DOMAIN sessions : s # r.token => sessions'[s] = sessions[s]
      /\ ~sessions'[r.token].live \/ <<"session", r.token>> \in lost'
  BY <1>1, RemoveTyped
<1>3. InWork(r) = {} /\ InWork(request[pr])' = {r.token}
  BY <1>1 DEF InWork, Same
<1>4. HasMade(request[pr])'
  BY <1>1 DEF HasMade, Saves
<1>5. Alone => Renewing(request[pr])'
  <2> SUFFICES ASSUME Alone PROVE Renewing(request[pr])'
    OBVIOUS
  <2>1. accessData[r.app][r.user].token = r.token
    BY <1>1 DEF MatchInv, Renewing, Renews
  <2>2. q.app = r.app /\ q.user = r.user /\ q.token = r.token
    BY <1>1 DEF Same
  <2> QED BY <1>1, <1>2, <2>1, <2>2 DEF Renewing, Excused
<1>6. ASSUME NEW s \in DOMAIN sessions', s # r.token PROVE sessions'[s] = sessions[s] /\ (Fits(s) => Fits(s)')
  BY <1>1, <1>2, <1>6 DEF Fits, DataOf
<1> QED BY <1>1, <1>2, <1>3, <1>4, <1>5, <1>6, MatchMoves

LEMMA MatchByRenewing == ASSUME Typed, MatchInv, NEW pr \in Proc, RenewData(pr) PROVE MatchInv'
<1> DEFINE r == request[pr]
           q == request'[pr]
<1>1. /\ r.at = "renew_data" /\ q.at \in {"idle", "code_done"}
      /\ UNCHANGED <<situation, sessions, removing, lost>> /\ r.user \in User /\ r.app \in App
  BY RenewDataIs, IdleFields
<1> SUFFICES ASSUME Alone PROVE MatchInv'
  BY <1>1 DEF MatchInv, Alone
<1>2. /\ r.session \in DOMAIN sessions /\ sessions[r.session].user = r.user /\ sessions[r.session].app = r.app
      /\ sessions[r.session].live /\ r.session \notin removing
      /\ r.token \in DOMAIN sessions /\ accessData[r.app][r.user].token = r.token
      /\ ~sessions[r.token].live \/ Excused(r.token)
      /\ r.session # r.token
  BY <1>1, Current DEF MatchInv, HasMade, Renewing, Saves, Renews, Sound
<1>3. InWork(r) = {r.session, r.token}
  BY <1>1 DEF InWork
<1>4. HasMade(request[pr])' /\ Renewing(request[pr])'
  BY <1>1 DEF HasMade, Renewing, Saves, Renews
<1>5. r.token # 0 /\ accessData[r.app][r.user] # NoData
  BY <1>2, SeqDomain DEF Typed, RowsTyped, NoData
<1>6. PICK row \in DataRow : row.token = r.session
                             /\ accessData' = [accessData EXCEPT ![r.app][r.user] = row]
  BY <1>5, RenewDataIs
<1>7. ASSUME NEW s \in DOMAIN sessions, sessions[s].app # None
      PROVE  \/ s \notin InWork(r) /\ (Fits(s) => Fits(s)')
             \/ Fits(s)' \/ Excused(s)'
  <2>1. /\ sessions[s].app \in App /\ sessions[s].user \in User /\ s \in Nat \ {0}
        /\ sessions[s].live \in BOOLEAN
    BY <1>7, AppSession
  <2>2. DataOf(s)' = IF sessions[s].app = r.app /\ sessions[s].user = r.user THEN r.session ELSE DataOf(s)
    <3> DEFINE c == sessions[s].app
               u == sessions[s].user
    <3>1. accessData'[c][u] = IF c = r.app /\ u = r.user THEN row ELSE accessData[c][u]
      <4> HIDE DEF r, c, u
      <4>1. c \in App /\ u \in User /\ r.app \in App /\ r.user \in User
        BY <1>1, <1>6, <2>1 DEF c, u
      <4> QED BY <4>1, <1>6, <2>1 DEF Typed, RowsTyped
    <3>2. DataOf(s)' = accessData'[c][u].token /\ DataOf(s) = accessData[c][u].token
      BY <1>1 DEF DataOf
    <3> QED BY <1>6, <2>1, <3>1, <3>2
  <2>3. CASE s = r.session
    BY <1>1, <1>2, <2>2, <2>3 DEF Fits
  <2>4. CASE s = r.token /\ ~Excused(s)
    <3>1. sessions[s].app = r.app /\ sessions[s].user = r.user
      BY <1>1, <1>2, <1>5, <2>4 DEF Typed, DataOfSessions
    <3> QED BY <1>1, <1>2, <2>2, <2>4, <3>1 DEF Fits
  <2>5. CASE s = r.token /\ Excused(s)
    BY <1>1, <2>5 DEF Excused
  <2>6. CASE s \notin {r.session, r.token}
    <3>1. sessions[s].app = r.app /\ sessions[s].user = r.user => DataOf(s) = r.token
      BY <1>2 DEF DataOf
    <3>2. s \notin InWork(r)
      BY <1>3, <2>6
    <3>3. Fits(s) => Fits(s)'
      BY <1>1, <2>1, <2>2, <2>6, <3>1 DEF Fits
    <3> QED BY <3>2, <3>3
  <2> QED BY <2>3, <2>4, <2>5, <2>6
<1> QED BY <1>1, <1>4, <1>7, MatchMoves

(* Revocation: the access data goes first, or stays with the session.      *)
LEMMA MatchByRevocation ==
  ASSUME Typed, DeletedInv, MatchInv, NEW pr \in Proc,
         GetSessions(pr) \/ RevokeSession(pr) \/ RevokeAccessToken(pr) \/ AwaitRemoval(pr)
  PROVE  MatchInv'
<1> USE DEF sessionTables
<1> DEFINE r == request[pr]
           q == request'[pr]
           s == NextToRevoke(r)
<1>1. /\ UNCHANGED situation /\ lost \subseteq lost' /\ r.at \in {"list"} \cup Revokes
      /\ r \in Request /\ Sound(r, DOMAIN tokens, sessions, DOMAIN codes)
      /\ removing \subseteq DOMAIN sessions
  BY Current, ListIs, RevokeIs, RevokeDataIs, WaitIs DEF Revokes, Typed, TypeOK
<1>2. q.at \in {"idle", "unauthorize"} \cup Revokes
  <2>1. Revocation(pr)
    BY DEF Revocation
  <2> QED BY <2>1, RevocationSteps
<1>3. HasMade(request[pr])' /\ Renewing(request[pr])'
  BY <1>2 DEF HasMade, Renewing, Saves, Renews, Revokes
<1>4. q.at \notin Saves \cup Renews
  BY <1>2 DEF Saves, Renews, Revokes
<1>5. ASSUME r.at # "revoke_data", UNCHANGED <<removing, accessData>>,
             \A t \in DOMAIN sessions' : sessions'[t].app # None =>
               t \in DOMAIN sessions /\ sessions'[t] = sessions[t]
      PROVE  MatchInv'
  <2>1. InWork(r) = {}
    BY <1>1, <1>5 DEF InWork, Revokes
  <2> QED BY <1>1, <1>4, <1>5, <2>1, MatchKept DEF Renews
<1>6. CASE GetSessions(pr)
  BY <1>5, <1>6, ListIs
<1>7. CASE AwaitRemoval(pr)
  BY <1>5, <1>7, WaitIs
<1>8. CASE RevokeSession(pr)
  <2>1. r.at = "revoke" /\ InWork(r) = {}
    BY <1>8, RevokeIs DEF InWork
  <2>2. CASE UNCHANGED <<sessions, removing, accessData>>
    BY <1>5, <2>1, <2>2
  <2>3. CASE s \in DOMAIN sessions /\ sessions[s].app = None /\ Remove(s) /\ UNCHANGED <<removing, accessData>>
    <3>1. /\ DOMAIN sessions' = DOMAIN sessions /\ sessions'[s].app = sessions[s].app
          /\ \A t \in DOMAIN sessions : t # s => sessions'[t] = sessions[t]
      BY <2>3, RemoveTyped DEF SessionsGrow
    <3> QED BY <1>5, <2>1, <2>3, <3>1
  <2>4. CASE /\ s \in DOMAIN sessions /\ sessions[s].app # None /\ removing' = removing \cup {s}
             /\ UNCHANGED <<sessions, accessData>>
             /\ \/ GetAccessData(s) = {}
                \/ q.at = "revoke_data" /\ Same(q, r)
                \/ sessions[s].user = r.user /\ lost' = lost \cup {<<"revocation", r.user>>}
    <3>1. ASSUME NEW t \in DOMAIN sessions, t # s PROVE Fits(t) => Fits(t)'
      BY <2>4, <3>1 DEF Fits, DataOf
    <3>2. CASE GetAccessData(s) = {}
      <4>1. sessions[s].app \in App /\ sessions[s].user \in User /\ s # 0
        BY <2>4, AppSession
      <4>2. <<sessions[s].app, sessions[s].user>> \notin GetAccessData(s)
        BY <3>2
      <4>3. accessData[sessions[s].app][sessions[s].user].token # s
        BY <4>1, <4>2 DEF GetAccessData
      <4>4. ASSUME NEW t \in DOMAIN sessions, t = s PROVE Fits(t)'
        BY <2>4, <4>3, <4>4 DEF Fits, DataOf
      <4>5. \A t \in DOMAIN sessions : Fits(t) => Fits(t)'
        BY <3>1, <4>4
      <4> QED BY <1>1, <1>3, <2>1, <2>4, <4>5, MatchMoves
    <3>3. CASE q.at = "revoke_data" /\ Same(q, r)
      <4>1. NextToRevoke(q) = s
        BY <3>3 DEF Same, NextToRevoke
      <4>2. InWork(request[pr])' = {s}
        BY <3>3, <4>1 DEF InWork
      <4> QED BY <1>1, <1>3, <2>1, <2>4, <3>1, <4>2, MatchMoves
    <3>4. CASE sessions[s].user = r.user /\ lost' = lost \cup {<<"revocation", r.user>>}
      <4>1. ASSUME NEW t \in DOMAIN sessions, t = s PROVE Excused(t)'
        BY <2>4, <3>4, <4>1 DEF Excused
      <4> QED BY <1>1, <1>3, <2>1, <2>4, <3>1, <4>1, MatchMoves
    <3> QED BY <2>4, <3>2, <3>3, <3>4
  <2> QED BY <1>8, <2>2, <2>3, <2>4, RevokeIs
<1>9. CASE RevokeAccessToken(pr)
  <2>1. /\ r.at = "revoke_data" /\ UNCHANGED <<sessions, removing>> /\ s \in DOMAIN sessions
        /\ sessions[s].user = r.user /\ InWork(r) = {s}
        /\ \/ RemoveAccessData(s) /\ lost' = lost
           \/ UNCHANGED accessData /\ lost' = lost \cup {<<"revocation", r.user>>} /\ q = Skipped(r)
    BY <1>9, RevokeDataIs DEF InWork
  <2> SUFFICES ASSUME Alone PROVE MatchInv'
    BY <1>1 DEF MatchInv, Alone
  <2>2. s \in removing \/ <<"session", s>> \in lost \/ ~sessions[s].live
    BY <2>1 DEF DeletedInv, Waited, Gone
  <2>3. CASE RemoveAccessData(s) /\ lost' = lost
    <3>1. ASSUME NEW t \in DOMAIN sessions, sessions[t].app # None
          PROVE  /\ t # s => (Fits(t) => Fits(t)')
                 /\ t = s => Fits(t)' \/ Excused(t)'
      <4>1. sessions[t].app \in App /\ sessions[t].user \in User /\ t \in Nat \ {0} /\ s \in Nat \ {0}
        BY <2>1, <3>1, AppSession, SeqDomain DEF Typed, RowsTyped
      <4>2. accessData'[sessions[t].app][sessions[t].user] =
              IF DataOf(t) = s THEN NoData ELSE accessData[sessions[t].app][sessions[t].user]
        BY <2>1, <2>3, <4>1, DataRemoved DEF DataOf
      <4>3. DataOf(t)' = IF DataOf(t) = s THEN 0 ELSE DataOf(t)
        BY <2>1, <4>2 DEF DataOf, NoData
      <4>4. CASE t # s
        BY <2>1, <4>1, <4>3, <4>4 DEF Fits
      <4>5. CASE t = s
        <5>1. DataOf(t)' # t
          BY <4>1, <4>3, <4>5
        <5>2. t \in removing \/ <<"session", t>> \in lost \/ ~sessions[t].live
          BY <2>2, <4>5
        <5>3. Fits(t)' \/ Excused(t)'
          BY <2>1, <2>3, <5>1, <5>2 DEF Fits, Excused
        <5> QED BY <4>5, <5>3
      <4> QED BY <4>4, <4>5
    <3>2. \A t \in DOMAIN sessions : t \in InWork(r) <=> t = s
      BY <2>1
    <3> HIDE DEF s
    <3> QED BY <1>1, <1>3, <2>1, <3>1, <3>2, MatchMoves
  <2>4. CASE UNCHANGED accessData /\ lost' = lost \cup {<<"revocation", r.user>>} /\ q = Skipped(r)
    <3>1. \A t \in InWork(r) : Excused(t)'
      BY <2>1, <2>4 DEF Excused
    <3> QED BY <1>1, <1>4, <2>1, <2>4, <3>1, MatchKept DEF Renews
  <2> QED BY <2>1, <2>3, <2>4
<1> QED BY <1>6, <1>7, <1>8, <1>9

(* An application is deleted, with its access data and their sessions.     *)
LEMMA MatchByDeletion ==
  ASSUME Typed, MatchInv, NEW pr \in Proc, NEW c \in App, DeleteApp(pr, c)
  PROVE  MatchInv'
<1> DEFINE r == request[pr]
           its == {accessData[c][u].token : u \in User} \ {0}
<1>1. /\ r = Idle /\ request' = request /\ UNCHANGED <<situation, removing, lost>>
      /\ sessions' = [s \in DOMAIN sessions |->
                        IF s \in its THEN [sessions[s] EXCEPT !.live = FALSE] ELSE sessions[s]]
      /\ accessData' = [accessData EXCEPT ![c] = [u \in User |-> NoData]]
  BY DEF DeleteApp, Accept, histories
<1>2. r.at = "idle" /\ request'[pr].at = "idle"
  BY <1>1, IdleFields
<1>3. HasMade(request[pr])' /\ Renewing(request[pr])' /\ InWork(r) = {}
  BY <1>2 DEF HasMade, Renewing, Saves, Renews, InWork
<1>4. ASSUME NEW s \in DOMAIN sessions
      PROVE  /\ sessions'[s].app = sessions[s].app /\ sessions'[s].user = sessions[s].user
             /\ sessions'[s].live = (sessions[s].live /\ s \notin its)
  <2>1. sessions[s] \in SessionRow /\ sessions[s].live \in BOOLEAN
    BY DEF Typed, TypeOK, SessionRow
  <2> HIDE DEF its
  <2>2. CASE s \in its
    BY <1>1, <2>1, <2>2 DEF SessionRow
  <2>3. CASE s \notin its
    BY <1>1, <2>1, <2>3
  <2> QED BY <2>2, <2>3
<1>5. ASSUME NEW s \in DOMAIN sessions, sessions[s].app # None PROVE Fits(s) => Fits(s)'
  <2> DEFINE d == sessions[s].app
             v == sessions[s].user
  <2>1. d \in App /\ v \in User /\ s \in Nat \ {0} /\ sessions[s].live \in BOOLEAN
    BY <1>5, AppSession
  <2>2. DataOf(s)' = IF d = c THEN 0 ELSE DataOf(s)
    <3>1. accessData'[d][v] = IF d = c THEN NoData ELSE accessData[d][v]
      BY <1>1, <2>1 DEF Typed, RowsTyped
    <3>2. DataOf(s)' = accessData'[d][v].token /\ DataOf(s) = accessData[d][v].token
      BY <1>4 DEF DataOf
    <3> QED BY <3>1, <3>2 DEF NoData
  <2>3. CASE d = c
    <3>1. DataOf(s) = s => s \in its
      BY <2>1, <2>3 DEF DataOf
    <3> HIDE DEF its, d
    <3> QED BY <1>1, <1>4, <2>1, <2>2, <2>3, <3>1 DEF Fits
  <2>4. CASE d # c
    <3>1. s \notin its
      BY <2>1, <2>4 DEF Typed, DataOfSessions
    <3> HIDE DEF its, d
    <3> QED BY <1>1, <1>4, <2>1, <2>2, <2>4, <3>1 DEF Fits
  <2> QED BY <2>3, <2>4
<1>6. DOMAIN sessions' = DOMAIN sessions
  BY <1>1
<1> HIDE DEF its
<1> QED BY <1>1, <1>3, <1>4, <1>5, <1>6, MatchMoves

(* A goroutine deletes its session, or fails to; time passes.              *)
LEMMA MatchInBackground ==
  ASSUME Typed, MatchInv, (\E s \in removing : RemoveInBackground(s)) \/ Expiry \/ UNCHANGED vars
  PROVE  MatchInv'
<1> USE DEF sessionTables
<1>0. removing \subseteq DOMAIN sessions /\ \A s \in DOMAIN sessions : sessions[s] \in SessionRow
  BY DEF Typed, TypeOK
<1>1. UNCHANGED <<situation, accessData, request>> /\ lost \subseteq lost'
  BY DEF RemoveInBackground, Expiry, ExpireToken, ExpireSession, ExpireCode, Outlive, vars, histories
<1>2. /\ DOMAIN sessions' = DOMAIN sessions
      /\ \A s \in DOMAIN sessions : /\ sessions'[s].user = sessions[s].user
                                    /\ sessions'[s].app = sessions[s].app
                                    /\ sessions'[s].live => sessions[s].live
                                    /\ s \notin removing => sessions'[s].live = sessions[s].live
      /\ \A s \in removing : s \in removing' \/ ~sessions'[s].live \/ <<"session", s>> \in lost'
      /\ removing' \subseteq removing
  <2>1. ASSUME NEW t \in removing, RemoveInBackground(t) PROVE <1>2!1 /\ <1>2!2 /\ <1>2!3 /\ <1>2!4
    <3>1. t \in DOMAIN sessions /\ removing' = removing \ {t}
      BY <1>0, <2>1 DEF RemoveInBackground
    <3>2. CASE Remove(t)
      BY <3>1, <3>2, RemoveTyped DEF SessionsGrow
    <3>3. CASE UNCHANGED sessions /\ <<"session", t>> \in lost'
      BY <3>1, <3>3
    <3> QED BY <2>1, <3>2, <3>3 DEF RemoveInBackground
  <2>2. ASSUME NEW t \in DOMAIN sessions, ExpireSession(t) PROVE <1>2!1 /\ <1>2!2 /\ <1>2!3 /\ <1>2!4
    BY <1>0, <2>2 DEF ExpireSession, SessionRow
  <2>3. UNCHANGED <<sessions, removing>> => <1>2!1 /\ <1>2!2 /\ <1>2!3 /\ <1>2!4
    OBVIOUS
  <2> QED BY <2>1, <2>2, <2>3 DEF Expiry, ExpireToken, ExpireCode, vars
<1> SUFFICES ASSUME Alone, NEW pr \in Proc
             PROVE  Fit(request[pr])' /\ HasMade(request[pr])' /\ Renewing(request[pr])'
  BY <1>1 DEF MatchInv, Alone, Proc
<1> DEFINE r == request[pr]
<1>3. /\ Fit(r) /\ HasMade(r) /\ Renewing(r) /\ Sound(r, DOMAIN tokens, sessions, DOMAIN codes)
  BY Current DEF MatchInv
<1>4. ASSUME NEW s \in DOMAIN sessions
      PROVE  (Excused(s) => Excused(s)') /\ DataOf(s)' = DataOf(s)
  BY <1>1, <1>2 DEF Excused, DataOf
<1>5. Fit(request[pr])'
  <2>1. InWork(request[pr])' = InWork(r)
    BY <1>1 DEF InWork, NextToRevoke
  <2> SUFFICES ASSUME NEW s \in DOMAIN sessions, sessions[s].app # None, ~Excused(s)', s \notin InWork(r)
               PROVE  Fits(s)'
    BY <1>2, <2>1 DEF Fit
  <2>2. Fits(s) /\ <<"session", s>> \notin lost'
    BY <1>3, <1>4 DEF Fit, Excused
  <2>3. CASE s \in removing
    BY <1>2, <1>4, <2>2, <2>3 DEF Fits
  <2>4. CASE s \notin removing
    BY <1>2, <1>4, <2>2, <2>4 DEF Fits
  <2> QED BY <2>3, <2>4
<1>6. HasMade(request[pr])'
  <2>1. r.at \in Saves => r.session \in DOMAIN sessions
    BY <1>3 DEF Sound
  <2>2. r.at \in Saves => accessData'[sessions'[r.session].app][sessions'[r.session].user].token = DataOf(r.session)
    BY <1>1, <1>2, <2>1 DEF DataOf
  <2> QED BY <1>1, <1>2, <1>3, <2>1, <2>2 DEF HasMade, DataOf
<1>7. Renewing(request[pr])'
  <2>1. r.at \in Renews => r.token \in DOMAIN sessions
    BY <1>3 DEF Sound
  <2>2. r.at \in {"renew_session", "renew_data"} =>
          \/ ~sessions'[r.token].live
          \/ <<"session", r.token>> \in lost' \/ <<"revocation", sessions'[r.token].user>> \in lost'
    BY <1>1, <1>2, <1>3, <2>1 DEF Renewing, Excused, Renews
  <2> QED BY <1>1, <1>3, <2>2 DEF Renewing, Excused
<1> QED BY <1>5, <1>6, <1>7

LEMMA MatchStep == ASSUME Typed, DeletedInv, MatchInv, [Next]_vars PROVE MatchInv'
<1> USE DEF sessionTables
<1>1. ASSUME NEW pr \in Proc, UNCHANGED <<situation, sessions, removing, accessData>>, lost \subseteq lost',
             InWork(request[pr]) = {}, request'[pr].at \notin Saves \cup Renews
      PROVE  MatchInv'
  BY <1>1, MatchKept DEF Renews
<1>2. ASSUME NEW pr \in Proc, AccountStep(pr) PROVE MatchInv'
  <2>1. /\ UNCHANGED <<situation, sessions, removing, accessData, lost>>
        /\ request[pr].at \in AccountPhase \cup {"idle"}
        /\ request'[pr].at \in AccountPhase \cup {"idle", "session", "list"}
    BY <1>2, AccountIs
  <2>2. InWork(request[pr]) = {} /\ request'[pr].at \notin Saves \cup Renews
    BY <2>1 DEF AccountPhase, InWork, Saves, Renews
  <2> QED BY <1>1, <2>1, <2>2
<1>3. ASSUME NEW pr \in Proc, Clerical(pr) PROVE MatchInv'
  <2>1. /\ UNCHANGED <<situation, sessions, removing, accessData, lost>>
        /\ request[pr].at \in ClericalPhase /\ request'[pr].at \in ClericalPhase \cup {"implicit"}
    BY <1>3, ClericalIs
  <2>2. InWork(request[pr]) = {} /\ request'[pr].at \notin Saves \cup Renews
    BY <2>1 DEF ClericalPhase, InWork, Saves, Renews
  <2> QED BY <1>1, <2>1, <2>2
<1>4. ASSUME NEW pr \in Proc, Begins(pr) PROVE MatchInv'
  <2> DEFINE q == request'[pr]
  <2>1. /\ UNCHANGED <<situation, sessions, removing, accessData, lost>> /\ request[pr].at = "idle"
        /\ q.at \in {"revoke", "unauthorize", "code_done", "exchange", "renew"}
        /\ q.at = "renew" => accessData[q.app][q.user].token = q.token
    BY <1>4, BeginIs, IdleFields DEF Accepted
  <2>2. InWork(request[pr]) = {} /\ q.at \notin Saves \cup {"renew_session", "renew_data"}
    BY <2>1 DEF InWork, Saves
  <2> QED BY <2>1, <2>2, MatchKept
<1>5. ASSUME NEW pr \in Proc, FinishExchange(pr) PROVE MatchInv'
  <2>1. /\ UNCHANGED <<situation, sessions, removing, accessData>> /\ lost \subseteq lost'
        /\ request[pr].at = "code_done" /\ request'[pr].at = "idle"
    BY <1>5, FinishIs, IdleFields
  <2>2. InWork(request[pr]) = {} /\ request'[pr].at \notin Saves \cup Renews
    BY <2>1 DEF InWork, Saves, Renews
  <2> QED BY <1>1, <2>1, <2>2
<1>6. ASSUME NEW pr \in Proc, DoLogin(pr) PROVE MatchInv'
  <2>1. /\ UNCHANGED <<situation, removing, accessData, lost>> /\ NewSession(request[pr].user, None)
        /\ request[pr].at = "session" /\ request'[pr].at = "idle" /\ request[pr].user \in User
    BY <1>6, BecomeIs, IdleFields, Current DEF DoLogin, At, histories, Sound
  <2>2. /\ DOMAIN sessions' = DOMAIN sessions \cup {NewSessionId}
        /\ sessions'[NewSessionId] = [user |-> request[pr].user, app |-> None, live |-> TRUE, expired |-> FALSE]
        /\ \A s \in DOMAIN sessions : sessions'[s] = sessions[s]
    BY <2>1, MadeTyped
  <2>3. sessions'[NewSessionId].app = None
    BY <2>2
  <2>4. InWork(request[pr]) = {} /\ request'[pr].at \notin Saves \cup Renews
    BY <2>1 DEF InWork, Saves, Renews
  <2> QED BY <2>1, <2>2, <2>3, <2>4, MatchKept DEF Renews
<1>7. ASSUME NEW pr \in Proc, Fault(pr) PROVE MatchInv'
  <2> DEFINE r == request[pr]
  <2>1. /\ UNCHANGED <<situation, sessions, removing, accessData>> /\ lost' = lost \cup LostBy(r)
        /\ request'[pr].at = "idle" /\ Sound(r, DOMAIN tokens, sessions, DOMAIN codes)
    BY <1>7, BecomeIs, IdleFields, Current DEF Fault
  <2>2. /\ r.at = "revoke_data" => sessions[NextToRevoke(r)].user = r.user
        /\ r.at \in Saves => r.session # 0
    <3>1. \A s \in DOMAIN sessions : s # 0
      BY SeqDomain DEF Typed, RowsTyped
    <3> QED BY <2>1, <3>1, RevokedTyped DEF Sound, Revokes
  <2>3. ASSUME NEW s \in InWork(r) PROVE <<"session", s>> \in lost' \/ <<"revocation", sessions'[s].user>> \in lost'
    BY <2>1, <2>2, <2>3 DEF InWork, LostBy, Saves
  <2>4. \A s \in InWork(request[pr]) : Excused(s)'
    BY <2>3 DEF Excused
  <2>5. request'[pr].at \notin Saves \cup Renews
    BY <2>1 DEF Saves, Renews
  <2> QED BY <2>1, <2>4, <2>5, MatchKept DEF Renews
<1>8. ASSUME NEW pr \in Proc, OtherStep(pr) PROVE MatchInv'
  BY <1>3, <1>4, <1>5, <1>6, <1>8, Kinds, MatchByMaking, MatchBySaving, MatchByRemoving, MatchByRenewing,
     MatchByRevocation, MatchByDeletion
<1> QED BY <1>2, <1>7, <1>8, Steps, MatchInBackground

-----------------------------------------------------------------------------
(* The invariants together, and what each run checks of them.              *)
IdentityInv == /\ Typed /\ ProvenInv /\ SignInv /\ UsesBounded
               /\ GuessInv /\ CodesInv /\ DeletedInv /\ MatchInv

LEMMA SomeRequest == ASSUME Typed PROVE 1 \in Proc
BY Slots DEF Proc

LEMMA GuessesAreFew == ASSUME Typed, GuessInv PROVE GuessesBounded
<1> SUFFICES ASSUME NEW u \in User, Alone, ~Missing(u) PROVE guesses[u] <= MaximumLoginAttempts
  BY DEF GuessesBounded, Missing
<1>1. 1 \in Proc /\ GuessRows(1) /\ GuessAt(1)
  BY SomeRequest DEF GuessInv
<1>2. guesses[u] \in Nat /\ users[u].attempts \in Nat /\ request[1].row.attempts \in Nat
  BY <1>1 DEF Typed, TypeOK, UserRow, Request
<1>3. MaximumLoginAttempts \in Nat
  BY AccountStoreAssumption
<1>4. CASE WrongBy(1, u)
  BY <1>1, <1>2, <1>3, <1>4 DEF WrongBy, GuessAt
<1>5. CASE ~WrongBy(1, u)
  BY <1>1, <1>2, <1>3, <1>5 DEF GuessRows
<1> QED BY <1>4, <1>5

LEMMA OnceIsEnough == ASSUME Typed, FewAdmins, UsesBounded, CodesInv PROVE OnceOnly
<1>1. FirstIsAdmin
  <2> SUFFICES ASSUME DOMAIN situation.typeOf = {}, "type" \notin situation.ops
               PROVE  Cardinality(Admins) <= situation.slots
    BY DEF FirstIsAdmin, Admins
  <2>1. IsFiniteSet(Admins) /\ Cardinality(Admins) + Cardinality(AdminSigns) <= situation.slots
    BY DEF FewAdmins
  <2>2. AdminSigns \in SUBSET Proc
    BY DEF AdminSigns
  <2>3. Cardinality(Admins) \in Nat /\ Cardinality(AdminSigns) \in Nat /\ situation.slots \in Nat
    BY <2>1, <2>2, Slots, FS_CardinalityType
  <2> QED BY <2>1, <2>3
<1>2. TokenWorksOnce
  <2> SUFFICES ASSUME NEW k \in DOMAIN tokens, <<"token", k>> \notin lost
               PROVE  used[k] <= situation.slots
    BY DEF TokenWorksOnce
  <2>1. used[k] + Cardinality(Using(k)) <= situation.slots
    BY DEF UsesBounded
  <2>2. used[k] \in Nat
    BY SeqDomain DEF Typed, RowsTyped, TypeOK
  <2>3. Cardinality(Using(k)) \in Nat /\ situation.slots \in Nat
    BY UsesCounted, Slots
  <2> QED BY <2>1, <2>2, <2>3
<1>3. CodeMakesOneSession
  <2> SUFFICES ASSUME NEW k \in DOMAIN codes, Alone, <<"code", k>> \notin lost
               PROVE  codes[k].made <= 1
    BY DEF CodeMakesOneSession
  <2>1. CodesAt(request[1])
    BY SomeRequest DEF CodesInv
  <2> QED BY <2>1 DEF CodesAt, NotLost
<1> QED BY <1>1, <1>2, <1>3 DEF OnceOnly

LEMMA TablesFit == ASSUME Typed, DeletedInv, MatchInv PROVE TablesAgree
<1>1. DeletedHasNoSession
  <2> SUFFICES ASSUME NEW u \in User, Alone, users[u].status = "deleted", ~BeingDeleted(u),
                      NotMissed(u), NEW s \in LiveSessions(u)
               PROVE  Gone(s)
    BY DEF DeletedHasNoSession, NotMissed, Gone
  <2>1. 1 \in Proc /\ ToRevoke(request[1])
    BY SomeRequest DEF DeletedInv
  <2>2. s \in DOMAIN sessions /\ sessions[s].user = u /\ sessions[s].live
    BY DEF LiveSessions
  <2>3. ~(request[1].user = u /\ (request[1].all \/ request[1].at = "list"))
    BY <2>1 DEF BeingDeleted
  <2> QED BY <2>1, <2>2, <2>3 DEF ToRevoke
<1>2. TokensMatchSessions
  <2> SUFFICES ASSUME Alone, NEW s \in DOMAIN sessions, sessions[s].app # None, ~Unsettled(s)
               PROVE  sessions[s].live <=> DataOf(s) = s
    BY DEF TokensMatchSessions, DataOf
  <2>1. 1 \in Proc /\ Fit(request[1])
    BY SomeRequest DEF MatchInv
  <2>2. s \notin removing /\ ~Excused(s)
    BY DEF Unsettled, Excused
  <2>3. s # request[1].session /\ s # request[1].token /\ s \notin request[1].todo
    BY <2>1 DEF Unsettled
  <2>4. request[1].at = "revoke_data" => NextToRevoke(request[1]) \in request[1].todo
    <3>1. request[1].at = "revoke_data" => request[1].todo # {}
      BY <2>1 DEF Typed, Sound, Sounds
    <3> QED BY <2>1, <3>1, RevokedTyped DEF Revokes
  <2>5. s \notin InWork(request[1])
    BY <2>3, <2>4 DEF InWork
  <2> QED BY <2>1, <2>2, <2>5 DEF Fit, Fits
<1> QED BY <1>1, <1>2 DEF TablesAgree, Typed

LEMMA IdentityHolds == Spec => []IdentityInv
<1>1. Init => IdentityInv
  BY InitTyped, ProvenInit, SignInit, UsesInit, GuessInit, CodesInit, DeletedInit, MatchInit DEF IdentityInv
<1>2. IdentityInv /\ [Next]_vars => IdentityInv'
  BY StepTyped, ProvenStep, SignStep, UsesStep, GuessStep, CodesStep, DeletedStep, MatchStep DEF IdentityInv
<1> QED BY <1>1, <1>2, PTL DEF Spec

(* Whoever has a verified address has shown to read its mail, whatever     *)
(* updates of the row (SqlUserStore.Update) and old tokens cross with the  *)
(* verification (VerifyEmail), for any number of requests at once.         *)
THEOREM VerifiedAddressesAreProven == Spec => []VerifiedWasProven
<1>1. IdentityInv => VerifiedWasProven
  BY DEF IdentityInv, ProvenInv, VerifiedWasProven
<1> QED BY <1>1, IdentityHolds, PTL

(* Wrong passwords are counted wherever they are asked for, up to          *)
(* MaximumLoginAttempts (checkUserLoginAttempts), one request at a time.   *)
THEOREM GuessesAreBounded == Spec => []GuessesBounded
<1>1. IdentityInv => GuessesBounded
  BY GuessesAreFew DEF IdentityInv
<1> QED BY <1>1, IdentityHolds, PTL

(* The first account, a mailed token and an authorization code serve once, *)
(* or as often as there were requests at the same time: what allows it     *)
(* (CreateNormalUser's count of users, the token, the code) goes after it. *)
THEOREM OnceIsOnce == Spec => []OnceOnly
<1>1. IdentityInv => OnceOnly
  BY OnceIsEnough DEF IdentityInv, SignInv
<1> QED BY <1>1, IdentityHolds, PTL

(* Deleted accounts have no session left (RevokeAllSessions), and the      *)
(* access tokens of OAuthAccessData and the sessions of applications go    *)
(* together, over exchange, renewal, revocation and deletion.              *)
THEOREM AccountsAndSessionsAgree == Spec => []TablesAgree
<1>1. IdentityInv => TablesAgree
  BY TablesFit DEF IdentityInv
<1> QED BY <1>1, IdentityHolds, PTL
=============================================================================
