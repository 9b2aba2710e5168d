----------------------------- MODULE TeamsProofs -----------------------------
(***************************************************************************)
(* Proofs about teams, their members and groups, for one request at a      *)
(* time, whose statements may fail and whose server may crash anywhere:    *)
(* for any users, teams, groups, tokens, limits and sequences of requests. *)
(*                                                                         *)
(* First what a step writes and that it keeps the types, for any number of *)
(* requests (the lemmas named ...Is), then the invariant: the tables fit   *)
(* together, and what the request read is still so when it writes.         *)
(***************************************************************************)
EXTENDS Teams, FiniteSetTheorems, TLAPS

(* What a request carries in each of its phases.                           *)
Entering == {"create", "signup", "join", "insert", "count", "fill", "rejoin"}
Leaving == {"groups", "leave"}
Granting == {"group_save", "group_admin", "group_add", "group_type"}
Grouped == Granting \cup {"group_update", "group_delete", "group_remove"}
OfUser == Entering \cup Leaving \cup Granting \cup {"type", "group_remove"}
Rewriting == {"update", "mark"}

Sound(r) ==
  /\ r.at # "idle" => r.team \in Team
  /\ r.at \in OfUser => r.user \in User
  /\ r.at \in Grouped => r.group \in Group /\ r.team = TeamOf[r.group]
  /\ r.at \in Granting => r.type \in {"normal", "admin"}
  /\ "spend" \in {r.at, r.then} => r.token \in Token
  /\ r.then \in {"idle", "spend", "erase"} /\ (r.at # "flush" => r.then = "idle")

Typed == TypeOK /\ \A pr \in Proc : Sound(request[pr])

LEMMA IdleTyped == Idle \in Request /\ Sound(Idle)
BY TeamStoreAssumption
   DEF Idle, Request, Phase, NoMember, MemberRow, MemberType, NoTeam, TeamRow,
       Sound, OfUser, Entering, Leaving, Granting, Grouped

LEMMA IdleFields ==
  /\ Idle.at = "idle" /\ Idle.team = None /\ Idle.user = None /\ Idle.group = None
  /\ Idle.token = None /\ Idle.type = "" /\ Idle.count = 0 /\ Idle.todo = {} /\ Idle.then = "idle"
BY DEF Idle

LEMMA Rows ==
  /\ NoMember \in MemberRow /\ NoMember.status = "none" /\ NoTeam \in TeamRow /\ NoTeam.status = "none"
BY DEF NoMember, MemberRow, MemberType, NoTeam, TeamRow

LEMMA Current == ASSUME Typed, NEW pr \in Proc PROVE request[pr] \in Request /\ Sound(request[pr])
BY DEF Typed, TypeOK

LEMMA RowsAre ==
  ASSUME Typed
  PROVE  /\ \A t \in Team, u \in User : members[t][u] \in MemberRow
         /\ \A t \in Team : teams[t] \in TeamRow
BY DEF Typed, TypeOK

(* A step changes one request, or none.                                    *)
RequestsTyped == request' \in [Proc -> Request] /\ \A pr \in Proc : Sound(request'[pr])
Others(pr) == \A q \in Proc : q # pr => request'[q] = request[q]

LEMMA BecomesTyped ==
  ASSUME Typed, NEW pr \in Proc, NEW q \in Request, Become(pr, q), Sound(q)
  PROVE  RequestsTyped /\ request'[pr] = q /\ Others(pr)
BY DEF Become, RequestsTyped, Others, Typed, TypeOK

LEMMA FinishTyped ==
  ASSUME Typed, NEW pr \in Proc, Finish(pr)
  PROVE  RequestsTyped /\ request'[pr] = Idle /\ Others(pr)
BY IdleTyped, BecomesTyped DEF Finish

LEMMA GotoTyped ==
  ASSUME Typed, NEW pr \in Proc, NEW phase \in Phase, Goto(pr, phase),
         Sound([request[pr] EXCEPT !.at = phase])
  PROVE  RequestsTyped /\ request'[pr] = [request[pr] EXCEPT !.at = phase] /\ Others(pr)
<1>1. [request[pr] EXCEPT !.at = phase] \in Request
  BY Current DEF Request
<1> QED BY <1>1, BecomesTyped DEF Goto

LEMMA FlushTyped ==
  ASSUME Typed, NEW pr \in Proc, NEW phase \in {"idle", "spend", "erase"}, Flush(pr, phase),
         request[pr].team \in Team, phase = "spend" => request[pr].token \in Token
  PROVE  /\ RequestsTyped /\ Others(pr)
         /\ request'[pr] = [request[pr] EXCEPT !.at = "flush", !.then = phase]
<1> DEFINE q == [request[pr] EXCEPT !.at = "flush", !.then = phase]
<1>0. phase \in Phase /\ "flush" \in Phase
  BY DEF Phase
<1>1. q \in Request
  BY <1>0, Current DEF Request
<1>2. Sound(q)
  BY Current DEF Request, Sound, OfUser, Entering, Leaving, Granting, Grouped
<1> QED BY <1>1, <1>2, BecomesTyped DEF Flush

LEMMA Untouched ==
  ASSUME Typed
  PROVE  /\ UNCHANGED request => RequestsTyped
         /\ UNCHANGED served => served' \in Nat
         /\ \A pr : \A op : Accept(pr, op) => served' \in Nat
         /\ \A pr : \A phase : At(pr, phase) => served' \in Nat
BY DEF Typed, TypeOK, RequestsTyped, Accept, At

(* A request goes on and the tables stay as they are.                      *)
LEMMA QuietTyped ==
  ASSUME Typed, RequestsTyped, served' \in Nat, UNCHANGED <<tables, cachedCount, histories>>
  PROVE  Typed'
BY DEF Typed, TypeOK, RequestsTyped, tables, histories

(* What requests are when they are accepted.                               *)
LEMMA JoiningIs ==
  ASSUME NEW t \in Team, NEW u \in User, NEW k \in Token \cup {None}, NEW type \in {"normal", "admin"}
  PROVE  /\ Joining(t, u, k, type) \in Request /\ Joining(t, u, k, type).at = "join"
         /\ Joining(t, u, k, type).team = t /\ Joining(t, u, k, type).user = u
         /\ Joining(t, u, k, type).token = k /\ Joining(t, u, k, type).type = type
         /\ Joining(t, u, k, type).then = "idle"
BY IdleTyped, IdleFields DEF Joining, Request, Phase, MemberType

LEMMA EnterIs ==
  ASSUME Typed, NEW pr \in Proc, NEW t \in Team, NEW u \in User, NEW k \in Token \cup {None},
         NEW type \in {"normal", "admin"}, NEW phase \in {"join", "signup"}, served' \in Nat,
         \/ Become(pr, [Joining(t, u, k, type) EXCEPT !.at = phase])
         \/ phase = "join" /\ Become(pr, Joining(t, u, k, type)),
         UNCHANGED <<tables, cachedCount, histories>>
  PROVE  LET q == request'[pr] IN
         /\ Typed' /\ Others(pr)
         /\ q.at = phase /\ q.team = t /\ q.user = u /\ q.token = k /\ q.type = type /\ q.then = "idle"
<1> DEFINE base == Joining(t, u, k, type)
           q == [base EXCEPT !.at = phase]
<1>1. /\ base \in Request /\ base.at = "join" /\ base.team = t /\ base.user = u /\ base.token = k
      /\ base.type = type /\ base.then = "idle"
  BY JoiningIs
<1>2. Become(pr, q) \/ (phase = "join" /\ Become(pr, base))
  OBVIOUS
<1> HIDE DEF base
<1>3. Become(pr, q)
  BY <1>1, <1>2 DEF Request
<1>4. /\ q \in Request /\ q.at = phase /\ q.team = t /\ q.user = u /\ q.token = k
      /\ q.type = type /\ q.then = "idle"
  BY <1>1 DEF Request, Phase
<1> HIDE DEF q
<1>5. Sound(q)
  BY <1>4 DEF Sound, OfUser, Entering, Leaving, Granting, Grouped
<1>6. RequestsTyped /\ request'[pr] = q /\ Others(pr)
  BY <1>3, <1>4, <1>5, BecomesTyped
<1> QED BY <1>4, <1>6, QuietTyped

LEMMA CreateIs ==
  ASSUME Typed, NEW pr \in Proc, NEW t \in Team, NEW u \in User, createTeam(pr, t, u)
  PROVE  LET q == request'[pr] IN
         /\ Typed' /\ Others(pr)
         /\ q.at = "create" /\ q.team = t /\ q.user = u /\ q.token = None /\ q.then = "idle"
         /\ q.teamRow = [status |-> "live", invite |-> NewId]
<1> DEFINE row == [status |-> "live", invite |-> NewId]
           base == Joining(t, u, None, "admin")
           q == [base EXCEPT !.at = "create", !.teamRow = row]
<1>1. row \in TeamRow
  BY DEF TeamRow, NewId, Typed, TypeOK
<1>2. Become(pr, q) /\ served' \in Nat /\ UNCHANGED <<tables, cachedCount, histories>>
  BY Untouched DEF createTeam
<1> HIDE DEF row
<1>3. /\ base \in Request /\ base.team = t /\ base.user = u /\ base.token = None /\ base.type = "admin"
      /\ base.then = "idle"
  BY JoiningIs
<1> HIDE DEF base
<1>4. /\ q \in Request /\ q.at = "create" /\ q.team = t /\ q.user = u /\ q.token = None /\ q.type = "admin"
      /\ q.then = "idle" /\ q.teamRow = row
  BY ZenonT(60), <1>1, <1>3 DEF Request, Phase
<1> HIDE DEF q
<1>5. Sound(q)
  BY <1>4 DEF Sound, OfUser, Entering, Leaving, Granting, Grouped
<1>6. RequestsTyped /\ request'[pr] = q /\ Others(pr)
  BY <1>2, <1>4, <1>5, BecomesTyped
<1> QED BY <1>2, <1>4, <1>6, QuietTyped DEF row

(* A member's row with another type, and that of one who leaves.           *)
Retyped(row, type) == [row EXCEPT !.type = type]
Gone(row) == [row EXCEPT !.status = "left", !.type = ""]

LEMMA TypeIs ==
  ASSUME Typed, NEW pr \in Proc, NEW actor, NEW t \in Team, NEW u \in User, NEW type \in {"normal", "admin"},
         updateTeamMemberType(pr, actor, t, u, type)
  PROVE  LET q == request'[pr] IN
         /\ Typed' /\ Others(pr)
         /\ q.at = "type" /\ q.team = t /\ q.user = u /\ q.then = "idle"
         /\ q.row = Retyped(members[t][u], type) /\ q.row.type = type
<1> DEFINE row == [members[t][u] EXCEPT !.type = type]
           q == [Idle EXCEPT !.at = "type", !.team = t, !.user = u, !.row = row]
<1>1. row \in MemberRow /\ row.type = type
  BY RowsAre DEF MemberRow, MemberType
<1>2. Become(pr, q) /\ served' \in Nat /\ UNCHANGED <<tables, cachedCount, histories>>
  BY Untouched DEF updateTeamMemberType
<1> HIDE DEF row
<1>3. q \in Request /\ q.at = "type" /\ q.team = t /\ q.user = u /\ q.then = "idle" /\ q.row = row
  BY <1>1, IdleTyped, IdleFields DEF Request, Phase
<1> HIDE DEF q
<1>4. Sound(q)
  BY <1>3 DEF Sound, OfUser, Entering, Leaving, Granting, Grouped
<1>5. RequestsTyped /\ request'[pr] = q /\ Others(pr)
  BY <1>2, <1>3, <1>4, BecomesTyped
<1> QED BY <1>1, <1>2, <1>3, <1>5, QuietTyped DEF row, Retyped

LEMMA LeavingIs ==
  ASSUME Typed, NEW pr \in Proc, NEW actor, NEW t \in Team, NEW u \in User,
         removeTeamMember(pr, actor, t, u)
  PROVE  LET q == request'[pr] IN
         /\ Typed' /\ Others(pr)
         /\ q.at = FirstToLeave(t, u) /\ q.at \in Leaving
         /\ q.team = t /\ q.user = u /\ q.then = "idle" /\ q.todo = GetGroups(t, u)
         /\ q.row = Gone(members[t][u])
<1> DEFINE row == [members[t][u] EXCEPT !.status = "left", !.type = ""]
           q == [Idle EXCEPT !.at = FirstToLeave(t, u), !.team = t, !.user = u,
                             !.todo = GetGroups(t, u), !.row = row]
<1>1. /\ row \in MemberRow /\ FirstToLeave(t, u) \in Leaving /\ FirstToLeave(t, u) \in Phase
      /\ GetGroups(t, u) \in SUBSET Group
  <2>1. row \in MemberRow
    BY RowsAre DEF MemberRow, MemberType
  <2>2. FirstToLeave(t, u) \in Leaving /\ FirstToLeave(t, u) \in Phase
    BY DEF FirstToLeave, Leaving, Phase
  <2>3. GetGroups(t, u) \in SUBSET Group
    BY DEF GetGroups, GetTeamGroups
  <2> QED BY <2>1, <2>2, <2>3
<1>2. Become(pr, q) /\ served' \in Nat /\ UNCHANGED <<tables, cachedCount, histories>>
  BY Untouched DEF removeTeamMember
<1> HIDE DEF row
<1>3. /\ q \in Request /\ q.at = FirstToLeave(t, u) /\ q.team = t /\ q.user = u /\ q.then = "idle"
      /\ q.todo = GetGroups(t, u) /\ q.row = row
  BY <1>1, IdleTyped, IdleFields DEF Request
<1> HIDE DEF q
<1>4. Sound(q)
  BY <1>1, <1>3 DEF Sound, OfUser, Entering, Leaving, Granting, Grouped
<1>5. RequestsTyped /\ request'[pr] = q /\ Others(pr)
  BY <1>2, <1>3, <1>4, BecomesTyped
<1> QED BY <1>1, <1>2, <1>3, <1>5, QuietTyped DEF row, Gone

LEMMA RewritingIs ==
  ASSUME Typed, NEW pr \in Proc, NEW t \in Team, NEW phase \in Rewriting, NEW row \in TeamRow,
         NEW op, NEW actor, Managing(pr, op, actor, t),
         Become(pr, [Idle EXCEPT !.at = phase, !.team = t, !.teamRow = row])
  PROVE  LET q == request'[pr] IN
         /\ Typed' /\ Others(pr)
         /\ q.at = phase /\ q.team = t /\ q.teamRow = row /\ q.then = "idle"
<1> DEFINE q == [Idle EXCEPT !.at = phase, !.team = t, !.teamRow = row]
<1>1. Become(pr, q) /\ served' \in Nat /\ UNCHANGED <<tables, cachedCount, histories>>
  BY Untouched DEF Managing
<1>2. phase \in Phase
  BY DEF Rewriting, Phase
<1>3. q \in Request /\ q.at = phase /\ q.team = t /\ q.teamRow = row /\ q.then = "idle" /\ q.token = None
  BY <1>2, IdleTyped, IdleFields DEF Request
<1> HIDE DEF q
<1>4. Sound(q)
  BY <1>3 DEF Sound, OfUser, Entering, Leaving, Granting, Grouped, Rewriting
<1>5. RequestsTyped /\ request'[pr] = q /\ Others(pr)
  BY <1>1, <1>3, <1>4, BecomesTyped
<1> QED BY <1>1, <1>3, <1>5, QuietTyped

LEMMA ActingIs ==
  ASSUME Typed, NEW pr \in Proc, NEW phase \in Grouped, NEW g \in Group, NEW u \in User \cup {None},
         NEW type \in MemberType, Acting(pr, phase, g, u, type), served' \in Nat,
         phase \in OfUser => u \in User, phase \in Granting => type \in {"normal", "admin"}
  PROVE  LET q == request'[pr] IN
         /\ Typed' /\ Others(pr)
         /\ q.at = phase /\ q.team = TeamOf[g] /\ q.group = g /\ q.user = u /\ q.type = type
         /\ q.then = "idle"
<1> DEFINE q == [Idle EXCEPT !.at = phase, !.team = TeamOf[g], !.group = g, !.user = u, !.type = type]
<1>1. Become(pr, q) /\ UNCHANGED <<tables, cachedCount, histories>>
  BY DEF Acting
<1>2. phase \in Phase /\ TeamOf[g] \in Team
  BY TeamStoreAssumption DEF Grouped, Granting, Phase
<1>3. /\ q \in Request /\ q.at = phase /\ q.team = TeamOf[g] /\ q.group = g /\ q.user = u
      /\ q.type = type /\ q.then = "idle"
  BY <1>2, IdleTyped, IdleFields DEF Request
<1> HIDE DEF q
<1>4. Sound(q)
  BY <1>2, <1>3 DEF Sound, Grouped, Granting
<1>5. RequestsTyped /\ request'[pr] = q /\ Others(pr)
  BY <1>1, <1>3, <1>4, BecomesTyped
<1> QED BY <1>1, <1>3, <1>5, QuietTyped

(* Steps that write.                                                       *)
LEMMA GoesOn ==
  ASSUME Typed, NEW pr \in Proc, NEW phase, Goto(pr, phase),
         \/ request[pr].at \in Entering /\ phase \in Entering
         \/ request[pr].at \in Entering /\ phase = "spend" /\ request[pr].token # None
         \/ request[pr].at = "group_save" /\ phase = "group_admin"
         \/ request[pr].at = "mark" /\ phase = "members"
  PROVE  RequestsTyped /\ request'[pr] = [request[pr] EXCEPT !.at = phase] /\ Others(pr)
<1> DEFINE r == request[pr]
           q == [r EXCEPT !.at = phase]
<1>1. phase \in Phase
  BY DEF Entering, Phase
<1>2. r \in Request /\ Sound(r)
  BY Current
<1>3. q \in Request /\ q.at = phase /\ q.team = r.team /\ q.user = r.user /\ q.group = r.group
      /\ q.type = r.type /\ q.token = r.token /\ q.then = r.then
  BY <1>1, <1>2 DEF Request
<1>4. r.token # None => r.token \in Token
  BY <1>2 DEF Request
<1>5. Become(pr, q)
  BY DEF Goto
<1> HIDE DEF q
<1>6. Sound(q)
  BY <1>2, <1>3, <1>4 DEF Sound, OfUser, Entering, Leaving, Granting, Grouped
<1>7. RequestsTyped /\ request'[pr] = q /\ Others(pr)
  BY <1>3, <1>5, <1>6, BecomesTyped
<1> QED BY <1>7 DEF q

LEMMA SaveIs ==
  ASSUME Typed, NEW pr \in Proc, Save(pr)
  PROVE  /\ Typed' /\ Others(pr) /\ request'[pr] = [request[pr] EXCEPT !.at = "join"]
         /\ request[pr] \in Request /\ request[pr].team \in Team /\ request[pr].at = "create"
<1>1. request[pr] \in Request /\ request[pr].team \in Team /\ request[pr].at = "create"
  BY Current DEF Save, At, Sound
<1>2. RequestsTyped /\ request'[pr] = [request[pr] EXCEPT !.at = "join"] /\ Others(pr)
  BY <1>1, GoesOn DEF Save, Entering
<1>3. teams' \in [Team -> TeamRow]
  BY <1>1 DEF Save, Typed, TypeOK, Request
<1> QED BY <1>1, <1>2, <1>3, Untouched DEF Save, Typed, TypeOK, RequestsTyped, histories

LEMMA SaveUserIs ==
  ASSUME Typed, NEW pr \in Proc, SaveUser(pr)
  PROVE  /\ Typed' /\ Others(pr) /\ request'[pr] = [request[pr] EXCEPT !.at = "join"]
         /\ request[pr] \in Request /\ request[pr].team \in Team /\ request[pr].user \in User
         /\ request[pr].at = "signup"
<1>1. /\ request[pr] \in Request /\ request[pr].team \in Team /\ request[pr].user \in User
      /\ request[pr].at = "signup"
  BY Current DEF SaveUser, At, Sound, OfUser, Entering
<1>2. RequestsTyped /\ request'[pr] = [request[pr] EXCEPT !.at = "join"] /\ Others(pr)
  BY <1>1, GoesOn DEF SaveUser, Entering
<1>3. users' \in [User -> UserState]
  BY DEF SaveUser, Typed, TypeOK, UserState
<1> QED BY <1>1, <1>2, <1>3, Untouched DEF SaveUser, Typed, TypeOK, RequestsTyped, histories

(* The tokens a team sends out, and that are spent.                        *)
LEMMA TokensAre ==
  ASSUME Typed, NEW pr \in Proc, NEW k \in Token, NEW t \in Team \cup {None}, served' \in Nat,
         RequestsTyped, tokens' = [tokens EXCEPT ![k] = t],
         UNCHANGED <<users, teams, members, groups, groupMembers, cachedCount, histories>>
  PROVE  Typed'
<1>1. tokens' \in [Token -> Team \cup {None}]
  BY DEF Typed, TypeOK
<1> QED BY <1>1 DEF Typed, TypeOK, RequestsTyped, histories

(* What happens to one member's row.                                       *)
Writes(t, u, row) == members' = [members EXCEPT ![t][u] = row]

LEMMA MembersAre ==
  ASSUME Typed, NEW t \in Team, NEW u \in User, NEW row \in MemberRow, served' \in Nat, RequestsTyped,
         Writes(t, u, row),
         UNCHANGED <<users, teams, groups, groupMembers, tokens, cachedCount, withdrawn, lost>>,
         admitted' \in [Token -> SUBSET User], earned' \in [Team -> [User -> Nat]]
  PROVE  /\ Typed' /\ members'[t][u] = row
         /\ \A s \in Team, v \in User : s # t \/ v # u => members'[s][v] = members[s][v]
<1>1. members \in [Team -> [User -> MemberRow]]
  BY DEF Typed, TypeOK
<1>2. members' \in [Team -> [User -> MemberRow]]
  BY <1>1 DEF Writes
<1>3. /\ members'[t][u] = row
      /\ \A s \in Team, v \in User : s # t \/ v # u => members'[s][v] = members[s][v]
  BY <1>1 DEF Writes
<1> QED BY <1>2, <1>3 DEF Typed, TypeOK, RequestsTyped

LEMMA GroupMembersAre ==
  ASSUME Typed, NEW g \in Group, NEW u \in User, NEW type \in GroupMemberState, served' \in Nat,
         RequestsTyped, SetMember(g, u, type),
         UNCHANGED <<users, teams, members, groups, tokens, cachedCount, histories>>
  PROVE  /\ Typed' /\ groupMembers'[g][u] = type
         /\ \A h \in Group, v \in User : h # g \/ v # u => groupMembers'[h][v] = groupMembers[h][v]
<1>1. groupMembers \in [Group -> [User -> GroupMemberState]]
  BY DEF Typed, TypeOK
<1>2. groupMembers' \in [Group -> [User -> GroupMemberState]]
  BY <1>1 DEF SetMember
<1>3. /\ groupMembers'[g][u] = type
      /\ \A h \in Group, v \in User : h # g \/ v # u => groupMembers'[h][v] = groupMembers[h][v]
  BY <1>1 DEF SetMember
<1> QED BY <1>2, <1>3 DEF Typed, TypeOK, RequestsTyped, histories

LEMMA GroupsAre ==
  ASSUME Typed, NEW g \in Group, NEW state \in GroupState, served' \in Nat,
         RequestsTyped, UpdateRow(g, state),
         UNCHANGED <<users, teams, members, groupMembers, tokens, cachedCount, histories>>
  PROVE  Typed' /\ groups'[g] = state /\ \A h \in Group : h # g => groups'[h] = groups[h]
<1>1. /\ groups' \in [Group -> GroupState]
      /\ groups'[g] = state /\ \A h \in Group : h # g => groups'[h] = groups[h]
  BY DEF UpdateRow, Typed, TypeOK
<1> QED BY <1>1 DEF Typed, TypeOK, RequestsTyped, histories

LEMMA AdmitIs ==
  ASSUME Typed, NEW pr \in Proc, request[pr].user \in User, Admit(request[pr])
  PROVE  /\ admitted' \in [Token -> SUBSET User]
         /\ \A k \in Token : admitted'[k] = IF request[pr].token = k THEN admitted[k] \cup {request[pr].user}
                                            ELSE admitted[k]
<1>1. request[pr].token \in Token \cup {None} /\ None \notin Token
  BY Current, TeamStoreAssumption DEF Request
<1> QED BY <1>1 DEF Admit, Typed, TypeOK

LEMMA FlushJoinIs ==
  ASSUME Typed, NEW pr \in Proc, request[pr].at \in Entering, Flush(pr, NextOf(request[pr]))
  PROVE  /\ RequestsTyped /\ Others(pr)
         /\ request'[pr] = [request[pr] EXCEPT !.at = "flush", !.then = NextOf(request[pr])]
<1>1. NextOf(request[pr]) \in {"idle", "spend", "erase"}
  BY DEF NextOf
<1>2. request[pr].team \in Team /\ NextOf(request[pr]) = "spend" => request[pr].token \in Token
  BY Current DEF NextOf, Request
<1>3. request[pr].team \in Team
  BY Current DEF Sound, Entering
<1> QED BY <1>1, <1>2, <1>3, FlushTyped

LEMMA CountIs ==
  ASSUME NEW t
  PROVE  IsFiniteSet(ActiveMembers(t)) /\ GetActiveMemberCount(t) \in Nat
<1>1. ActiveMembers(t) \subseteq User
  BY DEF ActiveMembers
<1> QED BY <1>1, TeamStoreAssumption, FS_Subset, FS_CardinalityType DEF GetActiveMemberCount

LEMMA JoinIs ==
  ASSUME Typed, NEW pr \in Proc, joinUserToTeam(pr)
  PROVE  LET r == request[pr] q == request'[pr] row == members[r.team][r.user] IN
         /\ Typed' /\ Others(pr) /\ r.at = "join" /\ r.team \in Team /\ r.user \in User
         /\ UNCHANGED <<tables, cachedCount, histories, served>>
         /\ \/ row.status = "none" /\ q = [r EXCEPT !.at = "insert"]
            \/ row.status = "in" /\ q \in {Idle, [r EXCEPT !.at = "spend"]}
            \/ row.status = "left" /\ q = [r EXCEPT !.at = "count", !.row = row]
<1> DEFINE r == request[pr]
           row == members[r.team][r.user]
<1>1. r \in Request /\ Sound(r) /\ r.at = "join" /\ r.team \in Team /\ r.user \in User
  BY Current DEF joinUserToTeam, At, Sound, OfUser, Entering
<1>2. UNCHANGED <<tables, cachedCount, histories, served>> /\ served' \in Nat
  BY Untouched DEF joinUserToTeam, At
<1>3. CASE row.status = "none" /\ Goto(pr, "insert")
  <2>1. RequestsTyped /\ request'[pr] = [r EXCEPT !.at = "insert"] /\ Others(pr)
    BY <1>1, <1>3, GoesOn DEF Entering
  <2> QED BY <1>1, <1>2, <1>3, <2>1, QuietTyped
<1>4. CASE row.status = "in" /\ IF r.token = None THEN Finish(pr) ELSE Goto(pr, "spend")
  <2>1. RequestsTyped /\ request'[pr] \in {Idle, [r EXCEPT !.at = "spend"]} /\ Others(pr)
    <3>1. CASE r.token = None
      BY <1>4, <3>1, FinishTyped
    <3>2. CASE r.token # None
      <4>1. Goto(pr, "spend")
        BY <1>4, <3>2
      <4> QED BY <1>1, <3>2, <4>1, GoesOn DEF Entering
    <3> QED BY <3>1, <3>2
  <2> QED BY <1>1, <1>2, <1>4, <2>1, QuietTyped
<1>5. CASE row.status = "left" /\ Become(pr, [r EXCEPT !.at = "count", !.row = row])
  <2> DEFINE q == [r EXCEPT !.at = "count", !.row = row]
  <2>1. row \in MemberRow
    BY <1>1, RowsAre
  <2>2. Become(pr, q)
    BY <1>5
  <2> HIDE DEF row
  <2>3. /\ q \in Request /\ q.at = "count" /\ q.team = r.team /\ q.user = r.user /\ q.token = r.token
        /\ q.then = r.then
    BY <1>1, <2>1 DEF Request, Phase
  <2> HIDE DEF q
  <2>4. Sound(q)
    BY <1>1, <2>3 DEF Sound, OfUser, Entering, Leaving, Granting, Grouped
  <2>5. RequestsTyped /\ request'[pr] = q /\ Others(pr)
    BY <2>2, <2>3, <2>4, BecomesTyped
  <2> QED BY <1>1, <1>2, <1>5, <2>5, QuietTyped DEF q, row
<1> QED BY <1>3, <1>4, <1>5 DEF joinUserToTeam

LEMMA EnteringIs ==
  ASSUME Typed, NEW pr \in Proc, request[pr].at \in Entering
  PROVE  /\ request[pr] \in Request /\ request[pr].team \in Team /\ request[pr].user \in User
         /\ request[pr].type \in MemberType
         /\ members[request[pr].team][request[pr].user] \in MemberRow /\ request[pr].then = "idle"
<1>1. /\ request[pr] \in Request /\ request[pr].team \in Team /\ request[pr].user \in User
      /\ request[pr].type \in MemberType /\ request[pr].then = "idle"
  BY Current DEF Sound, OfUser, Entering, Request
<1> QED BY <1>1, RowsAre

LEMMA SaveMemberIs ==
  ASSUME Typed, NEW pr \in Proc, SaveMember(pr)
  PROVE  LET r == request[pr] IN
         /\ Typed' /\ Others(pr) /\ r.at = "insert" /\ UNCHANGED served
         /\ \/ request'[pr] = Idle /\ UNCHANGED <<tables, cachedCount, histories>>
            \/ /\ request'[pr] = [r EXCEPT !.at = "flush", !.then = NextOf(r)]
               /\ members[r.team][r.user].status = "none" /\ HasRoom(r.team) /\ Admit(r)
               /\ members'[r.team][r.user] = [status |-> "in", type |-> r.type, points |-> 0]
               /\ \A s \in Team, v \in User : s # r.team \/ v # r.user => members'[s][v] = members[s][v]
               /\ UNCHANGED <<users, teams, groups, groupMembers, tokens, cachedCount,
                              withdrawn, earned, lost>>
<1> DEFINE r == request[pr]
           row == [status |-> "in", type |-> r.type, points |-> 0]
<1>1. r.at = "insert" /\ r.at \in Entering /\ UNCHANGED served /\ served' \in Nat
  BY Untouched DEF SaveMember, At, Entering
<1>2. r.team \in Team /\ r.user \in User /\ row \in MemberRow
  BY <1>1, EnteringIs DEF MemberRow, MemberType
<1>3. CASE ~(members[r.team][r.user].status = "none" /\ HasRoom(r.team))
  <2>1. Finish(pr) /\ UNCHANGED <<tables, cachedCount, histories>>
    BY <1>3 DEF SaveMember, Reject
  <2> QED BY <1>1, <2>1, FinishTyped, QuietTyped
<1>4. CASE members[r.team][r.user].status = "none" /\ HasRoom(r.team)
  <2>1. /\ Writes(r.team, r.user, row)
        /\ Admit(r) /\ Flush(pr, NextOf(r))
        /\ UNCHANGED <<users, teams, groups, groupMembers, tokens, cachedCount,
                       withdrawn, earned, lost>>
    BY <1>4 DEF SaveMember, Writes
  <2> HIDE DEF row
  <2>2. RequestsTyped /\ Others(pr) /\ request'[pr] = [r EXCEPT !.at = "flush", !.then = NextOf(r)]
    BY <1>1, <2>1, FlushJoinIs
  <2>3. admitted' \in [Token -> SUBSET User]
    BY <1>2, <2>1, AdmitIs
  <2>4. earned' \in [Team -> [User -> Nat]]
    BY <2>1 DEF Typed, TypeOK
  <2>5. /\ Typed' /\ members'[r.team][r.user] = row
        /\ \A s \in Team, v \in User : s # r.team \/ v # r.user => members'[s][v] = members[s][v]
    BY <1>1, <1>2, <2>1, <2>2, <2>3, <2>4, MembersAre
  <2> QED BY <1>1, <1>4, <2>1, <2>2, <2>5 DEF row
<1> QED BY <1>3, <1>4

LEMMA CacheReadIs ==
  ASSUME Typed, NEW pr \in Proc, CachedActiveMemberCount(pr)
  PROVE  LET r == request[pr] q == request'[pr] IN
         /\ Typed' /\ Others(pr) /\ r.at = "count" /\ UNCHANGED <<tables, cachedCount, histories, served>>
         /\ q.at \in {"fill", "rejoin"} /\ q.team = r.team /\ q.user = r.user /\ q.row = r.row
         /\ q.type = r.type /\ q.token = r.token /\ q.then = r.then
         /\ IF cachedCount[r.team] # None THEN q.count = cachedCount[r.team]
                                          ELSE q.count = GetActiveMemberCount(r.team)
<1> DEFINE r == request[pr]
           hit == cachedCount[r.team] # None
           n == IF hit THEN cachedCount[r.team] ELSE GetActiveMemberCount(r.team)
           phase == IF hit THEN "rejoin" ELSE "fill"
           q == [r EXCEPT !.count = n, !.at = phase]
<1>1. r.at = "count" /\ r.at \in Entering /\ UNCHANGED <<tables, cachedCount, histories, served>> /\ served' \in Nat
  BY Untouched DEF CachedActiveMemberCount, At, Entering
<1>2. r \in Request /\ r.team \in Team /\ r.user \in User /\ r.then = "idle"
  BY <1>1, EnteringIs
<1>3. n \in Nat /\ phase \in {"fill", "rejoin"}
  <2>1. cachedCount[r.team] \in Nat \cup {None}
    BY <1>2 DEF Typed, TypeOK
  <2> QED BY <2>1, CountIs
<1>4. Become(pr, q)
  BY DEF CachedActiveMemberCount
<1>5. IF cachedCount[r.team] # None THEN n = cachedCount[r.team] ELSE n = GetActiveMemberCount(r.team)
  OBVIOUS
<1> HIDE DEF n, phase, hit
<1>6. /\ q \in Request /\ q.at = phase /\ q.team = r.team /\ q.user = r.user /\ q.row = r.row
      /\ q.type = r.type /\ q.token = r.token /\ q.then = r.then /\ q.count = n
  BY <1>2, <1>3 DEF Request, Phase
<1> HIDE DEF q
<1>7. Sound(q)
  BY <1>2, <1>3, <1>6 DEF Sound, OfUser, Entering, Leaving, Granting, Grouped
<1>8. RequestsTyped /\ request'[pr] = q /\ Others(pr)
  BY <1>4, <1>6, <1>7, BecomesTyped
<1> QED BY <1>1, <1>3, <1>5, <1>6, <1>8, QuietTyped

LEMMA CacheWriteIs ==
  ASSUME Typed, NEW pr \in Proc, addToCache(pr)
  PROVE  LET r == request[pr] IN
         /\ Typed' /\ Others(pr) /\ r.at = "fill" /\ UNCHANGED <<tables, histories, served>>
         /\ request'[pr] = [r EXCEPT !.at = "rejoin"]
         /\ cachedCount'[r.team] \in {r.count, cachedCount[r.team]}
         /\ \A t \in Team : t # r.team => cachedCount'[t] = cachedCount[t]
<1> DEFINE r == request[pr]
<1>1. r.at = "fill" /\ r.at \in Entering /\ UNCHANGED <<tables, histories, served>> /\ served' \in Nat
  BY Untouched DEF addToCache, At, Entering
<1>2. r \in Request /\ r.team \in Team /\ r.count \in Nat
  BY <1>1, EnteringIs DEF Request
<1>3. RequestsTyped /\ request'[pr] = [r EXCEPT !.at = "rejoin"] /\ Others(pr)
  BY <1>1, GoesOn DEF addToCache, Entering
<1>4. /\ cachedCount' \in [Team -> Nat \cup {None}]
      /\ cachedCount'[r.team] \in {r.count, cachedCount[r.team]}
      /\ \A t \in Team : t # r.team => cachedCount'[t] = cachedCount[t]
  BY <1>2 DEF addToCache, Typed, TypeOK
<1>5. Typed'
  BY <1>1, <1>3, <1>4 DEF Typed, TypeOK, RequestsTyped, tables, histories
<1> QED BY <1>1, <1>3, <1>4, <1>5

LEMMA RejoinIs ==
  ASSUME Typed, NEW pr \in Proc, RejoinTeam(pr)
  PROVE  LET r == request[pr] IN
         /\ Typed' /\ Others(pr) /\ r.at = "rejoin" /\ UNCHANGED served
         /\ \/ request'[pr] = Idle /\ UNCHANGED <<tables, cachedCount, histories>>
            \/ /\ request'[pr] = [r EXCEPT !.at = "flush", !.then = NextOf(r)]
               /\ r.count < MaxUsersPerTeam /\ Admit(r)
               /\ members'[r.team][r.user] = Rejoined(r)
               /\ \A s \in Team, v \in User : s # r.team \/ v # r.user => members'[s][v] = members[s][v]
               /\ UNCHANGED <<users, teams, groups, groupMembers, tokens, cachedCount,
                              withdrawn, earned, lost>>
<1> DEFINE r == request[pr]
<1>1. r.at = "rejoin" /\ r.at \in Entering /\ UNCHANGED served /\ served' \in Nat
  BY Untouched DEF RejoinTeam, At, Entering
<1>2. r.team \in Team /\ r.user \in User /\ Rejoined(r) \in MemberRow
  BY <1>1, EnteringIs DEF MemberRow, MemberType, Rejoined, Request
<1>3. CASE Reject(pr)
  <2>1. Finish(pr) /\ UNCHANGED <<tables, cachedCount, histories>>
    BY <1>3 DEF Reject
  <2> QED BY <1>1, <2>1, FinishTyped, QuietTyped
<1>4. CASE /\ r.count < MaxUsersPerTeam
           /\ UpdateMember(r.team, r.user, Rejoined(r))
           /\ Admit(r) /\ Flush(pr, NextOf(r))
           /\ UNCHANGED <<users, teams, groups, groupMembers, tokens, cachedCount,
                          withdrawn, earned, lost>>
  <2>1. Writes(r.team, r.user, Rejoined(r))
    BY <1>4 DEF UpdateMember, Writes
  <2>2. RequestsTyped /\ Others(pr) /\ request'[pr] = [r EXCEPT !.at = "flush", !.then = NextOf(r)]
    BY <1>1, <1>4, FlushJoinIs
  <2>3. admitted' \in [Token -> SUBSET User]
    BY <1>2, <1>4, AdmitIs
  <2>4. earned' \in [Team -> [User -> Nat]]
    BY <1>4 DEF Typed, TypeOK
  <2>5. /\ Typed' /\ members'[r.team][r.user] = Rejoined(r)
        /\ \A s \in Team, v \in User : s # r.team \/ v # r.user => members'[s][v] = members[s][v]
    BY <1>1, <1>2, <1>4, <2>1, <2>2, <2>3, <2>4, MembersAre
  <2> QED BY <1>1, <1>4, <2>1, <2>2, <2>5
<1> QED BY <1>3, <1>4 DEF RejoinTeam

LEMMA SpendIs ==
  ASSUME Typed, NEW pr \in Proc, DeleteToken(pr)
  PROVE  /\ Typed' /\ Others(pr) /\ request[pr].at = "spend" /\ request[pr].token \in Token
         /\ request'[pr] = Idle /\ tokens' = [tokens EXCEPT ![request[pr].token] = None]
         /\ UNCHANGED <<users, teams, members, groups, groupMembers, cachedCount, histories, served>>
<1>1. request[pr].at = "spend" /\ request[pr].token \in Token
  BY Current DEF DeleteToken, At, Sound
<1>2. RequestsTyped /\ request'[pr] = Idle /\ Others(pr)
  BY FinishTyped DEF DeleteToken
<1>3. served' \in Nat /\ UNCHANGED served
  BY Untouched DEF DeleteToken, At
<1>4. tokens' \in [Token -> Team \cup {None}]
  BY <1>1 DEF DeleteToken, Typed, TypeOK
<1>5. Typed'
  BY <1>2, <1>3, <1>4 DEF DeleteToken, Typed, TypeOK, RequestsTyped, histories
<1> QED BY <1>1, <1>2, <1>3, <1>5 DEF DeleteToken

LEMMA WriteMemberIs ==
  ASSUME Typed, NEW pr \in Proc, NEW phase \in {"type", "leave"}, WriteMember(pr, phase)
  PROVE  LET r == request[pr] IN
         /\ Typed' /\ Others(pr) /\ r.at = phase /\ UNCHANGED served /\ r.team \in Team /\ r.user \in User
         /\ \/ request'[pr] = Idle /\ UNCHANGED <<tables, cachedCount, histories>>
            \/ /\ request'[pr] = [r EXCEPT !.at = "flush", !.then = "idle"]
               /\ members'[r.team][r.user] = r.row
               /\ \A s \in Team, v \in User : s # r.team \/ v # r.user => members'[s][v] = members[s][v]
               /\ UNCHANGED <<users, teams, groups, groupMembers, tokens, cachedCount, histories>>
<1> DEFINE r == request[pr]
<1>1. r.at = phase /\ UNCHANGED served /\ served' \in Nat
  BY Untouched DEF WriteMember, At
<1>2. r.team \in Team /\ r.user \in User /\ r.row \in MemberRow
  BY <1>1, Current DEF Sound, OfUser, Leaving, Request
<1>3. CASE Reject(pr)
  <2>1. Finish(pr) /\ UNCHANGED <<tables, cachedCount, histories>>
    BY <1>3 DEF Reject
  <2> QED BY <1>1, <1>2, <2>1, FinishTyped, QuietTyped
<1>4. CASE /\ UpdateMember(r.team, r.user, r.row)
           /\ Flush(pr, "idle")
           /\ UNCHANGED <<users, teams, groups, groupMembers, tokens, cachedCount, histories>>
  <2>1. Writes(r.team, r.user, r.row)
    BY <1>4 DEF UpdateMember, Writes
  <2>2. RequestsTyped /\ Others(pr) /\ request'[pr] = [r EXCEPT !.at = "flush", !.then = "idle"]
    BY <1>2, <1>4, FlushTyped
  <2>3. admitted' \in [Token -> SUBSET User] /\ earned' \in [Team -> [User -> Nat]]
    BY <1>4 DEF Typed, TypeOK, histories
  <2>4. UNCHANGED <<users, teams, groups, groupMembers, tokens, cachedCount, withdrawn, lost>>
    BY <1>4 DEF histories
  <2>5. /\ Typed' /\ members'[r.team][r.user] = r.row
        /\ \A s \in Team, v \in User : s # r.team \/ v # r.user => members'[s][v] = members[s][v]
    BY <1>1, <1>2, <2>1, <2>2, <2>3, <2>4, MembersAre
  <2> QED BY <1>1, <1>2, <1>4, <2>2, <2>5
<1> QED BY <1>3, <1>4 DEF WriteMember

LEMMA LeaveGroupIs ==
  ASSUME Typed, NEW pr \in Proc, LeaveTeam(pr)
  PROVE  LET r == request[pr] q == request'[pr] IN
         /\ Typed' /\ Others(pr) /\ r.at = "groups" /\ r.team \in Team /\ r.user \in User
         /\ UNCHANGED <<users, teams, members, groups, tokens, cachedCount, histories, served>>
         /\ \E g \in r.todo :
              /\ g \in Group /\ groupMembers'[g][r.user] = "none"
              /\ \A h \in Group, v \in User : h # g \/ v # r.user => groupMembers'[h][v] = groupMembers[h][v]
              /\ q.todo = r.todo \ {g} /\ q.at = (IF r.todo = {g} THEN "leave" ELSE "groups")
              /\ q.team = r.team /\ q.user = r.user /\ q.row = r.row /\ q.then = r.then
              /\ q.token = r.token
<1> DEFINE r == request[pr]
<1>1. /\ r \in Request /\ Sound(r) /\ r.at = "groups" /\ r.team \in Team /\ r.user \in User
      /\ r.then = "idle" /\ r.todo \subseteq Group
  BY Current DEF LeaveTeam, At, Sound, OfUser, Leaving, Request
<1>2. PICK g \in r.todo :
        /\ SetMember(g, r.user, "none")
        /\ Become(pr, [r EXCEPT !.todo = @ \ {g}, !.at = IF r.todo = {g} THEN "leave" ELSE "groups"])
  BY DEF LeaveTeam, SetMember
<1> DEFINE phase == IF r.todo = {g} THEN "leave" ELSE "groups"
           left == r.todo \ {g}
           q == [r EXCEPT !.todo = left, !.at = phase]
<1>3. UNCHANGED <<users, teams, members, groups, tokens, cachedCount, histories, served>> /\ served' \in Nat
  BY Untouched DEF LeaveTeam, At
<1>4. phase \in {"leave", "groups"} /\ phase = (IF r.todo = {g} THEN "leave" ELSE "groups")
      /\ left \subseteq Group /\ left = r.todo \ {g} /\ Become(pr, q)
  BY <1>1, <1>2
<1> HIDE DEF phase, left
<1>5. /\ q \in Request /\ q.at = phase /\ q.todo = left /\ q.team = r.team /\ q.user = r.user
      /\ q.row = r.row /\ q.then = r.then /\ q.token = r.token
  BY ZenonT(60), <1>1, <1>4 DEF Request, Phase
<1> HIDE DEF q
<1>6. Sound(q)
  BY <1>1, <1>4, <1>5 DEF Sound, OfUser, Entering, Leaving, Granting, Grouped
<1>7. RequestsTyped /\ request'[pr] = q /\ Others(pr)
  BY <1>4, <1>5, <1>6, BecomesTyped
<1>8. g \in Group /\ "none" \in GroupMemberState
  BY <1>1 DEF GroupMemberState
<1>9. /\ Typed' /\ groupMembers'[g][r.user] = "none"
      /\ \A h \in Group, v \in User : h # g \/ v # r.user => groupMembers'[h][v] = groupMembers[h][v]
  BY <1>1, <1>2, <1>3, <1>7, <1>8, GroupMembersAre
<1> QED BY <1>1, <1>3, <1>4, <1>5, <1>7, <1>8, <1>9

LEMMA AwardIs ==
  ASSUME Typed, NEW pr \in Proc, NEW t \in Team, NEW u \in User, AwardTeamPoints(pr, t, u)
  PROVE  /\ Typed' /\ members[t][u].status = "in"
         /\ members'[t][u] = [members[t][u] EXCEPT !.points = @ + 1]
         /\ \A s \in Team, v \in User : s # t \/ v # u => members'[s][v] = members[s][v]
         /\ earned'[t][u] = earned[t][u] + 1
         /\ \A s \in Team, v \in User : s # t \/ v # u => earned'[s][v] = earned[s][v]
         /\ served' = served + 1 /\ request[pr] = Idle
         /\ UNCHANGED <<users, teams, groups, groupMembers, tokens, cachedCount, request,
                        withdrawn, admitted, lost>>
<1> DEFINE row == [members[t][u] EXCEPT !.points = @ + 1]
<1>1. row \in MemberRow
  BY RowsAre DEF MemberRow
<1>2. members' = [members EXCEPT ![t][u] = row]
  BY DEF AwardTeamPoints
<1> HIDE DEF row
<1>3. Writes(t, u, row)
  BY <1>2 DEF Writes
<1>4. /\ earned' \in [Team -> [User -> Nat]] /\ earned'[t][u] = earned[t][u] + 1
      /\ \A s \in Team, v \in User : s # t \/ v # u => earned'[s][v] = earned[s][v]
  <2>1. earned \in [Team -> [User -> Nat]] /\ earned[t][u] + 1 \in Nat
    BY DEF Typed, TypeOK
  <2> QED BY <2>1 DEF AwardTeamPoints
<1>5. /\ served' = served + 1 /\ served' \in Nat /\ request[pr] = Idle /\ members[t][u].status = "in"
      /\ UNCHANGED <<users, teams, groups, groupMembers, tokens, cachedCount, request,
                     withdrawn, admitted, lost>>
  BY Untouched DEF AwardTeamPoints, Accept
<1>6. RequestsTyped /\ admitted' \in [Token -> SUBSET User]
  BY <1>5, Untouched DEF Typed, TypeOK
<1>7. /\ Typed' /\ members'[t][u] = row
      /\ \A s \in Team, v \in User : s # t \/ v # u => members'[s][v] = members[s][v]
  BY <1>1, <1>3, <1>4, <1>5, <1>6, MembersAre
<1> QED BY <1>4, <1>5, <1>7 DEF row

LEMMA DeleteUserIs ==
  ASSUME Typed, NEW pr \in Proc, NEW u \in User, DeleteUser(pr, u)
  PROVE  /\ Typed' /\ users[u] = "live" /\ users'[u] = "deleted" /\ \A v \in User : v # u => users'[v] = users[v]
         /\ served' = served + 1 /\ request[pr] = Idle
         /\ UNCHANGED <<teams, members, groups, groupMembers, tokens, cachedCount, request, histories>>
<1>1. /\ served' = served + 1 /\ served' \in Nat /\ request[pr] = Idle /\ users[u] = "live"
      /\ UNCHANGED <<teams, members, groups, groupMembers, tokens, cachedCount, request, histories>>
  BY Untouched DEF DeleteUser, Accept
<1>2. /\ users' \in [User -> UserState] /\ users'[u] = "deleted"
      /\ \A v \in User : v # u => users'[v] = users[v]
  BY DEF DeleteUser, Typed, TypeOK, UserState
<1> QED BY <1>1, <1>2, Untouched DEF Typed, TypeOK, RequestsTyped, histories

LEMMA WriteTeamIs ==
  ASSUME Typed, NEW pr \in Proc, WriteTeam(pr)
  PROVE  LET r == request[pr] IN
         /\ Typed' /\ Others(pr) /\ r.at \in Rewriting /\ r.team \in Team /\ UNCHANGED served
         /\ \/ request'[pr] = Idle /\ UNCHANGED <<tables, cachedCount, histories>>
            \/ /\ request'[pr] = IF r.at = "mark" THEN [r EXCEPT !.at = "members"] ELSE Idle
               /\ teams[r.team].status # "none"
               /\ teams'[r.team] = r.teamRow /\ \A t \in Team : t # r.team => teams'[t] = teams[t]
               /\ withdrawn'[r.team] = IF r.teamRow.invite = teams[r.team].invite THEN withdrawn[r.team]
                                       ELSE withdrawn[r.team] \cup {teams[r.team].invite}
               /\ \A t \in Team : t # r.team => withdrawn'[t] = withdrawn[t]
               /\ UNCHANGED <<users, members, groups, groupMembers, tokens, cachedCount,
                              admitted, earned, lost>>
<1> DEFINE r == request[pr]
<1>1. /\ r \in Request /\ Sound(r) /\ r.at \in Rewriting /\ r.team \in Team /\ r.teamRow \in TeamRow
      /\ UNCHANGED served /\ served' \in Nat
  <2>1. r.at \in Rewriting /\ UNCHANGED served
    BY DEF WriteTeam, Rewriting
  <2> QED BY <2>1, Current, Untouched DEF Sound, Rewriting, Request
<1>2. CASE Reject(pr)
  <2>1. Finish(pr) /\ UNCHANGED <<tables, cachedCount, histories>>
    BY <1>2 DEF Reject
  <2> QED BY <1>1, <2>1, FinishTyped, QuietTyped
<1>3. CASE /\ Update(r.team, r.teamRow)
           /\ IF r.at = "mark" THEN Goto(pr, "members") ELSE Finish(pr)
           /\ UNCHANGED <<users, members, groups, groupMembers, tokens, cachedCount,
                          admitted, earned, lost>>
  <2>1. /\ RequestsTyped /\ Others(pr)
        /\ request'[pr] = IF r.at = "mark" THEN [r EXCEPT !.at = "members"] ELSE Idle
    <3>1. CASE r.at = "mark"
      BY <1>3, <3>1, GoesOn
    <3>2. CASE r.at # "mark"
      BY <1>3, <3>2, FinishTyped
    <3> QED BY <3>1, <3>2
  <2>2. /\ teams' \in [Team -> TeamRow] /\ teams[r.team].status # "none"
        /\ teams'[r.team] = r.teamRow /\ \A t \in Team : t # r.team => teams'[t] = teams[t]
    BY <1>1, <1>3 DEF Update, Typed, TypeOK
  <2>3. /\ withdrawn' \in [Team -> SUBSET Nat]
        /\ withdrawn'[r.team] = IF r.teamRow.invite = teams[r.team].invite THEN withdrawn[r.team]
                                       ELSE withdrawn[r.team] \cup {teams[r.team].invite}
        /\ \A t \in Team : t # r.team => withdrawn'[t] = withdrawn[t]
    <3>1. teams[r.team].invite \in Nat /\ withdrawn \in [Team -> SUBSET Nat]
      BY <1>1, RowsAre DEF TeamRow, Typed, TypeOK
    <3> QED BY <1>1, <1>3, <3>1 DEF Update
  <2>4. Typed'
    BY <1>1, <1>3, <2>1, <2>2, <2>3 DEF Typed, TypeOK, RequestsTyped
  <2> QED BY <1>1, <1>3, <2>1, <2>2, <2>3, <2>4
<1> QED BY <1>2, <1>3 DEF WriteTeam

LEMMA RemoveAllIs ==
  ASSUME Typed, NEW pr \in Proc, RemoveAllMembersByTeam(pr)
  PROVE  LET r == request[pr] IN
         /\ Typed' /\ Others(pr) /\ r.at = "members" /\ r.team \in Team /\ UNCHANGED served
         /\ request'[pr] = [r EXCEPT !.at = "flush", !.then = "erase"]
         /\ \A u \in User : members'[r.team][u] = NoMember /\ earned'[r.team][u] = 0
         /\ \A t \in Team : t # r.team => members'[t] = members[t] /\ earned'[t] = earned[t]
         /\ UNCHANGED <<users, teams, groups, groupMembers, tokens, cachedCount, withdrawn,
                        admitted, lost>>
<1> DEFINE r == request[pr]
<1>1. r.at = "members" /\ r.team \in Team /\ UNCHANGED served /\ served' \in Nat
  BY Current, Untouched DEF RemoveAllMembersByTeam, At, Sound
<1>2. RequestsTyped /\ Others(pr) /\ request'[pr] = [r EXCEPT !.at = "flush", !.then = "erase"]
  BY <1>1, FlushTyped DEF RemoveAllMembersByTeam
<1>3. /\ members' \in [Team -> [User -> MemberRow]]
      /\ \A u \in User : members'[r.team][u] = NoMember
      /\ \A t \in Team : t # r.team => members'[t] = members[t]
  <2> DEFINE none == [u \in User |-> NoMember]
  <2>1. none \in [User -> MemberRow] /\ \A u \in User : none[u] = NoMember
    BY Rows
  <2>2. members' = [members EXCEPT ![r.team] = none]
    BY DEF RemoveAllMembersByTeam
  <2> HIDE DEF none
  <2> QED BY <1>1, <2>1, <2>2 DEF Typed, TypeOK
<1>4. /\ earned' \in [Team -> [User -> Nat]]
      /\ \A u \in User : earned'[r.team][u] = 0
      /\ \A t \in Team : t # r.team => earned'[t] = earned[t]
  <2> DEFINE none == [u \in User |-> 0]
  <2>1. none \in [User -> Nat] /\ \A u \in User : none[u] = 0
    OBVIOUS
  <2>2. earned' = [earned EXCEPT ![r.team] = none]
    BY DEF RemoveAllMembersByTeam
  <2> HIDE DEF none
  <2> QED BY <1>1, <2>1, <2>2 DEF Typed, TypeOK
<1>5. UNCHANGED <<users, teams, groups, groupMembers, tokens, cachedCount, withdrawn, admitted, lost>>
  BY DEF RemoveAllMembersByTeam
<1>6. Typed'
  BY <1>1, <1>2, <1>3, <1>4, <1>5 DEF Typed, TypeOK, RequestsTyped
<1> QED BY <1>1, <1>2, <1>3, <1>4, <1>5, <1>6

LEMMA EraseIs ==
  ASSUME Typed, NEW pr \in Proc, PermanentDelete(pr)
  PROVE  LET r == request[pr] IN
         /\ Typed' /\ Others(pr) /\ r.at = "erase" /\ r.team \in Team /\ UNCHANGED served
         /\ request'[pr] = [r EXCEPT !.at = "flush", !.then = "idle"]
         /\ teams'[r.team] = NoTeam /\ \A t \in Team : t # r.team => teams'[t] = teams[t]
         /\ withdrawn'[r.team] = withdrawn[r.team] \cup {teams[r.team].invite}
         /\ \A t \in Team : t # r.team => withdrawn'[t] = withdrawn[t]
         /\ UNCHANGED <<users, members, groups, groupMembers, tokens, cachedCount, admitted, earned, lost>>
<1> DEFINE r == request[pr]
<1>1. r.at = "erase" /\ r.team \in Team /\ UNCHANGED served /\ served' \in Nat
  BY Current, Untouched DEF PermanentDelete, At, Sound
<1>2. RequestsTyped /\ Others(pr) /\ request'[pr] = [r EXCEPT !.at = "flush", !.then = "idle"]
  BY <1>1, FlushTyped DEF PermanentDelete
<1>3. /\ teams' \in [Team -> TeamRow]
      /\ teams'[r.team] = NoTeam /\ \A t \in Team : t # r.team => teams'[t] = teams[t]
  BY <1>1, Rows DEF PermanentDelete, Typed, TypeOK
<1>4. /\ withdrawn' \in [Team -> SUBSET Nat]
      /\ withdrawn'[r.team] = withdrawn[r.team] \cup {teams[r.team].invite}
      /\ \A t \in Team : t # r.team => withdrawn'[t] = withdrawn[t]
  <2>1. teams[r.team].invite \in Nat /\ withdrawn \in [Team -> SUBSET Nat]
    BY <1>1, RowsAre DEF TeamRow, Typed, TypeOK
  <2> QED BY <1>1, <2>1 DEF PermanentDelete
<1>5. UNCHANGED <<users, members, groups, groupMembers, tokens, cachedCount, admitted, earned, lost>>
  BY DEF PermanentDelete
<1>6. Typed'
  BY <1>1, <1>2, <1>3, <1>4, <1>5 DEF Typed, TypeOK, RequestsTyped
<1> QED BY <1>1, <1>2, <1>3, <1>4, <1>5, <1>6

LEMMA FlushIs ==
  ASSUME Typed, NEW pr \in Proc, InvalidateMemberCount(pr)
  PROVE  LET r == request[pr] q == request'[pr] IN
         /\ Typed' /\ Others(pr) /\ r.at = "flush" /\ r.team \in Team /\ UNCHANGED served
         /\ \/ r.then = "idle" /\ q = Idle
            \/ r.then \in {"spend", "erase"} /\ q = [r EXCEPT !.at = r.then, !.then = "idle"]
         /\ \/ cachedCount'[r.team] = None /\ UNCHANGED lost
            \/ lost' = lost \cup {r.team} /\ UNCHANGED cachedCount
         /\ \A t \in Team : t # r.team => cachedCount'[t] = cachedCount[t]
         /\ UNCHANGED <<tables, withdrawn, admitted, earned>>
<1> DEFINE r == request[pr]
           later == [r EXCEPT !.at = r.then, !.then = "idle"]
           q == IF r.then = "idle" THEN Idle ELSE later
<1>1. /\ r \in Request /\ Sound(r) /\ r.at = "flush" /\ r.team \in Team /\ UNCHANGED served /\ served' \in Nat
      /\ r.then \in {"idle", "spend", "erase"}
  BY Current, Untouched DEF InvalidateMemberCount, At, Sound
<1>2. r.then # "idle" => later \in Request /\ Sound(later)
  <2>1. r.then \in Phase /\ "idle" \in Phase
    BY <1>1 DEF Request, Phase
  <2>2. later \in Request /\ later.at = r.then /\ later.then = "idle" /\ later.team = r.team /\ later.token = r.token
    BY <1>1, <2>1 DEF Request
  <2> HIDE DEF later
  <2> QED BY <1>1, <2>2 DEF Sound, OfUser, Entering, Leaving, Granting, Grouped
<1>3. Become(pr, q)
  BY DEF InvalidateMemberCount
<1> HIDE DEF later
<1>4. q \in Request /\ Sound(q)
  BY <1>2, IdleTyped
<1>5. RequestsTyped /\ Others(pr) /\ request'[pr] = q
  BY <1>3, <1>4, BecomesTyped
<1>6. /\ \/ cachedCount' = [cachedCount EXCEPT ![r.team] = None] /\ UNCHANGED lost
         \/ lost' = lost \cup {r.team} /\ UNCHANGED cachedCount
      /\ UNCHANGED <<tables, withdrawn, admitted, earned>>
  BY DEF InvalidateMemberCount
<1>7. /\ \/ cachedCount'[r.team] = None /\ UNCHANGED lost
         \/ lost' = lost \cup {r.team} /\ UNCHANGED cachedCount
      /\ \A t \in Team : t # r.team => cachedCount'[t] = cachedCount[t]
      /\ cachedCount' \in [Team -> Nat \cup {None}] /\ lost' \subseteq Team \cup Token
  BY <1>1, <1>6 DEF Typed, TypeOK
<1>8. Typed'
  BY <1>1, <1>5, <1>6, <1>7 DEF Typed, TypeOK, RequestsTyped, tables
<1> QED BY <1>1, <1>5, <1>6, <1>7, <1>8 DEF later

LEMMA FaultIs ==
  ASSUME Typed, NEW pr \in Proc, Fault(pr)
  PROVE  LET r == request[pr] IN
         /\ Typed' /\ Others(pr) /\ request'[pr] = Idle /\ lost \subseteq lost'
         /\ r.at = "flush" => r.team \in lost'
         /\ "spend" \in {r.at, r.then} => r.token \in lost'
         /\ UNCHANGED <<tables, cachedCount, served, withdrawn, admitted, earned>>
<1> DEFINE r == request[pr]
<1>1. Sound(r)
  BY Current
<1>2. RequestsTyped /\ Others(pr) /\ request'[pr] = Idle
  BY FinishTyped DEF Fault
<1>3. /\ lost \subseteq lost' /\ lost' \subseteq Team \cup Token
      /\ r.at = "flush" => r.team \in lost'
      /\ "spend" \in {r.at, r.then} => r.token \in lost'
  BY <1>1 DEF Fault, Sound, Typed, TypeOK
<1>4. UNCHANGED <<tables, cachedCount, served, withdrawn, admitted, earned>>
  BY DEF Fault
<1>5. Typed'
  BY <1>2, <1>3, <1>4 DEF Typed, TypeOK, RequestsTyped, tables
<1> QED BY <1>2, <1>3, <1>4, <1>5

LEMMA SaveGroupIs ==
  ASSUME Typed, NEW pr \in Proc, SaveGroup(pr)
  PROVE  LET r == request[pr] IN
         /\ Typed' /\ Others(pr) /\ r.at = "group_save" /\ r.group \in Group
         /\ UNCHANGED <<groupMembers, rest, served>>
         /\ \/ request'[pr] = Idle /\ UNCHANGED groups
            \/ /\ request'[pr] = [r EXCEPT !.at = "group_admin"]
               /\ groups'[r.group] = "live" /\ \A h \in Group : h # r.group => groups'[h] = groups[h]
<1> DEFINE r == request[pr]
<1>1. /\ r.at = "group_save" /\ r.group \in Group /\ served' \in Nat
      /\ UNCHANGED <<groupMembers, rest, served>>
  BY Current, Untouched DEF SaveGroup, At, Sound, Grouped, Granting
<1>2. CASE UpdateRow(r.group, "live") /\ Goto(pr, "group_admin")
  <2>1. RequestsTyped /\ Others(pr) /\ request'[pr] = [r EXCEPT !.at = "group_admin"]
    BY <1>1, <1>2, GoesOn
  <2>2. "live" \in GroupState /\ UNCHANGED <<users, teams, members, groupMembers, tokens, cachedCount, histories>>
    BY <1>1 DEF GroupState, rest
  <2> QED BY <1>1, <1>2, <2>1, <2>2, GroupsAre
<1>3. CASE Finish(pr) /\ UNCHANGED groups
  <2>1. UNCHANGED <<tables, cachedCount, histories>>
    BY <1>1, <1>3 DEF rest, tables
  <2> QED BY <1>1, <1>3, <2>1, FinishTyped, QuietTyped
<1> QED BY <1>2, <1>3 DEF SaveGroup

(* The last step of a change to a group's own row.                         *)
LEMMA GroupRowIs ==
  ASSUME Typed, NEW pr \in Proc, UpdateGroup(pr) \/ DeleteGroup(pr)
  PROVE  LET r == request[pr] IN
         /\ Typed' /\ Others(pr) /\ r.at \in {"group_update", "group_delete"} /\ r.group \in Group
         /\ UNCHANGED <<groupMembers, rest, served>> /\ request'[pr] = Idle
         /\ UNCHANGED groups \/ groups'[r.group] \in {"live", "deleted"}
         /\ \A h \in Group : h # r.group => groups'[h] = groups[h]
<1> DEFINE r == request[pr]
<1>1. /\ r.at \in {"group_update", "group_delete"} /\ served' \in Nat
      /\ UNCHANGED <<groupMembers, rest, served>> /\ Finish(pr)
  BY Untouched DEF UpdateGroup, DeleteGroup, At
<1>2. r.group \in Group
  BY <1>1, Current DEF Sound, Grouped
<1>3. RequestsTyped /\ Others(pr) /\ request'[pr] = Idle
  BY <1>1, FinishTyped
<1>4. UNCHANGED groups \/ \E state \in {"live", "deleted"} : UpdateRow(r.group, state)
  BY DEF UpdateGroup, DeleteGroup
<1>5. CASE UNCHANGED groups
  <2>1. UNCHANGED <<tables, cachedCount, histories>>
    BY <1>1, <1>5 DEF rest, tables
  <2> QED BY <1>1, <1>2, <1>3, <1>5, <2>1, QuietTyped
<1>6. ASSUME NEW state \in {"live", "deleted"}, UpdateRow(r.group, state)
      PROVE  /\ Typed' /\ groups'[r.group] = state /\ \A h \in Group : h # r.group => groups'[h] = groups[h]
  <2>1. state \in GroupState /\ UNCHANGED <<users, teams, members, groupMembers, tokens, cachedCount, histories>>
    BY <1>1, <1>6 DEF GroupState, rest
  <2> QED BY <1>1, <1>2, <1>3, <1>6, <2>1, GroupsAre
<1> QED BY <1>1, <1>2, <1>3, <1>4, <1>5, <1>6

(* The last step of a change to a member of a group.                       *)
LEMMA GroupMemberIs ==
  ASSUME Typed, NEW pr \in Proc,
         CreateGroup(pr) \/ addUserToGroup(pr) \/ UpdateGroupMemberType(pr) \/ removeUserFromGroup(pr)
  PROVE  LET r == request[pr] IN
         /\ Typed' /\ Others(pr) /\ r.at \in {"group_admin", "group_add", "group_type", "group_remove"}
         /\ r.group \in Group /\ r.user \in User /\ UNCHANGED <<groups, rest, served>> /\ request'[pr] = Idle
         /\ \/ UNCHANGED groupMembers
            \/ /\ r.at \in {"group_admin", "group_add"} => groupMembers[r.group][r.user] = "none"
               /\ r.at = "group_type" => groupMembers[r.group][r.user] # "none"
               /\ r.at \in Granting => groupMembers'[r.group][r.user] \in {"normal", "admin"}
               /\ r.at = "group_type" => groupMembers'[r.group][r.user] = r.type
               /\ r.at = "group_remove" => groupMembers'[r.group][r.user] = "none"
               /\ \A h \in Group, v \in User :
                    h # r.group \/ v # r.user => groupMembers'[h][v] = groupMembers[h][v]
<1> DEFINE r == request[pr]
<1>1. /\ r.at \in {"group_admin", "group_add", "group_type", "group_remove"} /\ served' \in Nat
      /\ UNCHANGED <<groups, rest, served>> /\ Finish(pr)
  BY Untouched DEF CreateGroup, addUserToGroup, UpdateGroupMemberType, removeUserFromGroup, At
<1>2. r.group \in Group /\ r.user \in User /\ (r.at \in Granting => r.type \in {"normal", "admin"})
  BY <1>1, Current DEF Sound, Grouped, Granting, OfUser
<1>3. RequestsTyped /\ Others(pr) /\ request'[pr] = Idle
  BY <1>1, FinishTyped
<1>4. \/ UNCHANGED groupMembers
      \/ \E type \in GroupMemberState :
           /\ SetMember(r.group, r.user, type)
           /\ r.at \in {"group_admin", "group_add"} => groupMembers[r.group][r.user] = "none"
           /\ r.at = "group_type" => groupMembers[r.group][r.user] # "none" /\ type = r.type
           /\ r.at \in Granting => type \in {"normal", "admin"}
           /\ r.at = "group_remove" => type = "none"
  <2>1. CASE CreateGroup(pr)
    BY <2>1 DEF CreateGroup, At, GroupMemberState
  <2>2. CASE addUserToGroup(pr)
    BY <1>2, <2>2 DEF addUserToGroup, At, GroupMemberState, Granting
  <2>3. CASE UpdateGroupMemberType(pr)
    BY <1>2, <2>3 DEF UpdateGroupMemberType, At, GroupMemberState, Granting
  <2>4. CASE removeUserFromGroup(pr)
    BY <2>4 DEF removeUserFromGroup, At, GroupMemberState, Granting
  <2> QED BY <2>1, <2>2, <2>3, <2>4
<1>5. CASE UNCHANGED groupMembers
  <2>1. UNCHANGED <<tables, cachedCount, histories>>
    BY <1>1, <1>5 DEF rest, tables
  <2> QED BY <1>1, <1>2, <1>3, <1>5, <2>1, QuietTyped
<1>6. ASSUME NEW type \in GroupMemberState, SetMember(r.group, r.user, type)
      PROVE  /\ Typed' /\ groupMembers'[r.group][r.user] = type
             /\ \A h \in Group, v \in User :
                  h # r.group \/ v # r.user => groupMembers'[h][v] = groupMembers[h][v]
  <2>1. UNCHANGED <<users, teams, members, groups, tokens, cachedCount, histories>>
    BY <1>1 DEF rest
  <2> QED BY <1>1, <1>2, <1>3, <1>6, <2>1, GroupMembersAre
<1> QED BY <1>1, <1>2, <1>3, <1>4, <1>5, <1>6

-----------------------------------------------------------------------------
(* One request at a time.  The tables, whatever it is doing:               *)

(* whose account is not there has no rows, what no team and no group is    *)
(* has none either,                                                        *)
NoStrangers ==
  /\ \A t \in Team, u \in User : users[u] = "none" => members[t][u].status = "none"
  /\ \A g \in Group, u \in User : groups[g] = "none" => groupMembers[g][u] = "none"
  /\ \A g \in Group : teams[TeamOf[g]].status = "none" /\ withdrawn[TeamOf[g]] = {} => groups[g] = "none"

(* a limit that was kept is kept,                                          *)
Flushing(r, t) == r.at = "flush" /\ r.team = t
Counted(r) == \A t \in Team \ lost :
  /\ GetActiveMemberCount(t) <= MaxUsersPerTeam
  /\ cachedCount[t] # None /\ ~Flushing(r, t) => GetActiveMemberCount(t) <= cachedCount[t]

(* invite ids are numbered in order,                                       *)
InvitesOrdered == \A t \in Team :
  /\ teams[t].invite <= served /\ \A i \in withdrawn[t] : i <= served
  /\ teams[t].status # "none" => teams[t].invite \notin withdrawn[t]

(* who used a token is about to delete it,                                 *)
Spends(r, k) == r.token = k /\ "spend" \in {r.at, r.then}
TokensSpent(r) == \A k \in Token \ lost :
  admitted[k] = {} \/ \E u \in User : admitted[k] = {u} /\ (tokens[k] = None \/ Spends(r, k))

(* and points are awards.                                                  *)
PointsKept == \A t \in Team, u \in User :
  earned[t][u] = IF members[t][u].status = "none" THEN 0 ELSE members[t][u].points

(* What the request knows of the tables is still so when it writes.        *)
KnowsMember(r) ==
  LET row == members[r.team][r.user] IN
  /\ r.at \in Entering \ {"signup"} => users[r.user] # "none"
  /\ r.at = "signup" => users[r.user] = "none"
  /\ r.at \in {"count", "fill", "rejoin"} => r.row = row /\ row.status = "left"
  /\ r.at = "type" => r.row = Retyped(row, r.row.type) /\ row.status # "none"
  /\ r.at = "type" => \/ r.row.type = "admin" \/ r.user \notin LiveAdmins(r.team)
                      \/ \E v \in LiveAdmins(r.team) : v # r.user
  /\ r.at \in Leaving => /\ r.row = Gone(row)
                         /\ row.status # "none" /\ row.type # "admin"
KnowsCount(r) ==
  r.at \in {"fill", "rejoin"} /\ r.team \notin lost => GetActiveMemberCount(r.team) <= r.count
KnowsGroup(r) ==
  /\ r.at \in Leaving => \A g \in Group : /\ g \in r.todo => TeamOf[g] = r.team
                                          /\ TeamOf[g] = r.team /\ groupMembers[g][r.user] # "none" => g \in r.todo
  /\ r.at = "groups" => r.todo # {}
  /\ r.at = "leave" => r.todo = {}
  /\ r.at = "group_save" => groups[r.group] = "none" /\ teams[r.team].status # "none"
  /\ r.at \in Grouped \ {"group_save"} => groups[r.group] # "none"
  /\ r.at \in {"group_save", "group_admin", "group_add"} => members[r.team][r.user].status = "in"
  /\ r.at = "group_type" => \/ r.type = "admin" \/ groupMembers[r.group][r.user] # "admin"
                            \/ \E v \in GetGroupAdmins(r.group) : v # r.user
  /\ r.at = "group_remove" => groupMembers[r.group][r.user] = "normal"
KnowsTeam(r) ==
  /\ r.at = "create" => teams[r.team].status = "none" /\ withdrawn[r.team] = {}
  /\ r.at \in Rewriting => /\ teams[r.team].status # "none"
                           /\ r.teamRow.status \in {teams[r.team].status, "deleted"}
  /\ r.at = "mark" => r.teamRow.status = "deleted"
  /\ "erase" \in {r.at, r.then} \/ r.at = "members" => teams[r.team].status = "deleted"
KnowsInvite(r) ==
  /\ r.at \in {"create"} \cup Rewriting => r.teamRow.invite <= served
  /\ r.at \in Rewriting => \/ r.teamRow.invite = teams[r.team].invite
                           \/ \A i \in withdrawn[r.team] \cup {teams[r.team].invite} : i < r.teamRow.invite
KnowsToken(r) == r.at \in Entering /\ r.token \in Token \ lost => admitted[r.token] = {}

Knows(r) == KnowsMember(r) /\ KnowsCount(r) /\ KnowsGroup(r) /\ KnowsTeam(r) /\ KnowsInvite(r) /\ KnowsToken(r)

TablesKept(r) ==
  NoStrangers /\ GroupMembersAreTeamMembers /\ Counted(r) /\ InvitesOrdered /\ TokensSpent(r) /\ PointsKept

TeamInv(pr) == Typed /\ TablesKept(request[pr]) /\ Knows(request[pr])

LEMMA FewerMembers ==
  ASSUME NEW t, ActiveMembers(t)' \subseteq ActiveMembers(t)
  PROVE  GetActiveMemberCount(t)' <= GetActiveMemberCount(t) /\ GetActiveMemberCount(t)' \in Nat
BY CountIs, FS_Subset, FS_CardinalityType DEF GetActiveMemberCount

LEMMA OneMemberMore ==
  ASSUME NEW t, NEW u \in User, ActiveMembers(t)' \subseteq ActiveMembers(t) \cup {u}
  PROVE  GetActiveMemberCount(t)' <= GetActiveMemberCount(t) + 1
<1> DEFINE A == ActiveMembers(t)
           S == A \cup {u}
<1>1. IsFiniteSet(A) /\ Cardinality(A) \in Nat /\ GetActiveMemberCount(t) = Cardinality(A)
  BY CountIs DEF GetActiveMemberCount
<1>2. ActiveMembers(t)' \subseteq S /\ GetActiveMemberCount(t)' = Cardinality(ActiveMembers(t)')
  BY DEF GetActiveMemberCount
<1> HIDE DEF A
<1>3. IsFiniteSet(S) /\ Cardinality(S) = IF u \in A THEN Cardinality(A) ELSE Cardinality(A) + 1
  BY <1>1, FS_AddElement
<1> HIDE DEF S
<1>4. Cardinality(ActiveMembers(t)') <= Cardinality(S) /\ Cardinality(ActiveMembers(t)') \in Nat
  BY <1>2, <1>3, FS_Subset, FS_CardinalityType
<1> QED BY <1>1, <1>2, <1>3, <1>4

LEMMA AnotherOne ==
  ASSUME NEW S, NEW u, Cardinality(S) > 1, IsFiniteSet(S)
  PROVE  \E v \in S : v # u
<1> SUFFICES ASSUME S \subseteq {u} PROVE FALSE
  OBVIOUS
<1>1. IsFiniteSet({u}) /\ Cardinality({u}) = 1
  BY FS_Singleton
<1>2. Cardinality(S) <= 1
  BY <1>1, FS_Subset
<1> QED BY <1>2, FS_CardinalityType

LEMMA IdleKnows == ASSUME NEW pr, request'[pr] = Idle PROVE Knows(request[pr])'
BY IdleFields DEF Knows, KnowsMember, KnowsCount, KnowsGroup, KnowsTeam, KnowsInvite, KnowsToken,
                  Entering, Leaving, Rewriting, Granting, Grouped

Remain == KeepsAnAdmin /\ KeepsAGroupAdmin

(* What a step leaves alone stays as it should be.                         *)
LEMMA RowsStay ==
  ASSUME NEW pr, TeamInv(pr)
  PROVE  /\ UNCHANGED <<users, teams, members, groups, groupMembers, withdrawn>> => NoStrangers'
         /\ UNCHANGED <<teams, members, groupMembers>> => GroupMembersAreTeamMembers'
         /\ UNCHANGED <<members, earned>> => PointsKept'
BY DEF TeamInv, TablesKept, NoStrangers, GroupMembersAreTeamMembers, PointsKept

LEMMA InvitesStay ==
  ASSUME NEW pr, TeamInv(pr), UNCHANGED <<teams, withdrawn>>, served' \in {served, served + 1}
  PROVE  InvitesOrdered'
<1>1. ASSUME NEW t \in Team PROVE /\ teams[t].invite \in Nat /\ withdrawn[t] \subseteq Nat /\ served \in Nat
  BY RowsAre DEF TeamInv, Typed, TypeOK, TeamRow
<1> QED BY <1>1 DEF TeamInv, TablesKept, InvitesOrdered

LEMMA CountsStay ==
  ASSUME NEW pr, TeamInv(pr), UNCHANGED <<users, members, cachedCount>>, lost \subseteq lost',
         request[pr].at = "flush" => \/ request'[pr].at = "flush" /\ request'[pr].team = request[pr].team
                                     \/ request[pr].team \in lost'
  PROVE  Counted(request[pr])'
<1>1. \A t : GetActiveMemberCount(t)' = GetActiveMemberCount(t)
  BY DEF GetActiveMemberCount, ActiveMembers
<1> QED BY <1>1 DEF TeamInv, TablesKept, Counted, Flushing

LEMMA TokensStay ==
  ASSUME NEW pr, TeamInv(pr), UNCHANGED <<tokens, admitted>>, lost \subseteq lost',
         \A k \in Token \ lost' : Spends(request[pr], k) => Spends(request'[pr], k)
  PROVE  TokensSpent(request[pr])'
BY DEF TeamInv, TablesKept, TokensSpent, Spends

LEMMA AdminsStay ==
  ASSUME NEW pr, TeamInv(pr)
  PROVE  /\ UNCHANGED members => KeepsAnAdmin
         /\ UNCHANGED groupMembers => KeepsAGroupAdmin
BY DEF KeepsAnAdmin, KeepsAGroupAdmin, LiveAdmins, GetGroupAdmins

(* A request that is accepted, or goes on, and writes nothing.             *)
LEMMA QuietKeeps ==
  ASSUME NEW pr, TeamInv(pr), Typed', UNCHANGED <<tables, cachedCount, histories>>,
         served' \in {served, served + 1}, request[pr].at # "flush",
         \A k \in Token \ lost : Spends(request[pr], k) => Spends(request'[pr], k),
         KnowsMember(request'[pr]), KnowsCount(request'[pr]), KnowsGroup(request'[pr]),
         KnowsTeam(request'[pr]), KnowsToken(request'[pr]), KnowsInvite(request[pr])'
  PROVE  TeamInv(pr)' /\ Remain
<1>1. UNCHANGED <<users, teams, members, groups, groupMembers, tokens, cachedCount,
                  withdrawn, admitted, earned, lost>>
  BY DEF tables, histories
<1>2. TablesKept(request[pr])'
  BY <1>1, RowsStay, InvitesStay, CountsStay, TokensStay DEF TablesKept
<1>3. KnowsMember(request[pr])'
  BY <1>1 DEF KnowsMember, LiveAdmins
<1>4. KnowsCount(request[pr])'
  BY <1>1 DEF KnowsCount, GetActiveMemberCount, ActiveMembers
<1>5. KnowsGroup(request[pr])'
  BY <1>1 DEF KnowsGroup, GetGroupAdmins
<1>6. KnowsTeam(request[pr])' /\ KnowsToken(request[pr])'
  BY <1>1 DEF KnowsTeam, KnowsToken
<1> QED BY <1>1, <1>2, <1>3, <1>4, <1>5, <1>6, AdminsStay DEF TeamInv, Knows, Remain

(* A request knows nothing of what its phase has no use for.               *)
LEMMA Nothing ==
  ASSUME NEW r
  PROVE  /\ r.at \notin Entering \cup Leaving \cup {"type"} => KnowsMember(r)
         /\ r.at \notin {"fill", "rejoin"} => KnowsCount(r)
         /\ r.at \notin Leaving \cup Grouped => KnowsGroup(r)
         /\ r.at \notin {"create", "erase", "members"} \cup Rewriting /\ r.then # "erase" => KnowsTeam(r)
         /\ r.at \notin {"create"} \cup Rewriting => KnowsInvite(r)
         /\ r.at \notin Entering \/ r.token \notin Token => KnowsToken(r)
<1>1. r.at \notin Entering \cup Leaving \cup {"type"} => KnowsMember(r)
  BY DEF KnowsMember, Entering
<1>2. r.at \notin {"fill", "rejoin"} => KnowsCount(r)
  BY DEF KnowsCount
<1>3. r.at \notin Leaving \cup Grouped => KnowsGroup(r)
  BY DEF KnowsGroup, Leaving, Grouped, Granting
<1>4. r.at \notin {"create", "erase", "members"} \cup Rewriting /\ r.then # "erase" => KnowsTeam(r)
  BY DEF KnowsTeam, Rewriting
<1>5. r.at \notin {"create"} \cup Rewriting => KnowsInvite(r)
  BY DEF KnowsInvite
<1>6. r.at \notin Entering \/ r.token \notin Token => KnowsToken(r)
  BY DEF KnowsToken
<1> QED BY <1>1, <1>2, <1>3, <1>4, <1>5, <1>6

LEMMA NothingNext ==
  ASSUME NEW pr
  PROVE  LET q == request'[pr] IN
         /\ q.at \notin Entering \cup Leaving \cup {"type"} => KnowsMember(request[pr])'
         /\ q.at \notin {"fill", "rejoin"} => KnowsCount(request[pr])'
         /\ q.at \notin Leaving \cup Grouped => KnowsGroup(request[pr])'
         /\ q.at \notin {"create", "erase", "members"} \cup Rewriting /\ q.then # "erase"
              => KnowsTeam(request[pr])'
         /\ q.at \notin {"create"} \cup Rewriting => KnowsInvite(request[pr])'
         /\ q.at \notin Entering \/ q.token \notin Token => KnowsToken(request[pr])'
<1> DEFINE q == request'[pr]
<1>1. q.at \notin Entering \cup Leaving \cup {"type"} => KnowsMember(request[pr])'
  BY DEF KnowsMember, Entering
<1>2. q.at \notin {"fill", "rejoin"} => KnowsCount(request[pr])'
  BY DEF KnowsCount
<1>3. q.at \notin Leaving \cup Grouped => KnowsGroup(request[pr])'
  BY DEF KnowsGroup, Leaving, Grouped, Granting
<1>4. q.at \notin {"create", "erase", "members"} \cup Rewriting /\ q.then # "erase"
        => KnowsTeam(request[pr])'
  BY DEF KnowsTeam, Rewriting
<1>5. q.at \notin {"create"} \cup Rewriting => KnowsInvite(request[pr])'
  BY DEF KnowsInvite
<1>6. q.at \notin Entering \/ q.token \notin Token => KnowsToken(request[pr])'
  BY DEF KnowsToken
<1> QED BY <1>1, <1>2, <1>3, <1>4, <1>5, <1>6

(* Requests that are accepted.                                             *)
LEMMA NobodySpends ==
  ASSUME NEW pr, TeamInv(pr), request[pr] = Idle
  PROVE  /\ request[pr].at # "flush"
         /\ \A k \in Token : ~Spends(request[pr], k)
         /\ \A k \in Token \ lost : tokens[k] # None => admitted[k] = {}
<1>1. \A k \in Token : ~Spends(request[pr], k)
  BY IdleFields DEF Spends
<1> QED BY <1>1, IdleFields DEF TeamInv, TablesKept, TokensSpent

LEMMA EnterKeeps ==
  ASSUME NEW pr \in Proc, TeamInv(pr), request[pr] = Idle, served' = served + 1,
         NEW t \in Team, NEW u \in User, NEW k \in Token \cup {None}, NEW phase \in {"join", "signup"},
         Typed', UNCHANGED <<tables, cachedCount, histories>>,
         request'[pr].at = phase, request'[pr].team = t, request'[pr].user = u, request'[pr].token = k,
         request'[pr].then = "idle",
         phase = "join" => users[u] # "none", phase = "signup" => users[u] = "none",
         k \in Token => tokens[k] # None
  PROVE  TeamInv(pr)' /\ Remain
<1> DEFINE q == request'[pr]
<1>1. q.at \in {"join", "signup"} /\ q.then = "idle"
  OBVIOUS
<1>2. KnowsMember(q)
  BY DEF KnowsMember, Leaving
<1>3. KnowsToken(q)
  BY NobodySpends DEF KnowsToken
<1>4. KnowsCount(q) /\ KnowsGroup(q) /\ KnowsTeam(q)
  BY <1>1, Nothing DEF Rewriting, Leaving, Grouped, Granting
<1>5. KnowsInvite(request[pr])'
  BY <1>1, NothingNext DEF Rewriting
<1> HIDE DEF q
<1> QED BY <1>2, <1>3, <1>4, <1>5, NobodySpends, QuietKeeps DEF q

LEMMA NewcomersKeep ==
  ASSUME NEW pr \in Proc, TeamInv(pr), NEW u \in User,
         \/ \E t \in Team : \/ createTeam(pr, t, u) \/ AddUserToTeamByInviteId(pr, u, t)
                            \/ CreateUserWithInviteId(pr, u, t)
         \/ \E k \in Token : AddUserToTeamByToken(pr, u, k) \/ CreateUserWithToken(pr, u, k)
  PROVE  TeamInv(pr)' /\ Remain
<1> DEFINE q == request'[pr]
<1>1. Typed
  BY DEF TeamInv
<1>2. ASSUME NEW t \in Team, createTeam(pr, t, u) PROVE TeamInv(pr)' /\ Remain
  <2>1. /\ request[pr] = Idle /\ served' = served + 1 /\ users[u] = "live" /\ teams[t].status = "none"
        /\ withdrawn[t] = {} /\ UNCHANGED <<tables, cachedCount, histories>>
    BY <1>2 DEF createTeam, Accept
  <2>2. /\ Typed' /\ q.at = "create" /\ q.team = t /\ q.user = u /\ q.token = None /\ q.then = "idle"
        /\ q.teamRow.invite = served + 1
    BY <1>1, <1>2, CreateIs DEF NewId
  <2>3. served \in Nat /\ None \notin Token
    BY <1>1, TeamStoreAssumption DEF Typed, TypeOK
  <2>4. KnowsMember(q)
    BY <2>1, <2>2 DEF KnowsMember, Leaving
  <2>5. KnowsTeam(q)
    BY <2>1, <2>2 DEF KnowsTeam, Rewriting
  <2>6. KnowsInvite(request[pr])'
    BY <2>1, <2>2, <2>3 DEF KnowsInvite, Rewriting
  <2>7. KnowsCount(q) /\ KnowsGroup(q) /\ KnowsToken(q)
    BY <2>2, <2>3, Nothing DEF Leaving, Grouped, Granting
  <2> QED BY <2>1, <2>2, <2>4, <2>5, <2>6, <2>7, NobodySpends, QuietKeeps
<1>3. ASSUME NEW t \in Team, NEW k \in Token \cup {None}, NEW phase \in {"join", "signup"},
             \/ Become(pr, [Joining(t, u, k, "normal") EXCEPT !.at = phase])
             \/ phase = "join" /\ Become(pr, Joining(t, u, k, "normal")),
             UNCHANGED <<tables, cachedCount, histories>>, request[pr] = Idle, served' = served + 1,
             phase = "join" => users[u] # "none", phase = "signup" => users[u] = "none",
             k \in Token => tokens[k] # None
      PROVE  TeamInv(pr)' /\ Remain
  <2>1. served' \in Nat
    BY <1>1, <1>3 DEF Typed, TypeOK
  <2>2. Typed' /\ q.at = phase /\ q.team = t /\ q.user = u /\ q.token = k /\ q.then = "idle"
    BY ZenonT(60), <1>1, <1>3, <2>1, EnterIs
  <2> QED BY <1>3, <2>2, EnterKeeps
<1>4. ASSUME NEW t \in Team, AddUserToTeamByInviteId(pr, u, t) PROVE TeamInv(pr)' /\ Remain
  BY <1>3, <1>4, TeamStoreAssumption DEF AddUserToTeamByInviteId, Accept
<1>5. ASSUME NEW t \in Team, CreateUserWithInviteId(pr, u, t) PROVE TeamInv(pr)' /\ Remain
  BY <1>3, <1>5, TeamStoreAssumption DEF CreateUserWithInviteId, Accept
<1>6. ASSUME NEW k \in Token, tokens[k] # None PROVE tokens[k] \in Team
  BY <1>1, <1>6 DEF Typed, TypeOK
<1>7. ASSUME NEW k \in Token, AddUserToTeamByToken(pr, u, k) PROVE TeamInv(pr)' /\ Remain
  BY <1>3, <1>6, <1>7 DEF AddUserToTeamByToken, Accept
<1>8. ASSUME NEW k \in Token, CreateUserWithToken(pr, u, k) PROVE TeamInv(pr)' /\ Remain
  BY <1>3, <1>6, <1>8 DEF CreateUserWithToken, Accept
<1> QED BY <1>2, <1>4, <1>5, <1>7, <1>8

LEMMA TypeChangeKeeps ==
  ASSUME NEW pr \in Proc, TeamInv(pr), NEW actor, NEW t \in Team, NEW u \in User, NEW type \in {"normal", "admin"},
         updateTeamMemberType(pr, actor, t, u, type)
  PROVE  TeamInv(pr)' /\ Remain
<1> DEFINE q == request'[pr]
<1>1. /\ request[pr] = Idle /\ served' = served + 1 /\ UNCHANGED <<tables, cachedCount, histories>>
      /\ members[t][u].status # "none"
      /\ members[t][u].type = "admin" => Cardinality(GetMembers(t)) > 1
  BY DEF updateTeamMemberType, Accept
<1>2. /\ Typed' /\ q.at = "type" /\ q.team = t /\ q.user = u /\ q.then = "idle"
      /\ q.row = Retyped(members[t][u], type) /\ q.row.type = type
  <2>1. Typed
    BY DEF TeamInv
  <2> QED BY <2>1, TypeIs
<1>3. members[t][u].type = "admin" => \E v \in LiveAdmins(t) : v # u
  <2>1. GetMembers(t) \subseteq User /\ GetMembers(t) = LiveAdmins(t)
    BY DEF GetMembers, ActiveMembers, LiveAdmins
  <2>2. IsFiniteSet(GetMembers(t))
    BY <2>1, TeamStoreAssumption, FS_Subset
  <2> QED BY <1>1, <2>1, <2>2, AnotherOne
<1>4. u \in LiveAdmins(t) => members[t][u].type = "admin"
  BY DEF LiveAdmins
<1>5. KnowsMember(q)
  BY <1>1, <1>2, <1>3, <1>4 DEF KnowsMember, Entering, Leaving
<1>6. KnowsCount(q) /\ KnowsGroup(q) /\ KnowsTeam(q) /\ KnowsToken(q)
  BY <1>2, Nothing DEF Entering, Leaving, Rewriting, Granting, Grouped
<1>7. KnowsInvite(request[pr])'
  BY <1>2, NothingNext DEF Rewriting
<1> QED BY <1>1, <1>2, <1>5, <1>6, <1>7, NobodySpends, QuietKeeps

LEMMA GoingKeeps ==
  ASSUME NEW pr \in Proc, TeamInv(pr), NEW actor, NEW t \in Team, NEW u \in User,
         removeTeamMember(pr, actor, t, u)
  PROVE  TeamInv(pr)' /\ Remain
<1> DEFINE q == request'[pr]
<1>1. /\ request[pr] = Idle /\ served' = served + 1 /\ UNCHANGED <<tables, cachedCount, histories>>
      /\ members[t][u].status # "none" /\ members[t][u].type # "admin"
  BY DEF removeTeamMember, Accept
<1>2. /\ Typed' /\ q.at = FirstToLeave(t, u) /\ q.at \in Leaving
      /\ q.team = t /\ q.user = u /\ q.then = "idle" /\ q.todo = GetGroups(t, u)
      /\ q.row = Gone(members[t][u])
  <2>1. Typed
    BY DEF TeamInv
  <2> QED BY <2>1, LeavingIs
<1>3. KnowsMember(q)
  BY <1>1, <1>2 DEF KnowsMember, Entering, Leaving
<1>4. \A g \in Group, v \in User : groups[g] = "none" => groupMembers[g][v] = "none"
  BY DEF TeamInv, TablesKept, NoStrangers
<1>5. KnowsGroup(q)
  BY <1>2, <1>4 DEF KnowsGroup, GetGroups, GetTeamGroups, FirstToLeave, Leaving, Granting, Grouped
<1>6. KnowsCount(q) /\ KnowsTeam(q) /\ KnowsToken(q)
  BY <1>2, Nothing DEF Entering, Leaving, Rewriting
<1>7. KnowsInvite(request[pr])'
  BY <1>2, NothingNext DEF Leaving, Rewriting
<1> QED BY <1>1, <1>2, <1>3, <1>5, <1>6, <1>7, NobodySpends, QuietKeeps

LEMMA ManagingKeeps ==
  ASSUME NEW pr \in Proc, TeamInv(pr), NEW actor, NEW t \in Team,
         \/ updateTeam(pr, actor, t) \/ RegenerateTeamInviteId(pr, actor, t)
         \/ SoftDeleteTeam(pr, actor, t) \/ PermanentDeleteTeamId(pr, actor, t)
  PROVE  TeamInv(pr)' /\ Remain
<1>1. \E op : Managing(pr, op, actor, t)
  BY DEF updateTeam, RegenerateTeamInviteId, SoftDeleteTeam, PermanentDeleteTeamId
<1>2. /\ request[pr] = Idle /\ served' = served + 1 /\ teams[t].status # "none"
      /\ UNCHANGED <<tables, cachedCount, histories>>
  BY <1>1 DEF Managing, Accept
<1>3. /\ served \in Nat /\ teams[t] \in TeamRow /\ withdrawn[t] \subseteq Nat
      /\ teams[t].invite <= served /\ \A i \in withdrawn[t] : i <= served
  BY RowsAre DEF TeamInv, Typed, TypeOK, TablesKept, InvitesOrdered
<1>4. ASSUME NEW phase \in Rewriting, NEW row,
             Become(pr, [Idle EXCEPT !.at = phase, !.team = t, !.teamRow = row]),
             row \in TeamRow, row.status \in {teams[t].status, "deleted"}, phase = "mark" => row.status = "deleted",
             row.invite \in {teams[t].invite, served + 1}
      PROVE  TeamInv(pr)' /\ Remain
  <2> DEFINE q == request'[pr]
  <2>1. Typed' /\ q.at = phase /\ q.team = t /\ q.teamRow = row /\ q.then = "idle"
    BY <1>1, <1>4, RewritingIs DEF TeamInv
  <2>2. KnowsInvite(request[pr])'
    <3>1. row.invite <= served' /\ UNCHANGED <<teams, withdrawn>>
      BY <1>2, <1>3, <1>4 DEF tables, histories, TeamRow
    <3>2. row.invite = teams[t].invite \/ \A i \in withdrawn[t] \cup {teams[t].invite} : i < row.invite
      BY <1>3, <1>4 DEF TeamRow
    <3> QED BY <1>4, <2>1, <3>1, <3>2 DEF KnowsInvite, Rewriting
  <2>3. KnowsTeam(q)
    BY <1>2, <1>4, <2>1 DEF KnowsTeam, Rewriting
  <2>4. KnowsMember(q) /\ KnowsCount(q) /\ KnowsGroup(q) /\ KnowsToken(q)
    BY <2>1, Nothing DEF Rewriting, Entering, Leaving, Granting, Grouped
  <2> QED BY <1>2, <2>1, <2>2, <2>3, <2>4, NobodySpends, QuietKeeps
<1>5. CASE updateTeam(pr, actor, t)
  BY <1>3, <1>4, <1>5 DEF updateTeam, Rewriting, TeamRow
<1>6. CASE RegenerateTeamInviteId(pr, actor, t)
  <2> DEFINE row == [teams[t] EXCEPT !.invite = NewId]
  <2>1. row \in TeamRow /\ row.status = teams[t].status /\ row.invite = served + 1
    BY <1>3 DEF TeamRow, NewId
  <2>2. Become(pr, [Idle EXCEPT !.at = "update", !.team = t, !.teamRow = row])
    BY <1>6 DEF RegenerateTeamInviteId
  <2> HIDE DEF row
  <2> QED BY <1>4, <2>1, <2>2 DEF Rewriting
<1>7. ASSUME NEW phase \in Rewriting,
             Become(pr, [Idle EXCEPT !.at = phase, !.team = t, !.teamRow = [teams[t] EXCEPT !.status = "deleted"]])
      PROVE  TeamInv(pr)' /\ Remain
  <2> DEFINE row == [teams[t] EXCEPT !.status = "deleted"]
  <2>1. row \in TeamRow /\ row.status = "deleted" /\ row.invite = teams[t].invite
    BY <1>3 DEF TeamRow
  <2>2. Become(pr, [Idle EXCEPT !.at = phase, !.team = t, !.teamRow = row])
    BY <1>7
  <2> HIDE DEF row
  <2> QED BY <1>4, <2>1, <2>2
<1> QED BY <1>5, <1>6, <1>7 DEF SoftDeleteTeam, PermanentDeleteTeamId, Rewriting

LEMMA ActingKeeps ==
  ASSUME NEW pr \in Proc, TeamInv(pr), NEW phase \in Grouped, NEW g \in Group, NEW u \in User \cup {None},
         NEW type \in MemberType, Acting(pr, phase, g, u, type), NEW op, Accept(pr, op),
         phase \in OfUser => u \in User, phase \in Granting => type \in {"normal", "admin"},
         phase = "group_save" => groups[g] = "none" /\ teams[TeamOf[g]].status # "none",
         phase # "group_save" => groups[g] # "none",
         phase \in {"group_save", "group_admin", "group_add"} => members[TeamOf[g]][u].status = "in",
         phase = "group_type" => \/ type = "admin" \/ groupMembers[g][u] # "admin"
                                 \/ \E v \in GetGroupAdmins(g) : v # u,
         phase = "group_remove" => groupMembers[g][u] = "normal"
  PROVE  TeamInv(pr)' /\ Remain
<1> DEFINE q == request'[pr]
<1>1. Typed /\ served' \in Nat /\ served' = served + 1 /\ request[pr] = Idle
  BY Untouched DEF TeamInv, Accept
<1>2. UNCHANGED <<tables, cachedCount, histories>>
  BY DEF Acting
<1>3. /\ Typed' /\ q.at = phase /\ q.team = TeamOf[g] /\ q.group = g /\ q.user = u /\ q.type = type
      /\ q.then = "idle"
  BY <1>1, ActingIs
<1>4. KnowsGroup(q)
  BY <1>3 DEF KnowsGroup, Grouped, Granting, Leaving
<1>5. KnowsMember(q) /\ KnowsCount(q) /\ KnowsTeam(q) /\ KnowsToken(q)
  BY <1>3, Nothing DEF Rewriting, Entering, Leaving, Granting, Grouped
<1>6. KnowsInvite(request[pr])'
  BY <1>3, NothingNext DEF Rewriting, Granting, Grouped
<1> QED BY <1>1, <1>2, <1>3, <1>4, <1>5, <1>6, NobodySpends, QuietKeeps

LEMMA GroupingKeeps ==
  ASSUME NEW pr \in Proc, TeamInv(pr), NEW actor \in User, NEW g \in Group,
         \/ createGroup(pr, actor, g) \/ updateGroup(pr, actor, g) \/ deleteGroup(pr, actor, g)
         \/ \E u \in User :
              \/ addGroupMember(pr, actor, g, u) \/ removeGroupMember(pr, actor, g, u)
              \/ \E type \in {"normal", "admin"} : updateGroupMemberType(pr, actor, g, u, type)
  PROVE  TeamInv(pr)' /\ Remain
<1>0. /\ {"", "normal", "admin"} \subseteq MemberType
      /\ {"group_save", "group_update", "group_delete", "group_add", "group_remove"} \subseteq Grouped
      /\ "group_update" \notin OfUser \cup Granting /\ "group_delete" \notin OfUser \cup Granting
      /\ "group_remove" \notin Granting
  BY DEF MemberType, Grouped, Granting, OfUser, Entering, Leaving
<1>1. CASE createGroup(pr, actor, g)
  <2>1. /\ Acting(pr, "group_save", g, actor, "admin") /\ Accept(pr, "create_group")
        /\ groups[g] = "none" /\ teams[TeamOf[g]].status # "none"
        /\ members[TeamOf[g]][actor].status = "in"
    BY <1>1 DEF createGroup, SessionHasPermissionToTeam, GetTeamByTeamId
  <2> QED BY <1>0, <2>1, ActingKeeps
<1>2. CASE updateGroup(pr, actor, g)
  <2>1. Acting(pr, "group_update", g, None, "") /\ Accept(pr, "update_group") /\ groups[g] = "live"
    BY <1>2 DEF updateGroup
  <2> QED BY <1>0, <2>1, ActingKeeps
<1>3. CASE deleteGroup(pr, actor, g)
  <2>1. Acting(pr, "group_delete", g, None, "") /\ Accept(pr, "delete_group") /\ groups[g] = "live"
    BY <1>3 DEF deleteGroup
  <2> QED BY <1>0, <2>1, ActingKeeps
<1>4. ASSUME NEW u \in User, addGroupMember(pr, actor, g, u) PROVE TeamInv(pr)' /\ Remain
  <2>1. /\ Acting(pr, "group_add", g, u, "normal") /\ Accept(pr, "add_member") /\ groups[g] # "none"
        /\ members[TeamOf[g]][u].status = "in"
    BY <1>4 DEF addGroupMember, MayBeAdded
  <2> QED BY ZenonT(60), <1>0, <2>1, ActingKeeps
<1>5. ASSUME NEW u \in User, removeGroupMember(pr, actor, g, u) PROVE TeamInv(pr)' /\ Remain
  <2>1. /\ Acting(pr, "group_remove", g, u, "") /\ Accept(pr, "remove_member") /\ groups[g] # "none"
        /\ groupMembers[g][u] = "normal"
    BY <1>5 DEF removeGroupMember, Removable
  <2> QED BY <1>0, <2>1, ActingKeeps
<1>6. ASSUME NEW u \in User, NEW type \in {"normal", "admin"}, updateGroupMemberType(pr, actor, g, u, type)
      PROVE  TeamInv(pr)' /\ Remain
  <2>1. /\ Acting(pr, "group_type", g, u, type) /\ Accept(pr, "group_type")
        /\ groupMembers[g][u] = "admin" => Cardinality(GetGroupAdmins(g)) > 1
        /\ groups[g] # "none"
    BY <1>6 DEF updateGroupMemberType, SessionHasPermissionToGroup, GetGroupAdmins
  <2>2. IsFiniteSet(GetGroupAdmins(g))
    <3>1. GetGroupAdmins(g) \subseteq User
      BY DEF GetGroupAdmins
    <3> QED BY <3>1, TeamStoreAssumption, FS_Subset
  <2>3. groupMembers[g][u] = "admin" => \E v \in GetGroupAdmins(g) : v # u
    BY <2>1, <2>2, AnotherOne
  <2>4. type \in MemberType /\ "group_type" \in Grouped
    BY DEF MemberType, Grouped, Granting
  <2> QED BY <2>1, <2>3, <2>4, ActingKeeps
<1> QED BY <1>1, <1>2, <1>3, <1>4, <1>5, <1>6

(* Requests that are done at once.                                         *)
LEMMA InvitingKeeps ==
  ASSUME NEW pr \in Proc, TeamInv(pr), NEW k \in Token,
         \/ \E actor \in User, t \in Team : InviteNewUsersToTeam(pr, actor, t, k)
         \/ RefuseExpiredToken(pr, k)
  PROVE  TeamInv(pr)' /\ Remain
<1> DEFINE r == request[pr]
<1>1. /\ r = Idle /\ served' = served + 1
      /\ UNCHANGED <<users, teams, members, groups, groupMembers, cachedCount, request, histories>>
  BY DEF InviteNewUsersToTeam, RefuseExpiredToken, Accept
<1>2. \/ \E t \in Team : tokens' = [tokens EXCEPT ![k] = t] /\ admitted[k] = {}
      \/ tokens' = [tokens EXCEPT ![k] = None]
  BY DEF InviteNewUsersToTeam, RefuseExpiredToken
<1>3. Typed /\ tokens \in [Token -> Team \cup {None}] /\ request'[pr] = Idle
  BY <1>1 DEF TeamInv, Typed, TypeOK
<1>4. Typed'
  <2>1. RequestsTyped /\ served' \in Nat
    BY <1>1, <1>3, Untouched DEF Typed, TypeOK
  <2> QED BY <1>1, <1>2, <1>3, <2>1, TokensAre
<1>5. TokensSpent(r)'
  <2>1. \A j \in Token \ lost : admitted[j] = {} \/ \E u \in User : admitted[j] = {u} /\ tokens[j] = None
    BY <1>1, NobodySpends DEF TeamInv, TablesKept, TokensSpent
  <2>2. \A j \in Token : admitted[j] # {} /\ tokens[j] = None => tokens'[j] = None
    BY <1>2, <1>3
  <2> QED BY <1>1, <2>1, <2>2 DEF TokensSpent, histories
<1>6. lost' = lost /\ withdrawn' = withdrawn /\ earned' = earned
  BY <1>1 DEF histories
<1>7. r.at # "flush" /\ Counted(r)'
  BY <1>1, <1>6, IdleFields, CountsStay
<1> QED BY <1>1, <1>3, <1>4, <1>5, <1>6, <1>7, RowsStay, InvitesStay, AdminsStay, IdleKnows
        DEF TeamInv, TablesKept, Remain

LEMMA AwardKeeps ==
  ASSUME NEW pr \in Proc, TeamInv(pr), NEW t \in Team, NEW u \in User, AwardTeamPoints(pr, t, u)
  PROVE  TeamInv(pr)' /\ Remain
<1> DEFINE r == request[pr]
<1>1. Typed
  BY DEF TeamInv
<1>2. /\ Typed' /\ members[t][u].status = "in" /\ members[t][u] \in MemberRow
      /\ members'[t][u] = [members[t][u] EXCEPT !.points = @ + 1]
      /\ \A s \in Team, v \in User : s # t \/ v # u => members'[s][v] = members[s][v]
      /\ earned'[t][u] = earned[t][u] + 1
      /\ \A s \in Team, v \in User : s # t \/ v # u => earned'[s][v] = earned[s][v]
      /\ served' = served + 1 /\ r = Idle /\ request'[pr] = Idle
      /\ UNCHANGED <<users, teams, groups, groupMembers, tokens, cachedCount, request,
                     withdrawn, admitted, lost>>
  BY <1>1, AwardIs, RowsAre
<1>3. /\ members'[t][u].status = "in" /\ members'[t][u].type = members[t][u].type
      /\ members'[t][u].points = members[t][u].points + 1
  BY <1>2 DEF MemberRow
<1>4. \A s \in Team, v \in User : /\ members'[s][v].status = members[s][v].status
                                  /\ members'[s][v].type = members[s][v].type
  BY <1>2, <1>3
<1>5. NoStrangers' /\ GroupMembersAreTeamMembers'
  <2>1. \A g \in Group : TeamOf[g] \in Team
    BY TeamStoreAssumption
  <2> QED BY <1>2, <1>4, <2>1 DEF TeamInv, TablesKept, NoStrangers, GroupMembersAreTeamMembers
<1>6. PointsKept'
  <2>1. \A s \in Team, v \in User : earned[s][v] = IF members[s][v].status = "none" THEN 0 ELSE members[s][v].points
    BY DEF TeamInv, TablesKept, PointsKept
  <2>2. earned'[t][u] = members'[t][u].points /\ members'[t][u].status # "none"
    BY <1>2, <1>3, <2>1
  <2>3. ASSUME NEW s \in Team, NEW v \in User
        PROVE  earned'[s][v] = IF members'[s][v].status = "none" THEN 0 ELSE members'[s][v].points
    <3>1. CASE s = t /\ v = u
      BY <2>2, <3>1
    <3>2. CASE s # t \/ v # u
      <4>1. earned'[s][v] = earned[s][v] /\ members'[s][v] = members[s][v]
        BY <1>2, <3>2
      <4> QED BY <2>1, <4>1
    <3> QED BY <3>1, <3>2
  <2> QED BY <2>3 DEF PointsKept
<1>7. r.at # "flush" /\ Counted(r)'
  <2>1. \A s \in Team : GetActiveMemberCount(s)' = GetActiveMemberCount(s)
    <3> SUFFICES ASSUME NEW s \in Team PROVE ActiveMembers(s)' = ActiveMembers(s)
      BY DEF GetActiveMemberCount
    <3> QED BY <1>2, <1>4 DEF ActiveMembers
  <2> QED BY <1>2, <2>1, IdleFields DEF TeamInv, TablesKept, Counted, Flushing
<1>8. TokensSpent(r)'
  BY <1>2, TokensStay
<1>9. KeepsAnAdmin
  <2>1. \A s \in Team : LiveAdmins(s)' = LiveAdmins(s)
    BY <1>2, <1>4 DEF LiveAdmins
  <2> QED BY <2>1 DEF KeepsAnAdmin
<1> QED BY <1>2, <1>5, <1>6, <1>7, <1>8, <1>9, InvitesStay, AdminsStay, IdleKnows
        DEF TeamInv, TablesKept, Remain

LEMMA DeletionKeeps ==
  ASSUME NEW pr \in Proc, TeamInv(pr), NEW u \in User, DeleteUser(pr, u)
  PROVE  TeamInv(pr)' /\ Remain
<1> DEFINE r == request[pr]
<1>1. Typed
  BY DEF TeamInv
<1>2. /\ Typed' /\ users[u] = "live" /\ users'[u] = "deleted" /\ \A v \in User : v # u => users'[v] = users[v]
      /\ served' = served + 1 /\ r = Idle /\ request'[pr] = Idle
      /\ UNCHANGED <<teams, members, groups, groupMembers, tokens, cachedCount, request, histories>>
  BY <1>1, DeleteUserIs
<1>3. UNCHANGED <<withdrawn, admitted, earned, lost>>
  BY <1>2 DEF histories
<1>4. NoStrangers'
  BY <1>2, <1>3 DEF TeamInv, TablesKept, NoStrangers
<1>5. Counted(r)'
  <2>1. \A t \in Team : GetActiveMemberCount(t)' <= GetActiveMemberCount(t) /\ GetActiveMemberCount(t)' \in Nat
    <3> SUFFICES ASSUME NEW t \in Team PROVE ActiveMembers(t)' \subseteq ActiveMembers(t)
      BY FewerMembers
    <3> QED BY <1>2 DEF ActiveMembers
  <2>2. \A t \in Team : GetActiveMemberCount(t) \in Nat /\ cachedCount[t] \in Nat \cup {None}
    BY <1>1, CountIs DEF Typed, TypeOK
  <2>3. r.at # "flush" /\ MaxUsersPerTeam \in Nat
    BY <1>2, IdleFields, TeamStoreAssumption
  <2>4. ASSUME NEW t \in Team \ lost
        PROVE  /\ GetActiveMemberCount(t) <= MaxUsersPerTeam
               /\ cachedCount[t] # None => GetActiveMemberCount(t) <= cachedCount[t]
    BY <2>3 DEF TeamInv, TablesKept, Counted, Flushing
  <2>5. ASSUME NEW t \in Team \ lost
        PROVE  /\ GetActiveMemberCount(t)' <= MaxUsersPerTeam
               /\ cachedCount[t] # None => GetActiveMemberCount(t)' <= cachedCount[t]
    BY <2>1, <2>2, <2>3, <2>4
  <2> QED BY <1>2, <1>3, <2>5 DEF Counted
<1>6. TokensSpent(r)'
  BY <1>2, <1>3, TokensStay
<1>7. KeepsAnAdmin
  BY <1>2 DEF KeepsAnAdmin
<1> QED BY <1>2, <1>3, <1>4, <1>5, <1>6, <1>7, RowsStay, InvitesStay, AdminsStay, IdleKnows
        DEF TeamInv, TablesKept, Remain

(* Joining, step by step.                                                  *)
LEMMA NotYet ==
  ASSUME NEW pr \in Proc, Typed, request[pr].at \in Entering
  PROVE  /\ request[pr].at # "flush" /\ request[pr].at # "idle" /\ request[pr].then = "idle"
         /\ \A k : ~Spends(request[pr], k)
         /\ \A t : ~Flushing(request[pr], t)
<1>1. request[pr].then = "idle"
  BY EnteringIs
<1> QED BY <1>1 DEF Entering, Spends, Flushing

LEMMA MovesOn ==
  ASSUME NEW r \in Request, NEW phase
  PROVE  LET q == [r EXCEPT !.at = phase] IN
         /\ q.at = phase /\ q.team = r.team /\ q.user = r.user /\ q.group = r.group /\ q.token = r.token
         /\ q.type = r.type /\ q.row = r.row /\ q.teamRow = r.teamRow /\ q.count = r.count
         /\ q.todo = r.todo /\ q.then = r.then
BY DEF Request

LEMMA SaveKeeps ==
  ASSUME NEW pr \in Proc, TeamInv(pr), Save(pr)
  PROVE  TeamInv(pr)' /\ Remain
<1> DEFINE r == request[pr]
           q == request'[pr]
           t == r.team
<1>1. Typed
  BY DEF TeamInv
<1>2. /\ Typed' /\ q = [r EXCEPT !.at = "join"] /\ r \in Request /\ t \in Team /\ r.at = "create"
  BY <1>1, SaveIs
<1>3. /\ q.at = "join" /\ q.team = t /\ q.user = r.user /\ q.token = r.token /\ q.then = "idle"
  BY <1>1, <1>2, MovesOn, EnteringIs DEF Entering
<1>4. /\ UNCHANGED <<users, members, groups, groupMembers, tokens, cachedCount, histories, served>>
      /\ UNCHANGED <<withdrawn, admitted, earned, lost>>
  BY DEF Save, At, histories
<1>5. teams'[t] = r.teamRow /\ \A s \in Team : s # t => teams'[s] = teams[s]
  BY <1>1, <1>2 DEF Save, Typed, TypeOK
<1>6. teams[t].status = "none" /\ withdrawn[t] = {} /\ r.teamRow.invite <= served
  BY <1>2 DEF TeamInv, Knows, KnowsTeam, KnowsInvite
<1>7. \A g \in Group : TeamOf[g] \in Team /\ (TeamOf[g] = t => groups[g] = "none")
  BY <1>6, TeamStoreAssumption DEF TeamInv, TablesKept, NoStrangers
<1>8. NoStrangers'
  BY <1>4, <1>5, <1>7 DEF TeamInv, TablesKept, NoStrangers
<1>9. GroupMembersAreTeamMembers'
  BY <1>4, <1>5, <1>7 DEF TeamInv, TablesKept, NoStrangers, GroupMembersAreTeamMembers
<1>10. InvitesOrdered'
  BY <1>4, <1>5, <1>6 DEF TeamInv, TablesKept, InvitesOrdered
<1>11. Counted(r)' /\ TokensSpent(r)'
  BY <1>1, <1>2, <1>4, NotYet, CountsStay, TokensStay DEF Entering
<1>12. KnowsMember(r)'
  <2>1. users[r.user] # "none"
    BY <1>2 DEF TeamInv, Knows, KnowsMember, Entering
  <2> QED BY <1>3, <1>4, <2>1 DEF KnowsMember, Leaving
<1>13. KnowsToken(r)'
  <2>1. r.token \in Token \ lost => admitted[r.token] = {}
    BY <1>2 DEF TeamInv, Knows, KnowsToken, Entering
  <2> QED BY <1>3, <1>4, <2>1 DEF KnowsToken
<1>14. KnowsCount(r)' /\ KnowsGroup(r)' /\ KnowsTeam(r)' /\ KnowsInvite(r)'
  BY <1>3, NothingNext DEF Rewriting, Leaving, Grouped, Granting
<1> QED BY <1>2, <1>4, <1>8, <1>9, <1>10, <1>11, <1>12, <1>13, <1>14, RowsStay, AdminsStay
        DEF TeamInv, TablesKept, Knows, Remain

LEMMA SaveUserKeeps ==
  ASSUME NEW pr \in Proc, TeamInv(pr), SaveUser(pr)
  PROVE  TeamInv(pr)' /\ Remain
<1> DEFINE r == request[pr]
           q == request'[pr]
           u == r.user
<1>1. Typed
  BY DEF TeamInv
<1>2. /\ Typed' /\ q = [r EXCEPT !.at = "join"] /\ r \in Request /\ u \in User /\ r.at = "signup"
  BY <1>1, SaveUserIs
<1>3. /\ q.at = "join" /\ q.team = r.team /\ q.user = u /\ q.token = r.token /\ q.then = "idle"
  BY <1>1, <1>2, MovesOn, EnteringIs DEF Entering
<1>4. /\ UNCHANGED <<teams, members, groups, groupMembers, tokens, cachedCount, histories, served>>
      /\ UNCHANGED <<withdrawn, admitted, earned, lost>>
  BY DEF SaveUser, At, histories
<1>5. users'[u] = "live" /\ \A v \in User : v # u => users'[v] = users[v]
  BY <1>1, <1>2 DEF SaveUser, Typed, TypeOK
<1>6. users[u] = "none" /\ \A t \in Team : members[t][u].status = "none"
  BY <1>2 DEF TeamInv, Knows, KnowsMember, TablesKept, NoStrangers
<1>7. NoStrangers'
  BY <1>4, <1>5 DEF TeamInv, TablesKept, NoStrangers
<1>8. Counted(r)'
  <2>1. ASSUME NEW t \in Team PROVE GetActiveMemberCount(t)' = GetActiveMemberCount(t)
    <3>1. ActiveMembers(t)' = ActiveMembers(t)
      BY <1>4, <1>5, <1>6 DEF ActiveMembers
    <3> QED BY <3>1 DEF GetActiveMemberCount
  <2>2. \A t : ~Flushing(r, t)
    BY <1>1, <1>2, NotYet DEF Entering
  <2> QED BY <1>4, <2>1, <2>2 DEF TeamInv, TablesKept, Counted
<1>9. TokensSpent(r)'
  BY <1>1, <1>2, <1>4, NotYet, TokensStay DEF Entering
<1>10. InvitesOrdered'
  BY <1>4, InvitesStay
<1>11. KnowsMember(r)'
  BY <1>3, <1>5 DEF KnowsMember, Leaving
<1>12. KnowsToken(r)'
  <2>1. r.token \in Token \ lost => admitted[r.token] = {}
    BY <1>2 DEF TeamInv, Knows, KnowsToken, Entering
  <2> QED BY <1>3, <1>4, <2>1 DEF KnowsToken
<1>13. KnowsCount(r)' /\ KnowsGroup(r)' /\ KnowsTeam(r)' /\ KnowsInvite(r)'
  BY <1>3, NothingNext DEF Rewriting, Leaving, Grouped, Granting
<1>14. KeepsAnAdmin
  BY <1>5, <1>6 DEF KeepsAnAdmin
<1> QED BY <1>2, <1>4, <1>7, <1>8, <1>9, <1>10, <1>11, <1>12, <1>13, <1>14, RowsStay, AdminsStay
        DEF TeamInv, TablesKept, Knows, Remain

LEMMA JoinKeeps ==
  ASSUME NEW pr \in Proc, TeamInv(pr), joinUserToTeam(pr)
  PROVE  TeamInv(pr)' /\ Remain
<1> DEFINE r == request[pr]
           q == request'[pr]
           row == members[r.team][r.user]
<1>1. Typed
  BY DEF TeamInv
<1>2. /\ Typed' /\ r.at = "join" /\ r.at \in Entering /\ r \in Request /\ r.then = "idle" /\ row \in MemberRow
      /\ UNCHANGED <<tables, cachedCount, histories, served>>
      /\ \/ row.status = "none" /\ q = [r EXCEPT !.at = "insert"]
         \/ row.status = "in" /\ q \in {Idle, [r EXCEPT !.at = "spend"]}
         \/ row.status = "left" /\ q = [r EXCEPT !.at = "count", !.row = row]
  <2>1. r.at = "join" /\ r.at \in Entering
    BY DEF joinUserToTeam, At, Entering
  <2> QED BY <1>1, <2>1, JoinIs, EnteringIs
<1>3. \/ q.at \in {"idle", "insert", "spend"}
      \/ q.at = "count" /\ q.row = row /\ row.status = "left"
  BY <1>2, IdleFields DEF Request
<1>4. q.at # "idle" => q.team = r.team /\ q.user = r.user /\ q.token = r.token
  BY <1>2, IdleFields DEF Request
<1>5. q.then = "idle"
  BY <1>2, IdleFields DEF Request
<1>6. users[r.user] # "none" /\ (r.token \in Token \ lost => admitted[r.token] = {})
  BY <1>2 DEF TeamInv, Knows, KnowsMember, KnowsToken, Entering
<1>7. KnowsMember(q)
  BY <1>3, <1>4, <1>6 DEF KnowsMember, Entering, Leaving
<1>8. KnowsToken(q)
  BY <1>3, <1>4, <1>6 DEF KnowsToken, Entering
<1>9. KnowsCount(q) /\ KnowsGroup(q) /\ KnowsTeam(q)
  BY <1>3, <1>5, Nothing DEF Rewriting, Leaving, Grouped, Granting
<1>10. KnowsInvite(r)'
  BY <1>3, NothingNext DEF Rewriting
<1> QED BY <1>1, <1>2, <1>7, <1>8, <1>9, <1>10, NotYet, QuietKeeps

LEMMA CacheReadKeeps ==
  ASSUME NEW pr \in Proc, TeamInv(pr), CachedActiveMemberCount(pr)
  PROVE  TeamInv(pr)' /\ Remain
<1> DEFINE r == request[pr]
           q == request'[pr]
<1>1. Typed
  BY DEF TeamInv
<1>2. /\ Typed' /\ r.at = "count" /\ UNCHANGED <<tables, cachedCount, histories, served>>
      /\ q.at \in {"fill", "rejoin"} /\ q.team = r.team /\ q.user = r.user /\ q.row = r.row
      /\ q.token = r.token /\ q.then = r.then
      /\ IF cachedCount[r.team] # None THEN q.count = cachedCount[r.team]
                                       ELSE q.count = GetActiveMemberCount(r.team)
  BY <1>1, CacheReadIs
<1>3. r.at \in Entering /\ r.team \in Team /\ q.then = "idle"
  <2>1. r.at \in Entering
    BY <1>2 DEF Entering
  <2> QED BY <1>1, <1>2, <2>1, EnteringIs
<1>4. KnowsMember(q)
  BY <1>2 DEF TeamInv, Knows, KnowsMember, Entering, Leaving
<1>5. KnowsToken(q)
  BY <1>2, <1>3 DEF TeamInv, Knows, KnowsToken
<1>6. KnowsCount(q)
  <2>1. r.team \notin lost /\ cachedCount[r.team] # None => GetActiveMemberCount(r.team) <= cachedCount[r.team]
    BY <1>1, <1>3, NotYet DEF TeamInv, TablesKept, Counted
  <2>2. GetActiveMemberCount(r.team) \in Nat
    BY CountIs
  <2> QED BY <1>2, <2>1, <2>2 DEF KnowsCount
<1>7. KnowsGroup(q) /\ KnowsTeam(q)
  BY <1>2, <1>3, Nothing DEF Rewriting, Leaving, Grouped, Granting
<1>8. KnowsInvite(r)'
  BY <1>2, NothingNext DEF Rewriting
<1> QED BY <1>1, <1>2, <1>3, <1>4, <1>5, <1>6, <1>7, <1>8, NotYet, QuietKeeps

LEMMA CacheWriteKeeps ==
  ASSUME NEW pr \in Proc, TeamInv(pr), addToCache(pr)
  PROVE  TeamInv(pr)' /\ Remain
<1> DEFINE r == request[pr]
           q == request'[pr]
<1>1. Typed
  BY DEF TeamInv
<1>2. /\ Typed' /\ r.at = "fill" /\ UNCHANGED <<tables, histories, served>>
      /\ UNCHANGED <<users, teams, members, groups, groupMembers, tokens, withdrawn, admitted, earned, lost>>
      /\ q = [r EXCEPT !.at = "rejoin"]
      /\ cachedCount'[r.team] \in {r.count, cachedCount[r.team]}
      /\ \A t \in Team : t # r.team => cachedCount'[t] = cachedCount[t]
  BY <1>1, CacheWriteIs DEF tables, histories
<1>3. r.at \in Entering /\ r \in Request /\ r.then = "idle"
  <2>1. r.at \in Entering
    BY <1>2 DEF Entering
  <2> QED BY <1>1, <2>1, EnteringIs
<1>4. /\ q.at = "rejoin" /\ q.team = r.team /\ q.user = r.user /\ q.row = r.row /\ q.count = r.count
      /\ q.token = r.token /\ q.then = "idle"
  BY <1>2, <1>3, MovesOn
<1>5. KnowsMember(r)'
  BY <1>2, <1>4 DEF TeamInv, Knows, KnowsMember, Entering, Leaving
<1>6. KnowsToken(r)'
  BY <1>2, <1>3, <1>4 DEF TeamInv, Knows, KnowsToken
<1>7. \A t \in Team : GetActiveMemberCount(t)' = GetActiveMemberCount(t)
  BY <1>2 DEF GetActiveMemberCount, ActiveMembers
<1>8. r.team \in Team /\ (r.team \notin lost => GetActiveMemberCount(r.team) <= r.count)
  BY <1>1, <1>2, <1>3, EnteringIs DEF TeamInv, Knows, KnowsCount
<1>9. KnowsCount(r)'
  BY <1>2, <1>4, <1>7, <1>8 DEF KnowsCount
<1>10. Counted(r)'
  BY <1>1, <1>2, <1>3, <1>7, <1>8, NotYet DEF TeamInv, TablesKept, Counted
<1>11. KnowsGroup(r)' /\ KnowsTeam(r)' /\ KnowsInvite(r)'
  BY <1>4, NothingNext DEF Rewriting, Leaving, Grouped, Granting
<1>12. InvitesOrdered' /\ TokensSpent(r)'
  BY <1>1, <1>2, <1>3, NotYet, InvitesStay, TokensStay
<1> QED BY <1>2, <1>5, <1>6, <1>9, <1>10, <1>11, <1>12, RowsStay, AdminsStay
        DEF TeamInv, TablesKept, Knows, Remain

(* A user comes in, or comes back.                                         *)
LEMMA AdmissionKeeps ==
  ASSUME NEW pr \in Proc, TeamInv(pr), Typed', request[pr].at \in {"insert", "rejoin"}, UNCHANGED served,
         request'[pr] = [request[pr] EXCEPT !.at = "flush", !.then = NextOf(request[pr])],
         NEW t \in Team, NEW u \in User, t = request[pr].team, u = request[pr].user, Admit(request[pr]),
         members[t][u].status # "in", members'[t][u].status = "in", members'[t][u].points = earned[t][u],
         \A s \in Team, v \in User : s # t \/ v # u => members'[s][v] = members[s][v],
         t \notin lost => GetActiveMemberCount(t) + 1 <= MaxUsersPerTeam,
         UNCHANGED <<users, teams, groups, groupMembers, tokens, cachedCount, withdrawn, earned, lost>>
  PROVE  TeamInv(pr)' /\ Remain
<1> DEFINE r == request[pr]
           q == request'[pr]
<1>1. Typed /\ r \in Request /\ r.at \in Entering /\ r.then = "idle"
  BY EnteringIs DEF TeamInv, Entering
<1>2. q.at = "flush" /\ q.team = t /\ q.token = r.token /\ q.then = NextOf(r)
  BY <1>1 DEF Request
<1>3. users[u] # "none" /\ (r.token \in Token \ lost => admitted[r.token] = {})
  BY DEF TeamInv, Knows, KnowsMember, KnowsToken, Entering
<1>4. NoStrangers'
  BY <1>3 DEF TeamInv, TablesKept, NoStrangers
<1>5. GroupMembersAreTeamMembers'
  <2>1. ASSUME NEW s \in Team, NEW v \in User, members[s][v].status = "in"
        PROVE  members'[s][v].status = "in"
    BY <2>1
  <2>2. \A g \in Group : TeamOf[g] \in Team
    BY TeamStoreAssumption
  <2> QED BY <2>1, <2>2 DEF TeamInv, TablesKept, GroupMembersAreTeamMembers
<1>6. PointsKept'
  <2>1. \A s \in Team, v \in User : earned[s][v] = IF members[s][v].status = "none" THEN 0 ELSE members[s][v].points
    BY DEF TeamInv, TablesKept, PointsKept
  <2>2. ASSUME NEW s \in Team, NEW v \in User
        PROVE  earned'[s][v] = IF members'[s][v].status = "none" THEN 0 ELSE members'[s][v].points
    <3>1. CASE s = t /\ v = u
      BY <3>1
    <3>2. CASE s # t \/ v # u
      BY <2>1, <3>2
    <3> QED BY <3>1, <3>2
  <2> QED BY <2>2 DEF PointsKept
<1>7. Counted(r)'
  <2>1. ASSUME NEW s \in Team, s # t PROVE GetActiveMemberCount(s)' = GetActiveMemberCount(s)
    <3>1. ActiveMembers(s)' = ActiveMembers(s)
      BY <2>1 DEF ActiveMembers
    <3> QED BY <3>1 DEF GetActiveMemberCount
  <2>2. t \notin lost => GetActiveMemberCount(t)' <= MaxUsersPerTeam
    <3>1. ActiveMembers(t)' \subseteq ActiveMembers(t) \cup {u}
      BY DEF ActiveMembers
    <3>2. GetActiveMemberCount(t)' <= GetActiveMemberCount(t) + 1
      BY <3>1, OneMemberMore
    <3>3. GetActiveMemberCount(t) \in Nat /\ MaxUsersPerTeam \in Nat /\ GetActiveMemberCount(t)' \in Nat
      <4>1. ActiveMembers(t)' \subseteq User
        BY DEF ActiveMembers
      <4>2. GetActiveMemberCount(t)' = Cardinality(ActiveMembers(t)')
        BY DEF GetActiveMemberCount
      <4> QED BY <4>1, <4>2, CountIs, TeamStoreAssumption, FS_Subset, FS_CardinalityType
    <3> QED BY <3>2, <3>3
  <2>3. Flushing(r, t)' /\ \A s : ~Flushing(r, s)
    BY <1>1, <1>2, NotYet DEF Flushing
  <2>4. ASSUME NEW s \in Team \ lost', s # t
        PROVE  /\ GetActiveMemberCount(s)' <= MaxUsersPerTeam
               /\ cachedCount'[s] # None => GetActiveMemberCount(s)' <= cachedCount'[s]
    BY <2>1, <2>3, <2>4 DEF TeamInv, TablesKept, Counted
  <2> QED BY <2>2, <2>3, <2>4 DEF Counted
<1>8. TokensSpent(r)'
  <2>1. ASSUME NEW k \in Token \ lost', r.token # k
        PROVE  admitted'[k] = admitted[k] /\ (admitted[k] = {} \/ \E v \in User : admitted[k] = {v} /\ tokens'[k] = None)
    <3>1. admitted'[k] = admitted[k]
      BY <1>1, <2>1, AdmitIs
    <3>2. ~Spends(r, k)
      BY <1>1, NotYet
    <3> QED BY <2>1, <3>1, <3>2 DEF TeamInv, TablesKept, TokensSpent
  <2>2. ASSUME NEW k \in Token \ lost', r.token = k
        PROVE  admitted'[k] = {u} /\ Spends(r, k)'
    <3>1. admitted'[k] = {u}
      BY <1>1, <1>3, <2>2, AdmitIs
    <3>2. q.then = "spend"
      BY <1>2, <2>2, TeamStoreAssumption DEF NextOf
    <3> QED BY <1>2, <2>2, <3>1, <3>2 DEF Spends
  <2> QED BY <2>1, <2>2 DEF TokensSpent
<1>9. KeepsAnAdmin
  <2>1. ASSUME NEW s \in Team, NEW v \in LiveAdmins(s) PROVE v \in LiveAdmins(s)'
    BY DEF LiveAdmins
  <2> QED BY <2>1 DEF KeepsAnAdmin
<1>10. Knows(r)'
  <2>1. q.at = "flush" /\ q.then # "erase"
    BY <1>2 DEF NextOf
  <2> QED BY <2>1, NothingNext DEF Knows, Entering, Leaving, Rewriting, Grouped, Granting
<1> QED BY <1>4, <1>5, <1>6, <1>7, <1>8, <1>9, <1>10, InvitesStay, AdminsStay DEF TeamInv, TablesKept, Remain

LEMMA RejectKeeps ==
  ASSUME NEW pr \in Proc, TeamInv(pr), Typed', request'[pr] = Idle, UNCHANGED <<tables, cachedCount, histories, served>>,
         request[pr].at # "flush", \A k \in Token : ~Spends(request[pr], k)
  PROVE  TeamInv(pr)' /\ Remain
<1>1. Knows(request[pr])'
  BY IdleKnows
<1>2. UNCHANGED <<users, teams, members, groups, groupMembers, tokens, cachedCount,
                  withdrawn, admitted, earned, lost>>
  BY DEF tables, histories
<1> QED BY <1>1, <1>2, RowsStay, InvitesStay, CountsStay, TokensStay, AdminsStay DEF TeamInv, TablesKept, Remain

LEMMA SaveMemberKeeps ==
  ASSUME NEW pr \in Proc, TeamInv(pr), SaveMember(pr)
  PROVE  TeamInv(pr)' /\ Remain
<1> DEFINE r == request[pr]
<1>1. Typed
  BY DEF TeamInv
<1>2. /\ Typed' /\ r.at = "insert" /\ r.at \in Entering /\ UNCHANGED served
      /\ \/ request'[pr] = Idle /\ UNCHANGED <<tables, cachedCount, histories>>
         \/ /\ request'[pr] = [r EXCEPT !.at = "flush", !.then = NextOf(r)]
            /\ members[r.team][r.user].status = "none" /\ HasRoom(r.team) /\ Admit(r)
            /\ members'[r.team][r.user] = [status |-> "in", type |-> r.type, points |-> 0]
            /\ \A s \in Team, v \in User : s # r.team \/ v # r.user => members'[s][v] = members[s][v]
            /\ UNCHANGED <<users, teams, groups, groupMembers, tokens, cachedCount, withdrawn, earned, lost>>
  BY <1>1, SaveMemberIs DEF Entering
<1>3. r.team \in Team /\ r.user \in User
  BY <1>1, <1>2, EnteringIs
<1>4. CASE request'[pr] = Idle /\ UNCHANGED <<tables, cachedCount, histories>>
  BY <1>1, <1>2, <1>4, NotYet, RejectKeeps
<1>5. CASE /\ request'[pr] = [r EXCEPT !.at = "flush", !.then = NextOf(r)]
           /\ members[r.team][r.user].status = "none" /\ HasRoom(r.team) /\ Admit(r)
           /\ members'[r.team][r.user] = [status |-> "in", type |-> r.type, points |-> 0]
           /\ \A s \in Team, v \in User : s # r.team \/ v # r.user => members'[s][v] = members[s][v]
           /\ UNCHANGED <<users, teams, groups, groupMembers, tokens, cachedCount, withdrawn, earned, lost>>
  <2>1. earned[r.team][r.user] = 0
    BY <1>3, <1>5 DEF TeamInv, TablesKept, PointsKept
  <2>2. members'[r.team][r.user].status = "in" /\ members'[r.team][r.user].points = 0
    BY <1>5
  <2>3. GetActiveMemberCount(r.team) + 1 <= MaxUsersPerTeam /\ members[r.team][r.user].status # "in"
    BY <1>5 DEF HasRoom
  <2>4. members'[r.team][r.user].points = earned[r.team][r.user]
    BY <2>1, <2>2
  <2> QED BY ZenonT(60), <1>2, <1>3, <1>5, <2>2, <2>3, <2>4, AdmissionKeeps
<1> QED BY <1>2, <1>4, <1>5

LEMMA RejoinKeeps ==
  ASSUME NEW pr \in Proc, TeamInv(pr), RejoinTeam(pr)
  PROVE  TeamInv(pr)' /\ Remain
<1> DEFINE r == request[pr]
<1>1. Typed
  BY DEF TeamInv
<1>2. /\ Typed' /\ r.at = "rejoin" /\ r.at \in Entering /\ UNCHANGED served
      /\ \/ request'[pr] = Idle /\ UNCHANGED <<tables, cachedCount, histories>>
         \/ /\ request'[pr] = [r EXCEPT !.at = "flush", !.then = NextOf(r)]
            /\ r.count < MaxUsersPerTeam /\ Admit(r)
            /\ members'[r.team][r.user] = Rejoined(r)
            /\ \A s \in Team, v \in User : s # r.team \/ v # r.user => members'[s][v] = members[s][v]
            /\ UNCHANGED <<users, teams, groups, groupMembers, tokens, cachedCount, withdrawn, earned, lost>>
  BY <1>1, RejoinIs DEF Entering
<1>3. r.team \in Team /\ r.user \in User /\ r.count \in Nat
  BY <1>1, <1>2, EnteringIs DEF Request
<1>4. CASE request'[pr] = Idle /\ UNCHANGED <<tables, cachedCount, histories>>
  BY <1>1, <1>2, <1>4, NotYet, RejectKeeps
<1>5. CASE /\ request'[pr] = [r EXCEPT !.at = "flush", !.then = NextOf(r)]
           /\ r.count < MaxUsersPerTeam /\ Admit(r)
           /\ members'[r.team][r.user] = Rejoined(r)
           /\ \A s \in Team, v \in User : s # r.team \/ v # r.user => members'[s][v] = members[s][v]
           /\ UNCHANGED <<users, teams, groups, groupMembers, tokens, cachedCount, withdrawn, earned, lost>>
  <2>1. r.row = members[r.team][r.user] /\ members[r.team][r.user].status = "left"
    BY <1>2 DEF TeamInv, Knows, KnowsMember
  <2>2. members'[r.team][r.user].status = "in" /\ members'[r.team][r.user].points = earned[r.team][r.user]
    BY <1>3, <1>5, <2>1 DEF TeamInv, TablesKept, PointsKept, Rejoined
  <2>3. r.team \notin lost => GetActiveMemberCount(r.team) + 1 <= MaxUsersPerTeam
    <3>1. r.team \notin lost => GetActiveMemberCount(r.team) <= r.count
      BY <1>2 DEF TeamInv, Knows, KnowsCount
    <3> QED BY <1>3, <1>5, <3>1, CountIs, TeamStoreAssumption
  <2> QED BY ZenonT(60), <1>2, <1>3, <1>5, <2>1, <2>2, <2>3, AdmissionKeeps
<1> QED BY <1>2, <1>4, <1>5

LEMMA SpendKeeps ==
  ASSUME NEW pr \in Proc, TeamInv(pr), DeleteToken(pr)
  PROVE  TeamInv(pr)' /\ Remain
<1> DEFINE r == request[pr]
<1>1. Typed
  BY DEF TeamInv
<1>2. /\ Typed' /\ r.at = "spend" /\ r.token \in Token
      /\ request'[pr] = Idle /\ tokens' = [tokens EXCEPT ![r.token] = None]
      /\ UNCHANGED <<users, teams, members, groups, groupMembers, cachedCount, histories, served>>
      /\ UNCHANGED <<withdrawn, admitted, earned, lost>>
  BY <1>1, SpendIs DEF histories
<1>3. TokensSpent(r)'
  <2>1. tokens'[r.token] = None /\ \A k \in Token : k # r.token => tokens'[k] = tokens[k]
    BY <1>1, <1>2 DEF Typed, TypeOK
  <2>2. \A k \in Token : k # r.token => ~Spends(r, k)
    BY DEF Spends
  <2> QED BY <1>2, <2>1, <2>2 DEF TeamInv, TablesKept, TokensSpent
<1> QED BY <1>2, <1>3, RowsStay, InvitesStay, CountsStay, AdminsStay, IdleKnows DEF TeamInv, TablesKept, Remain

(* Members change and go.                                                  *)
LEMMA WriteMemberKeeps ==
  ASSUME NEW pr \in Proc, TeamInv(pr), NEW phase \in {"type", "leave"}, WriteMember(pr, phase)
  PROVE  TeamInv(pr)' /\ Remain
<1> DEFINE r == request[pr]
           q == request'[pr]
           t == r.team
           u == r.user
<1>1. Typed
  BY DEF TeamInv
<1>2. /\ Typed' /\ r.at = phase /\ UNCHANGED served /\ t \in Team /\ u \in User
      /\ \/ q = Idle /\ UNCHANGED <<tables, cachedCount, histories>>
         \/ /\ q = [r EXCEPT !.at = "flush", !.then = "idle"]
            /\ members'[t][u] = r.row
            /\ \A s \in Team, v \in User : s # t \/ v # u => members'[s][v] = members[s][v]
            /\ UNCHANGED <<users, teams, groups, groupMembers, tokens, cachedCount, histories>>
  BY <1>1, WriteMemberIs
<1>3. /\ r \in Request /\ r.then = "idle" /\ members[t][u] \in MemberRow /\ r.at # "flush"
      /\ \A k : ~Spends(r, k)
  BY <1>1, <1>2, Current, RowsAre DEF Sound, Spends
<1>4. CASE q = Idle /\ UNCHANGED <<tables, cachedCount, histories>>
  BY <1>1, <1>2, <1>3, <1>4, RejectKeeps
<1>5. CASE /\ q = [r EXCEPT !.at = "flush", !.then = "idle"]
           /\ members'[t][u] = r.row
           /\ \A s \in Team, v \in User : s # t \/ v # u => members'[s][v] = members[s][v]
           /\ UNCHANGED <<users, teams, groups, groupMembers, tokens, cachedCount, histories>>
  <2>0. q.at = "flush" /\ q.team = t /\ q.then = "idle" /\ UNCHANGED <<withdrawn, admitted, earned, lost>>
    BY <1>3, <1>5 DEF Request, histories
  <2>1. /\ members[t][u].status # "none" /\ members'[t][u].status # "none"
        /\ members'[t][u].points = members[t][u].points
        /\ members'[t][u].status = "in" => members[t][u].status = "in"
    <3>1. CASE phase = "type"
      <4>1. members'[t][u] = Retyped(members[t][u], r.row.type) /\ members[t][u].status # "none"
        BY <1>2, <1>5, <3>1 DEF TeamInv, Knows, KnowsMember
      <4> QED BY <1>3, <4>1 DEF Retyped, MemberRow
    <3>2. CASE phase = "leave"
      <4>1. members'[t][u] = Gone(members[t][u]) /\ members[t][u].status # "none"
        BY <1>2, <1>5, <3>2 DEF TeamInv, Knows, KnowsMember, Leaving
      <4> QED BY <1>3, <4>1 DEF Gone, MemberRow
    <3> QED BY <3>1, <3>2
  <2>2. NoStrangers'
    BY <1>2, <1>5, <2>0, <2>1 DEF TeamInv, TablesKept, NoStrangers
  <2>3. GroupMembersAreTeamMembers'
    <3>1. \A g \in Group : TeamOf[g] \in Team
      BY TeamStoreAssumption
    <3>2. CASE phase = "type"
      <4>1. members'[t][u].status = members[t][u].status
        <5>1. members'[t][u] = Retyped(members[t][u], r.row.type)
          BY <1>2, <1>5, <3>2 DEF TeamInv, Knows, KnowsMember
        <5> QED BY <1>3, <5>1 DEF Retyped, MemberRow
      <4>2. \A s \in Team, v \in User : members'[s][v].status = members[s][v].status
        BY <1>5, <4>1
      <4> QED BY <1>5, <3>1, <4>2 DEF TeamInv, TablesKept, GroupMembersAreTeamMembers
    <3>3. CASE phase = "leave"
      <4>1. \A g \in Group : TeamOf[g] = t => groupMembers[g][u] = "none"
        BY <1>2, <3>3 DEF TeamInv, Knows, KnowsGroup, Leaving
      <4> QED BY <1>5, <3>1, <4>1 DEF TeamInv, TablesKept, GroupMembersAreTeamMembers
    <3> QED BY <3>2, <3>3
  <2>4. PointsKept'
    <3>1. \A s \in Team, v \in User : earned[s][v] = IF members[s][v].status = "none" THEN 0 ELSE members[s][v].points
      BY DEF TeamInv, TablesKept, PointsKept
    <3>2. ASSUME NEW s \in Team, NEW v \in User
          PROVE  earned'[s][v] = IF members'[s][v].status = "none" THEN 0 ELSE members'[s][v].points
      <4>1. CASE s = t /\ v = u
        <5>1. earned[t][u] = members[t][u].points
          BY <1>2, <2>1, <3>1
        <5> QED BY <2>0, <2>1, <4>1, <5>1
      <4>2. CASE s # t \/ v # u
        <5>1. members'[s][v] = members[s][v]
          BY <1>5, <4>2
        <5> QED BY <2>0, <3>1, <5>1
      <4> QED BY <4>1, <4>2
    <3> QED BY <3>2 DEF PointsKept
  <2>5. Counted(r)'
    <3>1. ASSUME NEW s \in Team
          PROVE  GetActiveMemberCount(s)' <= GetActiveMemberCount(s) /\ GetActiveMemberCount(s)' \in Nat
      <4>1. ActiveMembers(s)' \subseteq ActiveMembers(s)
        BY <1>5, <2>1 DEF ActiveMembers
      <4> QED BY <4>1, FewerMembers
    <3>2. ASSUME NEW s \in Team \ lost
          PROVE  /\ GetActiveMemberCount(s) <= MaxUsersPerTeam
                 /\ cachedCount[s] # None => GetActiveMemberCount(s) <= cachedCount[s]
      BY <1>3 DEF TeamInv, TablesKept, Counted, Flushing
    <3>3. ASSUME NEW s \in Team
          PROVE  GetActiveMemberCount(s) \in Nat /\ cachedCount[s] \in Nat \cup {None} /\ MaxUsersPerTeam \in Nat
      BY <1>1, CountIs, TeamStoreAssumption DEF Typed, TypeOK
    <3>4. ASSUME NEW s \in Team \ lost
          PROVE  /\ GetActiveMemberCount(s)' <= MaxUsersPerTeam
                 /\ cachedCount[s] # None => GetActiveMemberCount(s)' <= cachedCount[s]
      BY <3>1, <3>2, <3>3
    <3> QED BY <1>5, <2>0, <3>4 DEF Counted
  <2>6. KeepsAnAdmin
    <3>1. u \in LiveAdmins(t) => (r.row.type = "admin" /\ phase = "type") \/ \E v \in LiveAdmins(t) : v # u
      <4>1. CASE phase = "type"
        BY <1>2, <4>1 DEF TeamInv, Knows, KnowsMember
      <4>2. CASE phase = "leave"
        BY <1>2, <4>2 DEF TeamInv, Knows, KnowsMember, Leaving, LiveAdmins
      <4> QED BY <4>1, <4>2
    <3>2. ASSUME NEW s \in Team, NEW v \in LiveAdmins(s), s # t \/ v # u, UNCHANGED users
          PROVE  v \in LiveAdmins(s)'
      BY <1>5, <3>2 DEF LiveAdmins
    <3>3. ASSUME NEW s \in Team, s = t, r.row.type = "admin", phase = "type", u \in LiveAdmins(s)
          PROVE  u \in LiveAdmins(s)'
      <4>1. members'[t][u] = Retyped(members[t][u], "admin")
        BY <1>2, <1>5, <3>3 DEF TeamInv, Knows, KnowsMember
      <4>2. members'[t][u].type = "admin" /\ members'[t][u].status = members[t][u].status
        BY <1>3, <4>1 DEF Retyped, MemberRow
      <4> QED BY <1>2, <1>5, <3>3, <4>2 DEF LiveAdmins
    <3>4. ASSUME NEW s \in Team, NEW v \in LiveAdmins(s), UNCHANGED users
          PROVE  LiveAdmins(s)' # {}
      <4>1. CASE s # t \/ v # u
        BY <3>2, <3>4, <4>1
      <4>2. CASE s = t /\ v = u
        <5>1. CASE r.row.type = "admin" /\ phase = "type"
          BY <3>3, <3>4, <4>2, <5>1
        <5>2. CASE \E w \in LiveAdmins(t) : w # u
          <6>1. PICK w \in LiveAdmins(t) : w # u
            BY <5>2
          <6> QED BY <3>2, <3>4, <4>2, <6>1
        <5> QED BY <3>1, <3>4, <4>2, <5>1, <5>2
      <4> QED BY <4>1, <4>2
    <3> QED BY <3>4 DEF KeepsAnAdmin
  <2>7. Knows(r)'
    BY <2>0, NothingNext DEF Knows, Entering, Leaving, Rewriting, Grouped, Granting
  <2>8. TokensSpent(r)'
    BY <1>3, <1>5, <2>0, TokensStay
  <2> QED BY <1>2, <1>5, <2>0, <2>2, <2>3, <2>4, <2>5, <2>6, <2>7, <2>8, InvitesStay, AdminsStay
          DEF TeamInv, TablesKept, Remain
<1> QED BY <1>2, <1>4, <1>5

LEMMA LeaveGroupKeeps ==
  ASSUME NEW pr \in Proc, TeamInv(pr), LeaveTeam(pr)
  PROVE  TeamInv(pr)' /\ Remain
<1> DEFINE r == request[pr]
           q == request'[pr]
           u == r.user
<1>1. Typed
  BY DEF TeamInv
<1>2. /\ Typed' /\ r.at = "groups" /\ r.team \in Team /\ u \in User /\ r.then = "idle"
      /\ UNCHANGED <<users, teams, members, groups, tokens, cachedCount, histories, served>>
      /\ UNCHANGED <<withdrawn, admitted, earned, lost>>
  BY <1>1, LeaveGroupIs, Current DEF Sound, histories
<1>3. PICK g \in r.todo :
              /\ g \in Group /\ groupMembers'[g][u] = "none"
              /\ \A h \in Group, v \in User : h # g \/ v # u => groupMembers'[h][v] = groupMembers[h][v]
              /\ q.todo = r.todo \ {g} /\ q.at = (IF r.todo = {g} THEN "leave" ELSE "groups")
              /\ q.team = r.team /\ q.user = u /\ q.row = r.row /\ q.then = r.then
              /\ q.token = r.token
  BY <1>1, LeaveGroupIs
<1>4. \A h \in Group, v \in User : groupMembers'[h][v] # "none" => groupMembers'[h][v] = groupMembers[h][v]
  BY <1>3
<1>5. NoStrangers' /\ GroupMembersAreTeamMembers'
  BY <1>2, <1>3, <1>4 DEF TeamInv, TablesKept, NoStrangers, GroupMembersAreTeamMembers
<1>6. \A k : ~Spends(r, k)
  BY <1>2 DEF Spends
<1>7. Counted(r)' /\ TokensSpent(r)' /\ InvitesOrdered'
  BY <1>2, <1>6, CountsStay, TokensStay, InvitesStay
<1>8. q.at \in Leaving /\ r.at \in Leaving
  BY <1>2, <1>3 DEF Leaving
<1>9. KnowsMember(r)'
  BY <1>2, <1>3, <1>8 DEF TeamInv, Knows, KnowsMember, Entering, Leaving
<1>10. KnowsGroup(r)'
  <2>1. \A h \in Group : /\ h \in r.todo => TeamOf[h] = r.team
                         /\ TeamOf[h] = r.team /\ groupMembers[h][u] # "none" => h \in r.todo
    BY <1>8 DEF TeamInv, Knows, KnowsGroup
  <2>2. \A h \in Group : /\ h \in q.todo => TeamOf[h] = q.team
                         /\ TeamOf[h] = q.team /\ groupMembers'[h][u] # "none" => h \in q.todo
    BY <1>2, <1>3, <1>4, <2>1
  <2>3. (q.at = "groups" => q.todo # {}) /\ (q.at = "leave" => q.todo = {})
    BY <1>3
  <2> QED BY <1>3, <1>8, <2>2, <2>3 DEF KnowsGroup, Leaving, Grouped, Granting
<1>11. KnowsCount(r)' /\ KnowsTeam(r)' /\ KnowsInvite(r)' /\ KnowsToken(r)'
  BY <1>2, <1>3, <1>8, NothingNext DEF Leaving, Rewriting, Entering
<1>12. KeepsAGroupAdmin
  <2>1. ASSUME NEW h \in Group, h # g PROVE GetGroupAdmins(h)' = GetGroupAdmins(h)
    BY <1>2, <1>3, <2>1 DEF GetGroupAdmins
  <2> QED BY <1>2, <1>3, <2>1 DEF KeepsAGroupAdmin
<1> QED BY <1>2, <1>5, <1>7, <1>9, <1>10, <1>11, <1>12, RowsStay, AdminsStay DEF TeamInv, TablesKept, Knows, Remain

(* The team's own row.                                                     *)
LEMMA WriteTeamKeeps ==
  ASSUME NEW pr \in Proc, TeamInv(pr), WriteTeam(pr)
  PROVE  TeamInv(pr)' /\ Remain
<1> DEFINE r == request[pr]
           q == request'[pr]
           t == r.team
           row == r.teamRow
<1>1. Typed
  BY DEF TeamInv
<1>2. /\ Typed' /\ r.at \in Rewriting /\ t \in Team /\ UNCHANGED served
      /\ \/ q = Idle /\ UNCHANGED <<tables, cachedCount, histories>>
         \/ /\ q = IF r.at = "mark" THEN [r EXCEPT !.at = "members"] ELSE Idle
            /\ teams[t].status # "none"
            /\ teams'[t] = row /\ \A s \in Team : s # t => teams'[s] = teams[s]
            /\ withdrawn'[t] = IF row.invite = teams[t].invite THEN withdrawn[t]
                               ELSE withdrawn[t] \cup {teams[t].invite}
            /\ \A s \in Team : s # t => withdrawn'[s] = withdrawn[s]
            /\ UNCHANGED <<users, members, groups, groupMembers, tokens, cachedCount,
                           admitted, earned, lost>>
  BY <1>1, WriteTeamIs
<1>3. /\ r \in Request /\ r.then = "idle" /\ r.at # "flush" /\ \A k : ~Spends(r, k)
  BY <1>1, <1>2, Current DEF Sound, Spends, Rewriting
<1>4. CASE q = Idle /\ UNCHANGED <<tables, cachedCount, histories>>
  BY <1>1, <1>2, <1>3, <1>4, RejectKeeps
<1>5. CASE /\ q = IF r.at = "mark" THEN [r EXCEPT !.at = "members"] ELSE Idle
           /\ teams[t].status # "none"
           /\ teams'[t] = row /\ \A s \in Team : s # t => teams'[s] = teams[s]
           /\ withdrawn'[t] = IF row.invite = teams[t].invite THEN withdrawn[t]
                              ELSE withdrawn[t] \cup {teams[t].invite}
           /\ \A s \in Team : s # t => withdrawn'[s] = withdrawn[s]
           /\ UNCHANGED <<users, members, groups, groupMembers, tokens, cachedCount,
                          admitted, earned, lost>>
  <2>1. /\ q.at \in {"idle", "members"} /\ q.then = "idle"
        /\ q.at = "members" => q.team = t /\ r.at = "mark"
    <3>1. CASE r.at = "mark"
      BY <1>3, <1>5, <3>1 DEF Request
    <3>2. CASE r.at # "mark"
      BY <1>5, <3>2, IdleFields
    <3> QED BY <3>1, <3>2
  <2>2. /\ row.status \in {teams[t].status, "deleted"} /\ (r.at = "mark" => row.status = "deleted")
        /\ row.invite <= served
        /\ row.invite = teams[t].invite \/ \A i \in withdrawn[t] \cup {teams[t].invite} : i < row.invite
    BY <1>2 DEF TeamInv, Knows, KnowsTeam, KnowsInvite
  <2>3. /\ teams[t] \in TeamRow /\ row \in TeamRow /\ withdrawn[t] \subseteq Nat /\ served \in Nat
        /\ teams[t].invite \in Nat /\ row.invite \in Nat
    BY <1>1, <1>2, <1>3, RowsAre DEF Typed, TypeOK, Request, TeamRow
  <2>4. \A g \in Group : TeamOf[g] \in Team
    BY TeamStoreAssumption
  <2>5. NoStrangers'
    <3>1. \A s \in Team : teams'[s].status = "none" => teams[s] = teams'[s] /\ withdrawn'[s] = withdrawn[s]
      BY <1>5, <2>2
    <3> QED BY <1>5, <2>4, <3>1 DEF TeamInv, TablesKept, NoStrangers
  <2>6. GroupMembersAreTeamMembers'
    <3>1. \A s \in Team : teams'[s].status = "live" => teams[s].status = "live"
      BY <1>5, <2>2
    <3> QED BY <1>5, <2>4, <3>1 DEF TeamInv, TablesKept, GroupMembersAreTeamMembers
  <2>7. InvitesOrdered'
    <3>1. /\ teams[t].invite <= served /\ (\A i \in withdrawn[t] : i <= served)
          /\ teams[t].invite \notin withdrawn[t]
      BY <1>2, <1>5 DEF TeamInv, TablesKept, InvitesOrdered
    <3>2. /\ teams'[t].invite <= served' /\ (\A i \in withdrawn'[t] : i <= served')
      BY <1>2, <1>5, <2>2, <3>1
    <3>3. teams'[t].invite \notin withdrawn'[t]
      BY <1>5, <2>2, <2>3, <3>1
    <3>4. ASSUME NEW s \in Team
          PROVE  /\ teams'[s].invite <= served' /\ (\A i \in withdrawn'[s] : i <= served')
                 /\ teams'[s].status # "none" => teams'[s].invite \notin withdrawn'[s]
      <4>1. CASE s = t
        BY <3>2, <3>3, <4>1
      <4>2. CASE s # t
        BY <1>2, <1>5, <4>2 DEF TeamInv, TablesKept, InvitesOrdered
      <4> QED BY <4>1, <4>2
    <3> QED BY <3>4 DEF InvitesOrdered
  <2>8. Counted(r)' /\ TokensSpent(r)'
    BY <1>3, <1>5, CountsStay, TokensStay
  <2>9. KnowsTeam(r)'
    BY <1>5, <2>1, <2>2 DEF KnowsTeam, Rewriting
  <2>10. KnowsMember(r)' /\ KnowsCount(r)' /\ KnowsGroup(r)' /\ KnowsInvite(r)' /\ KnowsToken(r)'
    BY <2>1, NothingNext DEF Entering, Leaving, Rewriting, Grouped, Granting
  <2> QED BY <1>2, <1>5, <2>5, <2>6, <2>7, <2>8, <2>9, <2>10, RowsStay, AdminsStay
          DEF TeamInv, TablesKept, Knows, Remain
<1> QED BY <1>2, <1>4, <1>5

LEMMA RemoveAllKeeps ==
  ASSUME NEW pr \in Proc, TeamInv(pr), RemoveAllMembersByTeam(pr)
  PROVE  TeamInv(pr)' /\ Remain
<1> DEFINE r == request[pr]
           q == request'[pr]
           t == r.team
<1>1. Typed
  BY DEF TeamInv
<1>2. /\ Typed' /\ r.at = "members" /\ t \in Team /\ UNCHANGED served
      /\ q = [r EXCEPT !.at = "flush", !.then = "erase"]
      /\ \A u \in User : members'[t][u] = NoMember /\ earned'[t][u] = 0
      /\ \A s \in Team : s # t => members'[s] = members[s] /\ earned'[s] = earned[s]
      /\ UNCHANGED <<users, teams, groups, groupMembers, tokens, cachedCount, withdrawn, admitted, lost>>
  BY <1>1, RemoveAllIs
<1>3. /\ r \in Request /\ r.then = "idle" /\ r.at # "flush" /\ \A k : ~Spends(r, k)
  BY <1>1, <1>2, Current DEF Sound, Spends
<1>4. q.at = "flush" /\ q.team = t /\ q.then = "erase"
  BY <1>2, <1>3 DEF Request
<1>5. teams[t].status = "deleted"
  BY <1>2 DEF TeamInv, Knows, KnowsTeam
<1>6. \A g \in Group : TeamOf[g] \in Team
  BY TeamStoreAssumption
<1>7. NoStrangers' /\ GroupMembersAreTeamMembers'
  <2>1. NoStrangers'
    BY <1>2, <1>6, Rows DEF TeamInv, TablesKept, NoStrangers
  <2>2. \A s \in Team : teams[s].status = "live" => members'[s] = members[s]
    BY <1>2, <1>5
  <2> QED BY <1>2, <1>6, <2>1, <2>2 DEF TeamInv, TablesKept, GroupMembersAreTeamMembers
<1>8. PointsKept'
  BY <1>2, Rows DEF TeamInv, TablesKept, PointsKept
<1>9. Counted(r)'
  <2>1. ASSUME NEW s \in Team
        PROVE  GetActiveMemberCount(s)' <= GetActiveMemberCount(s) /\ GetActiveMemberCount(s)' \in Nat
    <3>1. ActiveMembers(s)' \subseteq ActiveMembers(s)
      BY <1>2, Rows DEF ActiveMembers
    <3> QED BY <3>1, FewerMembers
  <2>2. ASSUME NEW s \in Team \ lost
        PROVE  /\ GetActiveMemberCount(s) <= MaxUsersPerTeam
               /\ cachedCount[s] # None => GetActiveMemberCount(s) <= cachedCount[s]
    BY <1>3 DEF TeamInv, TablesKept, Counted, Flushing
  <2>3. ASSUME NEW s \in Team
        PROVE  GetActiveMemberCount(s) \in Nat /\ cachedCount[s] \in Nat \cup {None} /\ MaxUsersPerTeam \in Nat
    BY <1>1, CountIs, TeamStoreAssumption DEF Typed, TypeOK
  <2>4. ASSUME NEW s \in Team \ lost
        PROVE  /\ GetActiveMemberCount(s)' <= MaxUsersPerTeam
               /\ cachedCount[s] # None => GetActiveMemberCount(s)' <= cachedCount[s]
    BY <2>1, <2>2, <2>3
  <2> QED BY <1>2, <2>4 DEF Counted
<1>10. TokensSpent(r)' /\ InvitesOrdered'
  BY <1>2, <1>3, TokensStay, InvitesStay
<1>11. KnowsTeam(r)'
  BY <1>2, <1>4, <1>5 DEF KnowsTeam, Rewriting
<1>12. KnowsMember(r)' /\ KnowsCount(r)' /\ KnowsGroup(r)' /\ KnowsInvite(r)' /\ KnowsToken(r)'
  BY <1>4, NothingNext DEF Entering, Leaving, Rewriting, Grouped, Granting
<1>13. KeepsAnAdmin
  <2>1. ASSUME NEW s \in Team, s # t, UNCHANGED users PROVE LiveAdmins(s)' = LiveAdmins(s)
    BY <1>2, <2>1 DEF LiveAdmins
  <2> QED BY <1>5, <2>1 DEF KeepsAnAdmin
<1> QED BY <1>2, <1>7, <1>8, <1>9, <1>10, <1>11, <1>12, <1>13, AdminsStay DEF TeamInv, TablesKept, Knows, Remain

LEMMA EraseKeeps ==
  ASSUME NEW pr \in Proc, TeamInv(pr), PermanentDelete(pr)
  PROVE  TeamInv(pr)' /\ Remain
<1> DEFINE r == request[pr]
           q == request'[pr]
           t == r.team
<1>1. Typed
  BY DEF TeamInv
<1>2. /\ Typed' /\ r.at = "erase" /\ t \in Team /\ UNCHANGED served
      /\ q = [r EXCEPT !.at = "flush", !.then = "idle"]
      /\ teams'[t] = NoTeam /\ \A s \in Team : s # t => teams'[s] = teams[s]
      /\ withdrawn'[t] = withdrawn[t] \cup {teams[t].invite}
      /\ \A s \in Team : s # t => withdrawn'[s] = withdrawn[s]
      /\ UNCHANGED <<users, members, groups, groupMembers, tokens, cachedCount, admitted, earned, lost>>
  BY <1>1, EraseIs
<1>3. /\ r \in Request /\ r.then = "idle" /\ r.at # "flush" /\ \A k : ~Spends(r, k)
  BY <1>1, <1>2, Current DEF Sound, Spends
<1>4. q.at = "flush" /\ q.then = "idle"
  BY <1>2, <1>3 DEF Request
<1>5. \A g \in Group : TeamOf[g] \in Team
  BY TeamStoreAssumption
<1>6. NoStrangers'
  <2>1. withdrawn'[t] # {}
    BY <1>2
  <2> QED BY <1>2, <1>5, <2>1 DEF TeamInv, TablesKept, NoStrangers
<1>7. GroupMembersAreTeamMembers'
  BY <1>2, <1>5, Rows DEF TeamInv, TablesKept, GroupMembersAreTeamMembers
<1>8. InvitesOrdered'
  <2>1. served \in Nat /\ NoTeam.invite = 0 /\ NoTeam.status = "none"
    BY <1>1 DEF Typed, TypeOK, NoTeam
  <2> QED BY <1>2, <2>1 DEF TeamInv, TablesKept, InvitesOrdered
<1>9. Counted(r)' /\ TokensSpent(r)'
  BY <1>2, <1>3, CountsStay, TokensStay
<1>10. Knows(r)'
  BY <1>4, NothingNext DEF Knows, Entering, Leaving, Rewriting, Grouped, Granting
<1> QED BY <1>2, <1>6, <1>7, <1>8, <1>9, <1>10, RowsStay, AdminsStay DEF TeamInv, TablesKept, Remain

(* The cached count is deleted, or a request does not live to do so.       *)
LEMMA FlushKeeps ==
  ASSUME NEW pr \in Proc, TeamInv(pr), InvalidateMemberCount(pr)
  PROVE  TeamInv(pr)' /\ Remain
<1> DEFINE r == request[pr]
           q == request'[pr]
           t == r.team
<1>1. Typed
  BY DEF TeamInv
<1>2. /\ Typed' /\ r.at = "flush" /\ t \in Team /\ UNCHANGED served
      /\ \/ r.then = "idle" /\ q = Idle
         \/ r.then \in {"spend", "erase"} /\ q = [r EXCEPT !.at = r.then, !.then = "idle"]
      /\ \/ cachedCount'[t] = None /\ UNCHANGED lost
         \/ lost' = lost \cup {t} /\ UNCHANGED cachedCount
      /\ \A s \in Team : s # t => cachedCount'[s] = cachedCount[s]
      /\ UNCHANGED <<tables, withdrawn, admitted, earned>>
      /\ UNCHANGED <<users, teams, members, groups, groupMembers, tokens>>
  BY <1>1, FlushIs DEF tables
<1>3. /\ r \in Request /\ lost \subseteq lost'
      /\ q.then = "idle" /\ q.at = r.then /\ (r.then # "idle" => q.team = t /\ q.token = r.token)
      /\ r.then \in {"idle", "spend", "erase"}
  BY <1>1, <1>2, Current, IdleFields DEF Request
<1>4. Counted(r)'
  <2>1. ASSUME NEW s \in Team PROVE GetActiveMemberCount(s)' = GetActiveMemberCount(s)
    BY <1>2 DEF GetActiveMemberCount, ActiveMembers
  <2>2. ASSUME NEW s \in Team \ lost'
        PROVE  /\ GetActiveMemberCount(s) <= MaxUsersPerTeam
               /\ cachedCount'[s] # None => GetActiveMemberCount(s) <= cachedCount'[s]
    BY <1>2, <1>3 DEF TeamInv, TablesKept, Counted, Flushing
  <2> QED BY <2>1, <2>2 DEF Counted
<1>5. TokensSpent(r)'
  <2>1. \A k \in Token \ lost' : Spends(r, k) => Spends(q, k)
    BY <1>2, <1>3 DEF Spends
  <2> QED BY <1>2, <1>3, <2>1, TokensStay
<1>6. KnowsTeam(r)'
  <2>1. r.then = "erase" => teams[t].status = "deleted"
    BY DEF TeamInv, Knows, KnowsTeam
  <2> QED BY <1>2, <1>3, <2>1 DEF KnowsTeam, Rewriting
<1>7. KnowsMember(r)' /\ KnowsCount(r)' /\ KnowsGroup(r)' /\ KnowsInvite(r)' /\ KnowsToken(r)'
  BY <1>3, NothingNext DEF Entering, Leaving, Rewriting, Grouped, Granting
<1> QED BY <1>2, <1>4, <1>5, <1>6, <1>7, RowsStay, InvitesStay, AdminsStay DEF TeamInv, TablesKept, Knows, Remain

LEMMA FaultKeeps ==
  ASSUME NEW pr \in Proc, TeamInv(pr), Fault(pr)
  PROVE  TeamInv(pr)' /\ Remain
<1> DEFINE r == request[pr]
<1>1. Typed
  BY DEF TeamInv
<1>2. /\ Typed' /\ request'[pr] = Idle /\ lost \subseteq lost'
      /\ r.at = "flush" => r.team \in lost'
      /\ "spend" \in {r.at, r.then} => r.token \in lost'
      /\ UNCHANGED <<cachedCount, served, withdrawn, admitted, earned>>
      /\ UNCHANGED <<users, teams, members, groups, groupMembers, tokens>>
  BY <1>1, FaultIs DEF tables
<1>3. Counted(r)'
  BY <1>2, CountsStay
<1>4. TokensSpent(r)'
  <2>1. \A k \in Token \ lost' : ~Spends(r, k)
    BY <1>2 DEF Spends
  <2> QED BY <1>2, <2>1, TokensStay
<1> QED BY <1>2, <1>3, <1>4, RowsStay, InvitesStay, AdminsStay, IdleKnows DEF TeamInv, TablesKept, Remain

(* Groups and their members.                                               *)
LEMMA SaveGroupKeeps ==
  ASSUME NEW pr \in Proc, TeamInv(pr), SaveGroup(pr)
  PROVE  TeamInv(pr)' /\ Remain
<1> DEFINE r == request[pr]
           q == request'[pr]
           g == r.group
<1>1. Typed
  BY DEF TeamInv
<1>2. /\ Typed' /\ r.at = "group_save" /\ g \in Group /\ UNCHANGED <<groupMembers, served>>
      /\ UNCHANGED <<users, teams, members, tokens, cachedCount, histories>>
      /\ \/ q = Idle /\ UNCHANGED groups
         \/ /\ q = [r EXCEPT !.at = "group_admin"]
            /\ groups'[g] = "live" /\ \A h \in Group : h # g => groups'[h] = groups[h]
  BY <1>1, SaveGroupIs DEF rest
<1>3. /\ r \in Request /\ r.then = "idle" /\ r.at # "flush" /\ r.team = TeamOf[g] /\ \A k : ~Spends(r, k)
  BY <1>1, <1>2, Current DEF Sound, Spends, Grouped, Granting
<1>4. CASE q = Idle /\ UNCHANGED groups
  <2>1. UNCHANGED <<tables, cachedCount, histories, served>>
    BY <1>2, <1>4 DEF tables
  <2> QED BY <1>2, <1>3, <1>4, <2>1, RejectKeeps
<1>5. CASE /\ q = [r EXCEPT !.at = "group_admin"]
           /\ groups'[g] = "live" /\ \A h \in Group : h # g => groups'[h] = groups[h]
  <2>1. /\ q.at = "group_admin" /\ q.team = r.team /\ q.user = r.user /\ q.group = g /\ q.then = "idle"
    BY <1>3, <1>5 DEF Request
  <2>2. /\ groups[g] = "none" /\ teams[r.team].status # "none"
        /\ members[r.team][r.user].status = "in"
    BY <1>2 DEF TeamInv, Knows, KnowsGroup, Grouped, Granting
  <2>3. UNCHANGED <<withdrawn, admitted, earned, lost>>
    BY <1>2 DEF histories
  <2>4. NoStrangers'
    BY <1>2, <1>3, <1>5, <2>2, <2>3 DEF TeamInv, TablesKept, NoStrangers
  <2>5. Counted(r)' /\ TokensSpent(r)'
    BY <1>2, <1>3, <2>3, CountsStay, TokensStay
  <2>6. KnowsGroup(r)'
    BY <1>2, <1>5, <2>1, <2>2 DEF KnowsGroup, Grouped, Granting, Leaving
  <2>7. KnowsMember(r)' /\ KnowsCount(r)' /\ KnowsTeam(r)' /\ KnowsInvite(r)' /\ KnowsToken(r)'
    BY <2>1, NothingNext DEF Entering, Leaving, Rewriting
  <2> QED BY <1>2, <2>3, <2>4, <2>5, <2>6, <2>7, RowsStay, InvitesStay, AdminsStay
          DEF TeamInv, TablesKept, Knows, Remain
<1> QED BY <1>2, <1>4, <1>5

LEMMA GroupRowKeeps ==
  ASSUME NEW pr \in Proc, TeamInv(pr), UpdateGroup(pr) \/ DeleteGroup(pr)
  PROVE  TeamInv(pr)' /\ Remain
<1> DEFINE r == request[pr]
           g == r.group
<1>1. Typed
  BY DEF TeamInv
<1>2. /\ Typed' /\ r.at \in {"group_update", "group_delete"} /\ g \in Group /\ request'[pr] = Idle
      /\ UNCHANGED <<groupMembers, served>>
      /\ UNCHANGED <<users, teams, members, tokens, cachedCount, histories>>
      /\ UNCHANGED <<withdrawn, admitted, earned, lost>>
      /\ UNCHANGED groups \/ groups'[g] \in {"live", "deleted"}
      /\ \A h \in Group : h # g => groups'[h] = groups[h]
  BY <1>1, GroupRowIs DEF rest, histories
<1>3. /\ r.at # "flush" /\ \A k : ~Spends(r, k)
  BY <1>1, <1>2, Current DEF Sound, Spends
<1>4. groups[g] # "none"
  BY <1>2 DEF TeamInv, Knows, KnowsGroup, Grouped
<1>5. \A h \in Group : groups'[h] = "none" <=> groups[h] = "none"
  BY <1>2, <1>4
<1>6. NoStrangers'
  BY <1>2, <1>5 DEF TeamInv, TablesKept, NoStrangers
<1>7. Counted(r)' /\ TokensSpent(r)'
  BY <1>2, <1>3, CountsStay, TokensStay
<1> QED BY <1>2, <1>6, <1>7, RowsStay, InvitesStay, AdminsStay, IdleKnows DEF TeamInv, TablesKept, Remain

LEMMA GroupMemberKeeps ==
  ASSUME NEW pr \in Proc, TeamInv(pr),
         CreateGroup(pr) \/ addUserToGroup(pr) \/ UpdateGroupMemberType(pr) \/ removeUserFromGroup(pr)
  PROVE  TeamInv(pr)' /\ Remain
<1> DEFINE r == request[pr]
           g == r.group
           u == r.user
<1>1. Typed
  BY DEF TeamInv
<1>2. /\ Typed' /\ r.at \in {"group_admin", "group_add", "group_type", "group_remove"}
      /\ g \in Group /\ u \in User /\ request'[pr] = Idle
      /\ UNCHANGED <<groups, served>>
      /\ UNCHANGED <<users, teams, members, tokens, cachedCount, histories>>
      /\ UNCHANGED <<withdrawn, admitted, earned, lost>>
      /\ \/ UNCHANGED groupMembers
         \/ /\ r.at \in {"group_admin", "group_add"} => groupMembers[g][u] = "none"
            /\ r.at = "group_type" => groupMembers[g][u] # "none"
            /\ r.at \in Granting => groupMembers'[g][u] \in {"normal", "admin"}
            /\ r.at = "group_type" => groupMembers'[g][u] = r.type
            /\ r.at = "group_remove" => groupMembers'[g][u] = "none"
            /\ \A h \in Group, v \in User : h # g \/ v # u => groupMembers'[h][v] = groupMembers[h][v]
  BY <1>1, GroupMemberIs DEF rest, histories
<1>3. /\ r.at # "flush" /\ r.team = TeamOf[g] /\ \A k : ~Spends(r, k)
  BY <1>1, <1>2, Current DEF Sound, Spends, Grouped, Granting
<1>4. /\ groups[g] # "none"
      /\ r.at \in {"group_admin", "group_add"} => members[TeamOf[g]][u].status = "in"
      /\ r.at = "group_type" => \/ r.type = "admin" \/ groupMembers[g][u] # "admin"
                                \/ \E v \in GetGroupAdmins(g) : v # u
      /\ r.at = "group_remove" => groupMembers[g][u] = "normal"
  BY <1>2, <1>3 DEF TeamInv, Knows, KnowsGroup, Grouped, Granting
<1>5. NoStrangers'
  BY <1>2, <1>4 DEF TeamInv, TablesKept, NoStrangers
<1>6. GroupMembersAreTeamMembers'
  BY <1>2, <1>4 DEF TeamInv, TablesKept, GroupMembersAreTeamMembers
<1>7. Counted(r)' /\ TokensSpent(r)'
  BY <1>2, <1>3, CountsStay, TokensStay
<1>8. KeepsAGroupAdmin
  <2>1. CASE UNCHANGED groupMembers
    BY <2>1, AdminsStay
  <2>2. CASE ~ UNCHANGED groupMembers
    <3>1. ASSUME NEW h \in Group, h # g PROVE GetGroupAdmins(h)' = GetGroupAdmins(h)
      BY <1>2, <2>2, <3>1 DEF GetGroupAdmins
    <3>2. ASSUME NEW h \in Group, h = g, NEW v \in GetGroupAdmins(h), v # u PROVE v \in GetGroupAdmins(h)'
      BY <1>2, <2>2, <3>2 DEF GetGroupAdmins
    <3>3. ASSUME NEW h \in Group, h = g, u \in GetGroupAdmins(h)
          PROVE  u \in GetGroupAdmins(h)' \/ \E v \in GetGroupAdmins(h) : v # u
      BY <1>2, <1>4, <2>2, <3>3 DEF GetGroupAdmins
    <3>4. ASSUME NEW h \in Group, h = g, NEW v \in GetGroupAdmins(h) PROVE GetGroupAdmins(h)' # {}
      BY <3>2, <3>3, <3>4
    <3>5. ASSUME NEW h \in Group, GetGroupAdmins(h) # {} PROVE GetGroupAdmins(h)' # {}
      BY <3>1, <3>4, <3>5
    <3> QED BY <3>5 DEF KeepsAGroupAdmin
  <2> QED BY <2>1, <2>2
<1> QED BY <1>2, <1>5, <1>6, <1>7, <1>8, RowsStay, InvitesStay, AdminsStay, IdleKnows
        DEF TeamInv, TablesKept, Remain

-----------------------------------------------------------------------------
(* All steps together, and what follows.                                   *)
LEMMA InitTyped == Init => Typed
<1> SUFFICES ASSUME Init PROVE Typed
  OBVIOUS
<1>1. /\ users \in [User -> UserState] /\ groups \in [Group -> GroupState]
      /\ groupMembers \in [Group -> [User -> GroupMemberState]] /\ tokens \in [Token -> Team \cup {None}]
      /\ cachedCount \in [Team -> Nat \cup {None}] /\ served \in Nat
      /\ withdrawn \in [Team -> SUBSET Nat] /\ admitted \in [Token -> SUBSET User]
      /\ earned \in [Team -> [User -> Nat]] /\ lost \subseteq Team \cup Token
  BY DEF Init, UserState, GroupState, GroupMemberState
<1>2. teams \in [Team -> TeamRow]
  BY Rows DEF Init, TeamRow
<1>3. members \in [Team -> [User -> MemberRow]]
  <2>1. \A t \in Team, u \in User : FoundedMember(t, u) \in MemberRow
    BY Rows DEF FoundedMember, MemberRow, MemberType
  <2> QED BY <2>1 DEF Init
<1>4. request \in [Proc -> Request] /\ \A pr \in Proc : Sound(request[pr])
  BY IdleTyped DEF Init
<1> QED BY <1>1, <1>2, <1>3, <1>4 DEF Typed, TypeOK

LEMMA InitTeamInv == ASSUME NEW pr \in Proc, Init PROVE TeamInv(pr)
<1>1. Typed /\ request[pr] = Idle
  BY InitTyped DEF Init
<1>2. \A t \in Team, u \in User : /\ members[t][u] = FoundedMember(t, u)
                                  /\ earned[t][u] = 0 /\ withdrawn[t] = {} /\ teams[t].invite = 0
                                  /\ t \in Founded => teams[t].status = "live"
  BY DEF Init, NoTeam
<1>3. \A t \in Team, u \in User :
        \/ t \in Founded /\ Founder[t] = u /\ users[u] = "live" /\ members[t][u].status = "in" /\ members[t][u].points = 0
        \/ ~(t \in Founded /\ Founder[t] = u) /\ members[t][u].status = "none"
  <2>1. \A t \in Founded : Founder[t] \in Registered
    BY TeamStoreAssumption
  <2> QED BY <1>2, <2>1, Rows DEF FoundedMember, Init
<1>4. \A g \in Group : groups[g] = "none" /\ \A u \in User : groupMembers[g][u] = "none"
  BY DEF Init
<1>5. NoStrangers /\ GroupMembersAreTeamMembers
  BY <1>3, <1>4 DEF NoStrangers, GroupMembersAreTeamMembers
<1>6. PointsKept
  BY <1>2, <1>3 DEF PointsKept
<1>7. InvitesOrdered
  <2>1. served = 0 /\ \A t \in Team : teams[t].invite = 0 /\ withdrawn[t] = {}
    BY DEF Init, NoTeam
  <2> QED BY <2>1 DEF InvitesOrdered
<1>8. Counted(request[pr])
  <2>1. ASSUME NEW t \in Team PROVE GetActiveMemberCount(t) <= 1
    <3>1. CASE t \in Founded
      <4>1. ActiveMembers(t) \subseteq {Founder[t]}
        BY <1>3, <3>1 DEF ActiveMembers
      <4>2. IsFiniteSet({Founder[t]}) /\ Cardinality({Founder[t]}) = 1
        BY FS_Singleton
      <4> QED BY <4>1, <4>2, FS_Subset DEF GetActiveMemberCount
    <3>2. CASE t \notin Founded
      <4>1. ActiveMembers(t) = {}
        BY <1>3, <3>2 DEF ActiveMembers
      <4> QED BY <4>1, FS_EmptySet DEF GetActiveMemberCount
    <3> QED BY <3>1, <3>2
  <2>2. \A t \in Team : cachedCount[t] = None /\ GetActiveMemberCount(t) \in Nat
    BY CountIs DEF Init
  <2>3. MaxUsersPerTeam \in Nat /\ MaxUsersPerTeam >= 1
    BY TeamStoreAssumption
  <2> QED BY <2>1, <2>2, <2>3 DEF Counted
<1>9. TokensSpent(request[pr])
  BY DEF Init, TokensSpent
<1>10. Knows(request[pr])
  BY <1>1, IdleFields, Nothing DEF Knows, Entering, Leaving, Rewriting, Grouped, Granting
<1> QED BY <1>1, <1>5, <1>6, <1>7, <1>8, <1>9, <1>10 DEF TeamInv, TablesKept

LEMMA StutterKeeps ==
  ASSUME NEW pr \in Proc, TeamInv(pr), UNCHANGED vars
  PROVE  TeamInv(pr)' /\ Remain
<1>1. /\ UNCHANGED <<tables, cachedCount, histories, request, served>>
      /\ UNCHANGED <<users, teams, members, groups, groupMembers, tokens, withdrawn, admitted, earned, lost>>
  BY DEF vars, tables, histories
<1>2. Typed'
  BY <1>1, QuietTyped, Untouched DEF TeamInv, Typed, TypeOK
<1>3. TablesKept(request[pr])'
  BY <1>1, RowsStay, InvitesStay, CountsStay, TokensStay DEF TablesKept
<1>4. KnowsMember(request[pr])' /\ KnowsGroup(request[pr])'
  <2>1. KnowsMember(request[pr])'
    BY <1>1 DEF TeamInv, Knows, KnowsMember, LiveAdmins
  <2>2. KnowsGroup(request[pr])'
    BY <1>1 DEF TeamInv, Knows, KnowsGroup, GetGroupAdmins
  <2> QED BY <2>1, <2>2
<1>5. KnowsCount(request[pr])'
  BY <1>1 DEF TeamInv, Knows, KnowsCount, GetActiveMemberCount, ActiveMembers
<1>6. KnowsTeam(request[pr])' /\ KnowsInvite(request[pr])' /\ KnowsToken(request[pr])'
  BY <1>1 DEF TeamInv, Knows, KnowsTeam, KnowsInvite, KnowsToken
<1> QED BY <1>1, <1>2, <1>3, <1>4, <1>5, <1>6, AdminsStay DEF TeamInv, Knows, Remain

LEMMA StepKeeps ==
  ASSUME NEW pr, Proc = {pr}, TeamInv(pr), [Next]_vars
  PROVE  TeamInv(pr)' /\ Remain
<1>0. pr \in Proc
  OBVIOUS
<1>1. CASE UNCHANGED vars
  BY <1>0, <1>1, StutterKeeps
<1>2. CASE Joins(pr)
  BY <1>0, <1>2, NewcomersKeep, SaveKeeps, SaveUserKeeps, JoinKeeps, SaveMemberKeeps, CacheReadKeeps,
     CacheWriteKeeps, RejoinKeeps, SpendKeeps, InvitingKeeps DEF Joins
<1>3. CASE Membership(pr)
  BY <1>0, <1>3, GoingKeeps, TypeChangeKeeps, LeaveGroupKeeps, WriteMemberKeeps, AwardKeeps, DeletionKeeps
     DEF Membership, RemoveTeamMemberFromTeam, UpdateTeamMemberType
<1>4. CASE Management(pr)
  BY <1>0, <1>4, ManagingKeeps, InvitingKeeps, WriteTeamKeeps, RemoveAllKeeps, EraseKeeps DEF Management
<1>5. CASE Grouping(pr)
  BY <1>0, <1>5, GroupingKeeps, SaveGroupKeeps, GroupMemberKeeps, GroupRowKeeps DEF Grouping
<1>6. CASE InvalidateMemberCount(pr)
  BY <1>0, <1>6, FlushKeeps
<1>7. CASE Fault(pr)
  BY <1>0, <1>7, FaultKeeps
<1> QED BY <1>1, <1>2, <1>3, <1>4, <1>5, <1>6, <1>7 DEF Next

LEMMA TeamInvHolds == ASSUME NEW pr, Proc = {pr} PROVE Spec => []TeamInv(pr)
<1>1. Init => TeamInv(pr)
  BY InitTeamInv
<1>2. TeamInv(pr) /\ [Next]_vars => TeamInv(pr)'
  BY StepKeeps
<1> QED BY <1>1, <1>2, PTL DEF Spec

(* Who is in a group of a live team is in the team, also when LeaveTeam    *)
(* (app/team.go:502) stops half-way, one request at a time.                *)
THEOREM TeamsAndGroupsAgree == ASSUME NEW pr, Proc = {pr} PROVE Spec => []TablesAgree
<1>1. TeamInv(pr) => TablesAgree
  BY DEF TeamInv, Typed, TablesKept, TablesAgree
<1> QED BY <1>1, TeamInvHolds, PTL

(* A team never has more than MaxUsersPerTeam active members, whichever    *)
(* count (GetActiveMemberCount) the way in asked for, and the cached one   *)
(* covers the real one, one request at a time.                             *)
THEOREM TheLimitHolds == ASSUME NEW pr, Proc = {pr} PROVE Spec => []MembersAreCounted
<1>1. TeamInv(pr) => MembersAreCounted
  BY DEF TeamInv, TablesKept, Counted, Flushing, MembersAreCounted, MaxMembersKept, CachedCountCovers
<1> QED BY <1>1, TeamInvHolds, PTL

(* Withdrawn invite ids (RegenerateTeamInviteId) never come back and a     *)
(* token lets one user in (AddUserToTeamByToken), one request at a time.   *)
THEOREM InvitationsDoEnd == ASSUME NEW pr, Proc = {pr} PROVE Spec => []InvitationsEnd
<1>1. TeamInv(pr) => InvitationsEnd
  <2> SUFFICES ASSUME TeamInv(pr) PROVE InvitationsEnd
    OBVIOUS
  <2>1. InviteStaysWithdrawn
    BY DEF TeamInv, TablesKept, InvitesOrdered, InviteStaysWithdrawn
  <2>2. TokenAdmitsOnce
    <3> SUFFICES ASSUME NEW k \in Token \ lost PROVE Cardinality(admitted[k]) <= 1
      BY DEF TokenAdmitsOnce
    <3>1. admitted[k] = {} \/ \E u \in User : admitted[k] = {u}
      BY DEF TeamInv, TablesKept, TokensSpent
    <3>2. Cardinality({}) = 0 /\ \A u \in User : Cardinality({u}) = 1
      BY FS_EmptySet, FS_Singleton
    <3> QED BY <3>1, <3>2
  <2> QED BY <2>1, <2>2 DEF InvitationsEnd
<1> QED BY <1>1, TeamInvHolds, PTL

(* A member's points are the sum of his awards in the team, over changes   *)
(* of type, leaving and coming back (app/team.go:129), one request at a    *)
(* time.                                                                   *)
THEOREM PointsAreKept == ASSUME NEW pr, Proc = {pr} PROVE Spec => []PointsAreEarned
<1>1. TeamInv(pr) => PointsAreEarned
  BY DEF TeamInv, TablesKept, PointsKept, PointsAreEarned
<1> QED BY <1>1, TeamInvHolds, PTL

(* Neither a live team nor a live group loses its last admin: the checks   *)
(* of UpdateTeamMemberType (app/team.go:645), removeTeamMember and         *)
(* UpdateGroupMemberType suffice, one request at a time.                   *)
THEOREM AnAdminRemains == ASSUME NEW pr, Proc = {pr} PROVE Spec => AdminsRemain
<1>1. TeamInv(pr) /\ [Next]_vars => [KeepsAnAdmin /\ KeepsAGroupAdmin]_vars
  BY StepKeeps DEF Remain
<1> QED BY <1>1, TeamInvHolds, PTL DEF Spec, AdminsRemain
=============================================================================
