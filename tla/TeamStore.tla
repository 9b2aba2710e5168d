----------------------------- MODULE TeamStore -----------------------------
(***************************************************************************)
(* The tables of teams, groups and invitation tokens, the cached count of  *)
(* a team's members, and the way a request reaches them.                   *)
(*                                                                         *)
(* The handlers of api/team.go and api/user_group.go check permissions     *)
(* and conditions with queries of their own (the step that accepts a       *)
(* request here), then write in separate statements, each of them a step:  *)
(* there is no transaction around a handler.  A statement may fail or the  *)
(* server may crash before any of those steps (Fault).                     *)
(*                                                                         *)
(* Reads are modelled on the master.  What a lagging replica adds, that a  *)
(* row changes between its read and its write, happens here between two    *)
(* requests in flight.  A request refused for its parameters, permissions  *)
(* or e-mail domain writes nothing: it is a request that is never made.    *)
(***************************************************************************)
EXTENDS Integers, FiniteSets

CONSTANTS
  User,        \* the accounts there can be
  Registered,  \* those that exist at the start
  Team,        \* the ids teams can have
  Founder,     \* Founder[t]: the creator of team t, for the teams that exist
               \* at the start
  Group,       \* the ids user groups can have
  TeamOf,      \* TeamOf[g]: the TeamId of group g
  Token,       \* the ids invitation tokens can have
  Proc,        \* the requests in flight at any one time
  Ops,         \* the operations this instance of the system is sent
  Faulty,      \* may statements fail and servers crash?
  MaxUsersPerTeam, MaxGroupsPerTeam,   \* TeamSettings
  MaxRequests, \* bound of the model: requests accepted in a behaviour
  None         \* no user, no team, ...: the empty string of the code

Founded == DOMAIN Founder

ASSUME TeamStoreAssumption ==
  /\ IsFiniteSet(User) /\ Registered \subseteq User
  /\ Founded \subseteq Team /\ Founder \in [Founded -> Registered]
  /\ TeamOf \in [Group -> Team] /\ IsFiniteSet(Group)
  /\ Team \cap Token = {}
  /\ Faulty \in BOOLEAN
  /\ MaxUsersPerTeam \in Nat \ {0} /\ MaxGroupsPerTeam \in Nat
  /\ MaxRequests \in Nat
  /\ None \notin User \cup Team \cup Group \cup Token

VARIABLES
  users,        \* users[u]: does the row of Users exist, is it deleted?
  teams,        \* teams[t]: the row of Teams
  members,      \* members[t][u]: the row of TeamMembers
  groups,       \* groups[g]: the row of UserGroups
  groupMembers, \* groupMembers[g][u]: the row of GroupMembers
  tokens,       \* tokens[k]: the team token k invites to; None: no such row
  cachedCount,  \* cachedCount[t]: the Redis entry with t's number of members
  request,      \* request[pr]: what the request in slot pr is doing
  served,       \* the number of requests accepted so far
  withdrawn,    \* history: withdrawn[t]: invite ids t had and has no more
  admitted,     \* history: admitted[k]: the users token k has let in
  earned,       \* history: earned[t][u]: the sum of u's awards in team t
  lost          \* history: teams whose cached count a failed request did not
                \* delete, tokens one has used and not deleted

tables == <<users, teams, members, groups, groupMembers, tokens>>
histories == <<withdrawn, admitted, earned, lost>>
vars == <<tables, cachedCount, request, served, histories>>

----------------------------------------------------------------------------
(* The tables.                                                             *)

UserState == {"none", "live", "deleted"}
TeamRow == [status : {"none", "live", "deleted"}, invite : Nat]
NoTeam == [status |-> "none", invite |-> 0]

(* Type: the empty one is written when a member leaves.                    *)
MemberType == {"", "normal", "admin"}

(* status "in": DeleteAt = 0; "left": DeleteAt # 0; "none": there is no    *)
(* row.                                                                    *)
MemberRow == [status : {"none", "in", "left"}, type : MemberType, points : Nat]
NoMember == [status |-> "none", type |-> "", points |-> 0]

GroupState == {"none", "live", "deleted"}
GroupMemberState == {"none", "normal", "admin"}

(* SELECT count(DISTINCT UserId) of the live members that are live users.  *)
ActiveMembers(t) == {u \in User : members[t][u].status = "in" /\ users[u] = "live"}
GetActiveMemberCount(t) == Cardinality(ActiveMembers(t))

(* Mutant: the admins whose accounts are deleted are counted too. *)
GetMembersOfAnyUser(t) ==
  {u \in User : members[t][u].status = "in" /\ members[t][u].type = "admin"}

(* GetMembers with Type admin and ExcludeDeletedUsers.                     *)
GetMembers(t) == {u \in ActiveMembers(t) : members[t][u].type = "admin"}

(* GetMembers of a group by type: none when the group is deleted.          *)
GetGroupAdmins(g) ==
  {u \in User : groups[g] = "live" /\ groupMembers[g][u] = "admin"}

GetTeamGroups(t) == {g \in Group : TeamOf[g] = t /\ groups[g] # "none"}

(* GetGroups with includeDeleted: the groups of the team the user is in.   *)
GetGroups(t, u) == {g \in GetTeamGroups(t) : groupMembers[g][u] # "none"}

----------------------------------------------------------------------------
(* Permissions.                                                            *)

(* The session holds the rows of TeamMembers of its user with DeleteAt 0.  *)
GetTeamByTeamId(actor, t) ==
  IF members[t][actor].status = "in" THEN members[t][actor].type ELSE ""

(* The permissions the operations here ask for are all of the role of team *)
(* admins and none of that of normal members.                              *)
SessionHasPermissionToTeam(actor, t) ==
  users[actor] = "live" /\ GetTeamByTeamId(actor, t) = "admin"

(* Group admins, and the admins of the team, have those on a group.        *)
SessionHasPermissionToGroup(actor, g) ==
  \/ users[actor] = "live" /\ actor \in GetGroupAdmins(g)
  \/ groups[g] # "none" /\ SessionHasPermissionToTeam(actor, TeamOf[g])

----------------------------------------------------------------------------
(* Requests.                                                               *)

Phase == {"idle", "create", "signup", "join", "insert", "count", "fill", "rejoin",
          "flush", "spend", "type", "groups", "leave", "update", "mark",
          "members", "erase", "group_save", "group_admin", "group_update",
          "group_delete", "group_add", "group_type", "group_remove"}

(* What a request carries: the ids it is about, the rows it read and will  *)
(* write back, the groups still to leave, and what follows the deletion of *)
(* the cached count.                                                       *)
Request == [at : Phase, team : Team \cup {None}, user : User \cup {None},
            group : Group \cup {None}, token : Token \cup {None},
            type : MemberType, row : MemberRow, teamRow : TeamRow, count : Nat,
            todo : SUBSET Group, then : Phase]

Idle == [at |-> "idle", team |-> None, user |-> None, group |-> None,
         token |-> None, type |-> "", row |-> NoMember, teamRow |-> NoTeam,
         count |-> 0, todo |-> {}, then |-> "idle"]

Become(pr, r) == request' = [request EXCEPT ![pr] = r]
Finish(pr) == Become(pr, Idle)
Goto(pr, phase) == Become(pr, [request[pr] EXCEPT !.at = phase])

Accept(pr, op) ==
  /\ op \in Ops /\ request[pr] = Idle
  /\ served < MaxRequests /\ served' = served + 1

At(pr, phase) == request[pr].at = phase /\ UNCHANGED served

(* NewId: an invite id no team has had.                                    *)
NewId == served + 1

(* Mutant: the cached count is not deleted. *)
FlushNothing(pr, phase) == IF phase = "idle" THEN Finish(pr) ELSE Goto(pr, phase)

(* After the statement that changed the members of the team the layer      *)
(* around the store deletes the cached count, then the request goes on.    *)
Flush(pr, phase) == Become(pr, [request[pr] EXCEPT !.at = "flush", !.then = phase])

(* InvalidateMemberCount: the error of Redis is ignored.                   *)
InvalidateMemberCount(pr) ==
  LET r == request[pr]
      next == IF r.then = "idle" THEN Idle ELSE [r EXCEPT !.at = r.then, !.then = "idle"]
  IN /\ At(pr, "flush")
     /\ \/ /\ cachedCount' = [cachedCount EXCEPT ![r.team] = None]
           /\ lost' = lost
        \/ Faulty /\ lost' = lost \cup {r.team} /\ UNCHANGED cachedCount
     /\ Become(pr, next)
     /\ UNCHANGED <<tables, withdrawn, admitted, earned>>

(* A statement fails, or the server crashes: what was written stays.       *)
Fault(pr) ==
  LET r == request[pr] IN
  /\ Faulty /\ r # Idle
  /\ lost' = lost \cup (IF r.at = "flush" THEN {r.team} ELSE {})
                  \cup (IF "spend" \in {r.at, r.then} THEN {r.token} ELSE {})
  /\ Finish(pr)
  /\ UNCHANGED <<tables, cachedCount, served, withdrawn, admitted, earned>>

----------------------------------------------------------------------------
FoundedMember(t, u) ==
  IF t \in Founded /\ Founder[t] = u
  THEN [status |-> "in", type |-> "admin", points |-> 0] ELSE NoMember

Init ==
  /\ users = [u \in User |-> IF u \in Registered THEN "live" ELSE "none"]
  /\ teams = [t \in Team |-> IF t \in Founded
                             THEN [status |-> "live", invite |-> 0] ELSE NoTeam]
  /\ members = [t \in Team |-> [u \in User |-> FoundedMember(t, u)]]
  /\ groups = [g \in Group |-> "none"]
  /\ groupMembers = [g \in Group |-> [u \in User |-> "none"]]
  /\ tokens = [k \in Token |-> None]
  /\ cachedCount = [t \in Team |-> None]
  /\ request = [pr \in Proc |-> Idle]
  /\ served = 0
  /\ withdrawn = [t \in Team |-> {}]
  /\ admitted = [k \in Token |-> {}]
  /\ earned = [t \in Team |-> [u \in User |-> 0]]
  /\ lost = {}
=============================================================================
