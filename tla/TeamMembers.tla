---------------------------- MODULE TeamMembers ----------------------------
(***************************************************************************)
(* Teams, their invitations and their members: app/team.go and             *)
(* api/team.go on store/sqlstore/team_store.go and the cached count of     *)
(* store/cachelayer/team_layer.go.                                         *)
(***************************************************************************)
EXTENDS TeamStore

(* TeamStore.Update: a row that exists is overwritten whole with the row   *)
(* the request read and changed.                                           *)
Update(t, row) ==
  /\ teams[t].status # "none"
  /\ teams' = [teams EXCEPT ![t] = row]
  /\ withdrawn' = [withdrawn EXCEPT ![t] =
                     IF row.invite = teams[t].invite THEN @ ELSE @ \cup {teams[t].invite}]

(* UpdateMember: one transaction that overwrites the row whole; a row that *)
(* is not there is an error.                                               *)
UpdateMember(t, u, row) ==
  /\ members[t][u].status # "none"
  /\ members' = [members EXCEPT ![t][u] = row]

(* A write whose row has gone since it was read is an error: Reject.       *)
Reject(pr) == Finish(pr) /\ UNCHANGED <<tables, cachedCount, histories>>

----------------------------------------------------------------------------
(* Joining.                                                                *)

(* How every way into a team ends: joinUserToTeam with these fields.       *)
Joining(t, u, k, type) ==
  [Idle EXCEPT !.at = "join", !.team = t, !.user = u, !.token = k, !.type = type]

(* createTeam: the team is inserted, then its creator joins as admin.      *)
createTeam(pr, t, u) ==
  /\ Accept(pr, "create") /\ users[u] = "live" /\ teams[t].status = "none"
  /\ \A q \in Proc : request[q].team # t
  /\ withdrawn[t] = {}
  /\ Become(pr, [Joining(t, u, None, "admin") EXCEPT
                   !.at = "create", !.teamRow = [status |-> "live", invite |-> NewId]])
  /\ UNCHANGED <<tables, cachedCount, histories>>

Save(pr) ==
  LET r == request[pr] IN
  /\ At(pr, "create") /\ teams[r.team].status = "none"
  /\ teams' = [teams EXCEPT ![r.team] = r.teamRow]
  /\ Goto(pr, "join")
  /\ UNCHANGED <<users, members, groups, groupMembers, tokens, cachedCount, histories>>

(* SendInviteEmails: a token per address.                                  *)
InviteNewUsersToTeam(pr, actor, t, k) ==
  /\ Accept(pr, "invite") /\ SessionHasPermissionToTeam(actor, t)
  /\ teams[t].status # "none" /\ tokens[k] = None /\ admitted[k] = {}
  /\ tokens' = [tokens EXCEPT ![k] = t]
  /\ UNCHANGED <<users, teams, members, groups, groupMembers, cachedCount, request,
                 histories>>

(* A token is good for 48 hours; one that is older is deleted when it is   *)
(* used, and refused.                                                      *)
RefuseExpiredToken(pr, k) ==
  /\ Accept(pr, "expired") /\ tokens[k] # None
  /\ tokens' = [tokens EXCEPT ![k] = None]
  /\ UNCHANGED <<users, teams, members, groups, groupMembers, cachedCount, request,
                 histories>>

AddUserToTeamByToken(pr, u, k) ==
  /\ Accept(pr, "join_token") /\ users[u] = "live"
  /\ tokens[k] # None /\ teams[tokens[k]].status # "none"
  /\ Become(pr, Joining(tokens[k], u, k, "normal"))
  /\ UNCHANGED <<tables, cachedCount, histories>>

(* The row is found by the id, whether the team is deleted or not.         *)
AddUserToTeamByInviteId(pr, u, t) ==
  /\ Accept(pr, "join_invite") /\ users[u] = "live" /\ teams[t].status # "none"
  /\ Become(pr, Joining(t, u, None, "normal"))
  /\ UNCHANGED <<tables, cachedCount, histories>>

CreateUserWithToken(pr, u, k) ==
  /\ Accept(pr, "signup_token") /\ users[u] = "none"
  /\ tokens[k] # None /\ teams[tokens[k]].status # "none"
  /\ \A q \in Proc : request[q].user # u
  /\ Become(pr, [Joining(tokens[k], u, k, "normal") EXCEPT !.at = "signup"])
  /\ UNCHANGED <<tables, cachedCount, histories>>

CreateUserWithInviteId(pr, u, t) ==
  /\ Accept(pr, "signup_invite") /\ users[u] = "none" /\ teams[t].status # "none"
  /\ \A q \in Proc : request[q].user # u
  /\ Become(pr, [Joining(t, u, None, "normal") EXCEPT !.at = "signup"])
  /\ UNCHANGED <<tables, cachedCount, histories>>

(* CreateNormalUser, as far as it matters here: the account exists.        *)
SaveUser(pr) ==
  /\ At(pr, "signup")
  /\ users' = [users EXCEPT ![request[pr].user] = "live"]
  /\ Goto(pr, "join")
  /\ UNCHANGED <<teams, members, groups, groupMembers, tokens, cachedCount, histories>>

(* Mutant: the token is left in its table. *)
NextKeepsToken(r) == "idle"

(* After the join: a request that came with a token deletes it.            *)
NextOf(r) == IF r.token = None THEN "idle" ELSE "spend"
Admit(r) == admitted' = IF r.token = None THEN admitted
                        ELSE [admitted EXCEPT ![r.token] = @ \cup {r.user}]

(* joinUserToTeam reads the member's row and goes one of three ways.       *)
joinUserToTeam(pr) ==
  LET r == request[pr]
      row == members[r.team][r.user]
  IN /\ At(pr, "join")
     /\ \/ row.status = "none" /\ Goto(pr, "insert")
        \/ /\ row.status = "in"
           /\ IF r.token = None THEN Finish(pr) ELSE Goto(pr, "spend")
        \/ row.status = "left" /\ Become(pr, [r EXCEPT !.at = "count", !.row = row])
     /\ UNCHANGED <<tables, cachedCount, histories>>

HasRoom(t) == GetActiveMemberCount(t) + 1 =< MaxUsersPerTeam

(* SaveMultipleMembers counts on the master, then inserts.                 *)
SaveMember(pr) ==
  LET r == request[pr] IN
  /\ At(pr, "insert")
  /\ IF members[r.team][r.user].status = "none" /\ HasRoom(r.team)
     THEN /\ members' = [members EXCEPT ![r.team][r.user] =
                           [status |-> "in", type |-> r.type, points |-> 0]]
          /\ Admit(r) /\ Flush(pr, NextOf(r))
          /\ UNCHANGED <<users, teams, groups, groupMembers, tokens, cachedCount,
                         withdrawn, earned, lost>>
     ELSE Reject(pr)

(* The layer's GetActiveMemberCount: the cached number, or else the        *)
(* database's, which the next step puts into the cache.                    *)
CachedActiveMemberCount(pr) ==
  LET r == request[pr]
      hit == cachedCount[r.team] # None
      n == IF hit THEN cachedCount[r.team] ELSE GetActiveMemberCount(r.team)
  IN /\ At(pr, "count")
     /\ Become(pr, [r EXCEPT !.count = n, !.at = IF hit THEN "rejoin" ELSE "fill"])
     /\ UNCHANGED <<tables, cachedCount, histories>>

addToCache(pr) ==
  LET r == request[pr] IN
  /\ At(pr, "fill")
  /\ \/ cachedCount' = [cachedCount EXCEPT ![r.team] = r.count]
     \/ Faulty /\ UNCHANGED cachedCount
  /\ Goto(pr, "rejoin")
  /\ UNCHANGED <<tables, histories>>

(* Mutant: the points of the new member row are kept. *)
RejoinedAnew(r) == [status |-> "in", type |-> r.type, points |-> 0]

(* A member who left comes back with the points he had.                    *)
Rejoined(r) == [status |-> "in", type |-> r.type, points |-> r.row.points]

RejoinTeam(pr) ==
  LET r == request[pr] IN
  /\ At(pr, "rejoin")
  /\ \/ /\ r.count < MaxUsersPerTeam
        /\ UpdateMember(r.team, r.user, Rejoined(r))
        /\ Admit(r) /\ Flush(pr, NextOf(r))
        /\ UNCHANGED <<users, teams, groups, groupMembers, tokens, cachedCount,
                       withdrawn, earned, lost>>
     \/ /\ r.count >= MaxUsersPerTeam \/ members[r.team][r.user].status = "none"
        /\ Reject(pr)

DeleteToken(pr) ==
  /\ At(pr, "spend")
  /\ tokens' = [tokens EXCEPT ![request[pr].token] = None]
  /\ Finish(pr)
  /\ UNCHANGED <<users, teams, members, groups, groupMembers, cachedCount, histories>>

----------------------------------------------------------------------------
(* Members.                                                                *)

(* UpdateTeamMemberType: a member of any state, one who left included.     *)
updateTeamMemberType(pr, actor, t, u, type) ==
  LET row == members[t][u] IN
  /\ Accept(pr, "type") /\ SessionHasPermissionToTeam(actor, t)
  /\ row.status # "none" /\ row.type # type
  /\ row.type = "admin" => Cardinality(GetMembers(t)) > 1
  /\ Become(pr, [Idle EXCEPT !.at = "type", !.team = t, !.user = u,
                             !.row = [row EXCEPT !.type = type]])
  /\ UNCHANGED <<tables, cachedCount, histories>>

(* Both a change of type and the end of leaving write the row they read.   *)
WriteMember(pr, phase) ==
  LET r == request[pr] IN
  /\ At(pr, phase)
  /\ \/ /\ UpdateMember(r.team, r.user, r.row)
        /\ Flush(pr, "idle")
        /\ UNCHANGED <<users, teams, groups, groupMembers, tokens, cachedCount, histories>>
     \/ members[r.team][r.user].status = "none" /\ Reject(pr)

UpdateTeamMemberType(pr) == WriteMember(pr, "type")

(* Mutant: the team is left first. *)
LeaveTeamFirst(t, u) == "leave"

(* The groups are left before the team.                                    *)
FirstToLeave(t, u) == IF GetGroups(t, u) = {} THEN "leave" ELSE "groups"

(* Whether he acts himself or an admin does, an admin is not removed.      *)
removeTeamMember(pr, actor, t, u) ==
  LET row == members[t][u] IN
  /\ Accept(pr, "leave")
  /\ actor = u \/ SessionHasPermissionToTeam(actor, t)
  /\ users[actor] = "live" /\ users[u] = "live" /\ teams[t].status # "none"
  /\ row.status # "none" /\ row.type # "admin"
  /\ Become(pr, [Idle EXCEPT !.at = FirstToLeave(t, u),
                             !.team = t, !.user = u, !.todo = GetGroups(t, u),
                             !.row = [row EXCEPT !.status = "left", !.type = ""]])
  /\ UNCHANGED <<tables, cachedCount, histories>>

(* LeaveTeam: out of the groups of the team one by one, then out of it.    *)
LeaveTeam(pr) ==
  LET r == request[pr] IN
  /\ At(pr, "groups")
  /\ \E g \in r.todo :
       /\ groupMembers' = [groupMembers EXCEPT ![g][r.user] = "none"]
       /\ Become(pr, [r EXCEPT !.todo = @ \ {g},
                               !.at = IF r.todo = {g} THEN "leave" ELSE "groups"])
  /\ UNCHANGED <<users, teams, members, groups, tokens, cachedCount, histories>>

RemoveTeamMemberFromTeam(pr) == WriteMember(pr, "leave")

(* A question, answer, vote or flag of a team's post adds to or takes from *)
(* the author's points, if he is a member then.                            *)
AwardTeamPoints(pr, t, u) ==
  /\ Accept(pr, "award") /\ members[t][u].status = "in"
  /\ members' = [members EXCEPT ![t][u].points = @ + 1]
  /\ earned' = [earned EXCEPT ![t][u] = @ + 1]
  /\ UNCHANGED <<users, teams, groups, groupMembers, tokens, cachedCount, request,
                 withdrawn, admitted, lost>>

(* DeleteUser leaves the rows of members and the cached count as they are. *)
DeleteUser(pr, u) ==
  /\ Accept(pr, "delete_user") /\ users[u] = "live"
  /\ users' = [users EXCEPT ![u] = "deleted"]
  /\ UNCHANGED <<teams, members, groups, groupMembers, tokens, cachedCount, request,
                 histories>>

----------------------------------------------------------------------------
(* The team's own row.                                                     *)

Managing(pr, op, actor, t) ==
  /\ Accept(pr, op) /\ SessionHasPermissionToTeam(actor, t)
  /\ teams[t].status # "none"
  /\ UNCHANGED <<tables, cachedCount, histories>>

(* UpdateTeam: the description and the allowed domains are replaced in the *)
(* row read before, the rest of which is written back.                     *)
updateTeam(pr, actor, t) ==
  /\ Managing(pr, "update", actor, t)
  /\ Become(pr, [Idle EXCEPT !.at = "update", !.team = t, !.teamRow = teams[t]])

RegenerateTeamInviteId(pr, actor, t) ==
  /\ Managing(pr, "regenerate", actor, t)
  /\ Become(pr, [Idle EXCEPT !.at = "update", !.team = t,
                             !.teamRow = [teams[t] EXCEPT !.invite = NewId]])

SoftDeleteTeam(pr, actor, t) ==
  /\ Managing(pr, "soft_delete", actor, t)
  /\ Become(pr, [Idle EXCEPT !.at = "update", !.team = t,
                             !.teamRow = [teams[t] EXCEPT !.status = "deleted"]])

PermanentDeleteTeamId(pr, actor, t) ==
  /\ Managing(pr, "delete", actor, t)
  /\ Become(pr, [Idle EXCEPT !.at = "mark", !.team = t,
                             !.teamRow = [teams[t] EXCEPT !.status = "deleted"]])

(* The write of the operations above; a permanent deletion goes on.        *)
WriteTeam(pr) ==
  LET r == request[pr] IN
  /\ r.at \in {"update", "mark"} /\ UNCHANGED served
  /\ \/ /\ Update(r.team, r.teamRow)
        /\ IF r.at = "mark" THEN Goto(pr, "members") ELSE Finish(pr)
        /\ UNCHANGED <<users, members, groups, groupMembers, tokens, cachedCount,
                       admitted, earned, lost>>
     \/ teams[r.team].status = "none" /\ Reject(pr)

RemoveAllMembersByTeam(pr) ==
  LET t == request[pr].team IN
  /\ At(pr, "members")
  /\ members' = [members EXCEPT ![t] = [u \in User |-> NoMember]]
  /\ earned' = [earned EXCEPT ![t] = [u \in User |-> 0]]
  /\ Flush(pr, "erase")
  /\ UNCHANGED <<users, teams, groups, groupMembers, tokens, cachedCount, withdrawn,
                 admitted, lost>>

PermanentDelete(pr) ==
  LET t == request[pr].team IN
  /\ At(pr, "erase")
  /\ teams' = [teams EXCEPT ![t] = NoTeam]
  /\ withdrawn' = [withdrawn EXCEPT ![t] = @ \cup {teams[t].invite}]
  /\ Flush(pr, "idle")
  /\ UNCHANGED <<users, members, groups, groupMembers, tokens, cachedCount, admitted,
                 earned, lost>>
=============================================================================
