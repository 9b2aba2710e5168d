----------------------------- MODULE TeamGroups -----------------------------
(***************************************************************************)
(* The user groups of a team and their members: api/user_group.go and      *)
(* app/user_group.go on store/sqlstore/user_group_store.go.                *)
(*                                                                         *)
(* The rows of GroupMemberHistory, written after the changes, are read by  *)
(* nothing and left out.                                                   *)
(***************************************************************************)
EXTENDS TeamStore

rest == <<users, teams, members, tokens, cachedCount, histories>>

(* A request that has read what it needs and writes at phase next.         *)
Acting(pr, next, g, u, type) ==
  /\ Become(pr, [Idle EXCEPT !.at = next, !.team = TeamOf[g], !.group = g,
                             !.user = u, !.type = type])
  /\ UNCHANGED <<tables, cachedCount, histories>>

UpdateRow(g, state) == groups' = [groups EXCEPT ![g] = state]
SetMember(g, u, type) == groupMembers' = [groupMembers EXCEPT ![g][u] = type]

----------------------------------------------------------------------------
(* Groups.                                                                 *)

(* CreateGroupWithUser counts the groups of the team, deleted ones too.    *)
createGroup(pr, actor, g) ==
  /\ Accept(pr, "create_group") /\ teams[TeamOf[g]].status # "none"
  /\ SessionHasPermissionToTeam(actor, TeamOf[g])
  /\ groups[g] = "none" /\ \A q \in Proc : request[q].group # g
  /\ Cardinality(GetTeamGroups(TeamOf[g])) + 1 =< MaxGroupsPerTeam
  /\ Acting(pr, "group_save", g, actor, "admin")

(* The store counts again, the live ones, and inserts.                     *)
SaveGroup(pr) ==
  LET g == request[pr].group IN
  /\ At(pr, "group_save")
  /\ IF Cardinality({h \in GetTeamGroups(TeamOf[g]) : groups[h] = "live"})
          < MaxGroupsPerTeam
     THEN UpdateRow(g, "live") /\ Goto(pr, "group_admin")
     ELSE Finish(pr) /\ UNCHANGED groups
  /\ UNCHANGED <<groupMembers, rest>>

(* CreateGroup ends with its creator as admin, unless he was deleted.      *)
CreateGroup(pr) ==
  LET r == request[pr] IN
  /\ At(pr, "group_admin")
  /\ IF users[r.user] = "live" /\ groupMembers[r.group][r.user] = "none"
     THEN SetMember(r.group, r.user, "admin") ELSE UNCHANGED groupMembers
  /\ Finish(pr)
  /\ UNCHANGED <<groups, rest>>

(* updateGroup changes name and description in the row it read, and writes *)
(* it whole: the group read live is live.                                  *)
updateGroup(pr, actor, g) ==
  /\ Accept(pr, "update_group") /\ groups[g] = "live"
  /\ SessionHasPermissionToGroup(actor, g)
  /\ Acting(pr, "group_update", g, None, "")

UpdateGroup(pr) ==
  LET g == request[pr].group IN
  /\ At(pr, "group_update")
  /\ IF groups[g] # "none" THEN UpdateRow(g, "live") ELSE UNCHANGED groups
  /\ Finish(pr)
  /\ UNCHANGED <<groupMembers, rest>>

deleteGroup(pr, actor, g) ==
  /\ Accept(pr, "delete_group") /\ groups[g] = "live"
  /\ SessionHasPermissionToGroup(actor, g)
  /\ Acting(pr, "group_delete", g, None, "")

DeleteGroup(pr) ==
  /\ At(pr, "group_delete")
  /\ UpdateRow(request[pr].group, "deleted")
  /\ Finish(pr)
  /\ UNCHANGED <<groupMembers, rest>>

----------------------------------------------------------------------------
(* Members.                                                                *)

(* AddUserToGroup: only who is in the team now.                            *)
MayBeAdded(g, u) == users[u] = "live" /\ members[TeamOf[g]][u].status = "in"

(* A member of the team may add himself only if he is an admin of it.      *)
addGroupMember(pr, actor, g, u) ==
  /\ Accept(pr, "add_member") /\ groups[g] # "none"
  /\ groupMembers[g][u] = "none"
  /\ IF actor = u THEN SessionHasPermissionToTeam(actor, TeamOf[g])
                  ELSE SessionHasPermissionToGroup(actor, g)
  /\ MayBeAdded(g, u)
  /\ Acting(pr, "group_add", g, u, "normal")

(* addUserToGroup: a second row of the same member is an error.            *)
addUserToGroup(pr) ==
  LET r == request[pr] IN
  /\ At(pr, "group_add")
  /\ IF groupMembers[r.group][r.user] = "none"
     THEN SetMember(r.group, r.user, r.type) ELSE UNCHANGED groupMembers
  /\ Finish(pr)
  /\ UNCHANGED <<groups, rest>>

updateGroupMemberType(pr, actor, g, u, type) ==
  /\ Accept(pr, "group_type") /\ SessionHasPermissionToGroup(actor, g)
  /\ groupMembers[g][u] \notin {"none", type}
  /\ groupMembers[g][u] = "admin" => Cardinality(GetGroupAdmins(g)) > 1
  /\ Acting(pr, "group_type", g, u, type)

UpdateGroupMemberType(pr) ==
  LET r == request[pr] IN
  /\ At(pr, "group_type")
  /\ IF groupMembers[r.group][r.user] # "none"
     THEN SetMember(r.group, r.user, r.type) ELSE UNCHANGED groupMembers
  /\ Finish(pr)
  /\ UNCHANGED <<groups, rest>>

(* An admin must be made a normal member first.                            *)
Removable(g, u) == groupMembers[g][u] = "normal"

removeGroupMember(pr, actor, g, u) ==
  /\ Accept(pr, "remove_member") /\ groups[g] # "none"
  /\ users[actor] = "live" /\ (actor = u \/ SessionHasPermissionToGroup(actor, g))
  /\ Removable(g, u)
  /\ Acting(pr, "group_remove", g, u, "")

removeUserFromGroup(pr) ==
  LET r == request[pr] IN
  /\ At(pr, "group_remove")
  /\ SetMember(r.group, r.user, "none")
  /\ Finish(pr)
  /\ UNCHANGED <<groups, rest>>
=============================================================================
