------------------------------- MODULE Teams -------------------------------
(***************************************************************************)
(* Teams, their members and their groups together, and what must be true   *)
(* of them.                                                                *)
(*                                                                         *)
(* Two requests in flight break most of what follows: the rows a request   *)
(* decides by are read before, and not in the transaction of, what it      *)
(* writes.  One request at a time, with statements that fail anywhere      *)
(* between its steps, keeps it.                                            *)
(***************************************************************************)
EXTENDS TeamMembers, TeamGroups

Joins(pr) ==
  \/ \E u \in User, t \in Team : \/ createTeam(pr, t, u)
                                 \/ AddUserToTeamByInviteId(pr, u, t)
                                 \/ CreateUserWithInviteId(pr, u, t)
  \/ \E u \in User, k \in Token : \/ AddUserToTeamByToken(pr, u, k)
                                  \/ CreateUserWithToken(pr, u, k)
  \/ Save(pr) \/ SaveUser(pr) \/ joinUserToTeam(pr) \/ SaveMember(pr)
  \/ CachedActiveMemberCount(pr) \/ addToCache(pr) \/ RejoinTeam(pr)
  \/ DeleteToken(pr) \/ \E k \in Token : RefuseExpiredToken(pr, k)

Membership(pr) ==
  \/ \E actor, u \in User, t \in Team :
       \/ removeTeamMember(pr, actor, t, u)
       \/ \E type \in {"normal", "admin"} : updateTeamMemberType(pr, actor, t, u, type)
  \/ LeaveTeam(pr) \/ RemoveTeamMemberFromTeam(pr) \/ UpdateTeamMemberType(pr)
  \/ \E u \in User, t \in Team : AwardTeamPoints(pr, t, u)
  \/ \E u \in User : DeleteUser(pr, u)

Management(pr) ==
  \/ \E actor \in User, t \in Team :
       \/ updateTeam(pr, actor, t) \/ RegenerateTeamInviteId(pr, actor, t)
       \/ SoftDeleteTeam(pr, actor, t) \/ PermanentDeleteTeamId(pr, actor, t)
       \/ \E k \in Token : InviteNewUsersToTeam(pr, actor, t, k)
  \/ WriteTeam(pr) \/ RemoveAllMembersByTeam(pr) \/ PermanentDelete(pr)

Grouping(pr) ==
  \/ \E actor \in User, g \in Group :
       \/ createGroup(pr, actor, g) \/ updateGroup(pr, actor, g)
       \/ deleteGroup(pr, actor, g)
       \/ \E u \in User :
            \/ addGroupMember(pr, actor, g, u) \/ removeGroupMember(pr, actor, g, u)
            \/ \E type \in {"normal", "admin"} :
                 updateGroupMemberType(pr, actor, g, u, type)
  \/ SaveGroup(pr) \/ CreateGroup(pr) \/ UpdateGroup(pr) \/ DeleteGroup(pr)
  \/ addUserToGroup(pr) \/ UpdateGroupMemberType(pr) \/ removeUserFromGroup(pr)

Next == \E pr \in Proc : \/ Joins(pr) \/ Membership(pr) \/ Management(pr)
                         \/ Grouping(pr) \/ InvalidateMemberCount(pr) \/ Fault(pr)

Spec == Init /\ [][Next]_vars

----------------------------------------------------------------------------
(* The values the tables, the cache and the requests range over.           *)
TypeOK ==
  /\ users \in [User -> UserState]
  /\ teams \in [Team -> TeamRow]
  /\ members \in [Team -> [User -> MemberRow]]
  /\ groups \in [Group -> GroupState]
  /\ groupMembers \in [Group -> [User -> GroupMemberState]]
  /\ tokens \in [Token -> Team \cup {None}]
  /\ cachedCount \in [Team -> Nat \cup {None}]
  /\ request \in [Proc -> Request]
  /\ served \in Nat
  /\ withdrawn \in [Team -> SUBSET Nat]
  /\ admitted \in [Token -> SUBSET User]
  /\ earned \in [Team -> [User -> Nat]]
  /\ lost \subseteq Team \cup Token

(* Who is in a group of a live team is in the team, also when leaving the  *)
(* team (LeaveTeam, app/team.go:502) stops half-way.                       *)
GroupMembersAreTeamMembers ==
  \A g \in Group, u \in User :
    (groupMembers[g][u] # "none" /\ teams[TeamOf[g]].status = "live")
      => members[TeamOf[g]][u].status = "in"

(* Teams, groups and members fit together.                                 *)
TablesAgree == TypeOK /\ GroupMembersAreTeamMembers

LiveAdmins(t) ==
  {u \in User : users[u] = "live" /\ members[t][u].status = "in"
                 /\ members[t][u].type = "admin"}

(* A live team that has an admin with a live account keeps one: only the   *)
(* deletion of accounts takes the last one away ("team adminの数が1人以下    *)
(* ならadmin → normalに変更不能にする", app/team.go:645).                     *)
KeepsAnAdmin ==
  \A t \in Team : (teams[t].status = "live" /\ LiveAdmins(t) # {} /\ users' = users)
                    => LiveAdmins(t)' # {}

(* The same of a live group: its last admin goes only by leaving the team  *)
(* (app/user_group.go:214, 237).                                           *)
KeepsAGroupAdmin ==
  \A g \in Group :
    (groups[g] = "live" /\ GetGroupAdmins(g) # {})
      => \/ groups'[g] # "live" \/ GetGroupAdmins(g)' # {}
         \/ \E pr \in Proc : request[pr].at = "groups" /\ g \in request[pr].todo

(* Teams and groups are never left without an admin, whatever sequence of  *)
(* changes of type, leaving and coming back leads there.                   *)
AdminsRemain == [][KeepsAnAdmin /\ KeepsAGroupAdmin]_vars

(* A team has no more active members than MaxUsersPerTeam, whether they    *)
(* were counted on the master or in the cache, unless the cache missed a   *)
(* deletion (app/team.go:118, store/sqlstore/team_store.go:185).           *)
MaxMembersKept ==
  \A t \in Team \ lost : GetActiveMemberCount(t) =< MaxUsersPerTeam

(* The cached number of members, which never expires, is never smaller     *)
(* than the real one, except between a change and the deletion of the      *)
(* entry that follows it (store/cachelayer/team_layer.go).                 *)
CachedCountCovers ==
  \A t \in Team \ lost :
    (cachedCount[t] # None /\ \A pr \in Proc : request[pr].at # "flush")
      => GetActiveMemberCount(t) =< cachedCount[t]

(* The limit of members holds over all ways into a team, and the count it  *)
(* is compared with may be trusted.                                        *)
MembersAreCounted == MaxMembersKept /\ CachedCountCovers

(* An invite id that was replaced, or whose team is gone, never works      *)
(* again (RegenerateTeamInviteId, app/team.go:261).                        *)
InviteStaysWithdrawn ==
  \A t \in Team : teams[t].status # "none" => teams[t].invite \notin withdrawn[t]

(* An invitation token lets one user in, unless the request that used it   *)
(* did not live to delete it (AddUserToTeamByToken, app/team.go:364).      *)
TokenAdmitsOnce == \A k \in Token \ lost : Cardinality(admitted[k]) =< 1

(* Nobody comes in by an invitation that was used or withdrawn.            *)
InvitationsEnd == InviteStaysWithdrawn /\ TokenAdmitsOnce

(* The points in a member's row are what he was awarded in the team, over  *)
(* changes of type, leaving and coming back (app/team.go:129).             *)
PointsAreEarned ==
  \A t \in Team, u \in User :
    members[t][u].status # "none" => members[t][u].points = earned[t][u]
=============================================================================
