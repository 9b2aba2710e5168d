------------------------------ MODULE MCTeams ------------------------------
(* Instances of Teams for TLC: two teams, one of them founded with u1 as   *)
(* its admin, and one group of that team.                                  *)
EXTENDS Teams

CONSTANTS u1, u2, u3, t1, t2, g1, k1, p1, p2

MCUser == {u1, u2, u3}
MCRegistered == {u1, u2}
MCTeam == {t1, t2}
MCFounder == [t \in {t1} |-> u1]
MCTeamOf == [g \in {g1} |-> t1]

AllOps == {"create", "invite", "expired", "join_token", "join_invite",
           "signup_token", "signup_invite", "type", "leave", "award",
           "delete_user", "update", "regenerate", "soft_delete", "delete",
           "create_group", "update_group", "delete_group", "add_member",
           "group_type", "remove_member"}
=============================================================================
