---------------------------- MODULE MCHubIndex ----------------------------
(* Model values for HubIndex: three connections of one user, one of        *)
(* another.                                                                *)
EXTENDS HubIndex, TLC

CONSTANTS c1, c2, c3, c4, u1, u2

MCUserOf == c1 :> u1 @@ c2 :> u1 @@ c3 :> u1 @@ c4 :> u2
=============================================================================
