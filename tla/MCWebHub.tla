------------------------------ MODULE MCWebHub ------------------------------
(* Model values for WebHub: two connections, c1 and c2, of two users, and  *)
(* events for both of them, or for c1 alone.                               *)
EXTENDS WebHub

CONSTANTS c1, c2

ShortAudience == <<{c1, c2}, {c1}>>
ThreeEvents == <<{c1}, {c1}, {c1}>>
=============================================================================
