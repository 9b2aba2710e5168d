--------------------------- MODULE MCWebSessions ---------------------------
(* Model values for WebSessions: connections of session s1 on server n1.   *)
EXTENDS WebSessions, TLC

CONSTANTS c1, s1, s2, n1, n2

MCSessionOf == [c \in Conn |-> s1]
MCNodeOf == [c \in Conn |-> n1]
=============================================================================
