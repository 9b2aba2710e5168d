----------------------------- MODULE MCIdentity -----------------------------
(* Instances of Identity for TLC: situations, each with few accounts and   *)
(* the requests that have to do with each other.                           *)
EXTENDS Identity

CONSTANTS u1, u2, u3, e1, e2, e3, a1, a2

(* u1 is the admin and u2 a normal user, each with a session.              *)
Situation(us, ops, slots, requests) ==
  [typeOf |-> [u \in us |-> IF u = u1 THEN "admin" ELSE "normal"],
   emailOf |-> [u \in us |-> IF u = u1 THEN e1 ELSE e2],
   loggedIn |-> IF us = {} THEN <<>> ELSE IF us = {u1} THEN <<u1>> ELSE <<u1, u2>>,
   ownerOf |-> [c \in {} |-> None], ops |-> ops, slots |-> slots, requests |-> requests]

(* u1 owns the client application a1.                                      *)
WithApp(s) == [s EXCEPT !.ownerOf = [c \in {a1} |-> u1]]

Empty == Situation({}, {"signup", "signup_token", "login", "verify", "update"}, 2, 3)
Tokens ==
  Situation({u1, u2}, {"send_verification", "verify", "update", "token_expires"}, 1, 4)
Recovery == Situation({u1, u2}, {"send_reset", "reset", "token_expires", "login"}, 2, 3)
Passwords ==
  Situation({u1, u2}, {"login", "own_password", "others_password", "update",
                       "session_expires"}, 1, 4)
Removal ==
  Situation({u1, u2}, {"signup", "type", "delete_user", "logout", "login",
                       "session_expires"}, 1, 3)
TypeRace == Situation({u1, u2}, {"type", "delete_user", "update"}, 2, 2)

Grants ==
  WithApp(Situation({u1}, {"authorize", "exchange", "refresh", "deauthorize",
                           "session_expires", "code_expires"}, 1, 4))
Clients ==
  WithApp(Situation({u1, u2}, {"create_app", "update_app", "regen_secret", "delete_app",
                               "authorize", "exchange"}, 1, 3))
Leaving ==
  WithApp(Situation({u1, u2}, {"authorize", "exchange", "delete_user", "logout"}, 1, 3))
GrantRace == WithApp(Situation({u1, u2}, {"authorize", "exchange"}, 2, 3))

AllSituations == {Empty, Tokens, Recovery, Passwords, Removal, TypeRace, Grants, Clients,
                  Leaving, GrantRace}
Authorizing == {WithApp(Situation({u1}, {"authorize", "exchange", "refresh", "deauthorize",
                                         "delete_app"}, 1, 4))}
=============================================================================
