---------------------------- MODULE MCFollowUps ----------------------------
(* Instances of FollowUps for TLC: situations of one part each.            *)
EXTENDS FollowUps

CONSTANTS h1, h2, l1, l2, g1, g2, g3, d1, d2, d3

MCTexts == {<<>>, <<2, 2>>, <<2, 3, 1>>}

Situation(part, ops, slots, requests) ==
  [part |-> part, ops |-> ops, slots |-> slots, requests |-> requests, posters |-> {2, 3},
   settings |-> <<>>]

Discussion(slots, requests) ==
  Situation("inbox", {"answer", "comment", "edit_comment"}, slots, requests)
Reading == [Situation("inbox", {"ask", "answer", "read"}, 1, 5) EXCEPT !.posters = {2}]
Settings == Situation("inbox", {"setting"}, 1, 4)
Mails ==
  [Situation("inbox", {"digest", "comment", "read", "delete_user"}, 1, 3)
     EXCEPT !.posters = {2},
            !.settings = [i \in 1 .. 3 |-> [user |-> <<3, 1, 2>>[i], interval |-> Interval]]]
TeamMails == [Mails EXCEPT !.ops = {"digest", "ask"}, !.requests = 1]
Hooks == Situation("webhooks", {"create_hook", "update_hook", "delete_hook", "regen_token",
                                "post"}, 1, 3)
Tokens == Situation("webhooks", {"create_hook", "delete_hook", "regen_token", "post"}, 1, 4)
Views(slots, requests) == Situation("counts", {"view", "expiry"}, slots, requests)
Favorites == Situation("counts", {"favorite", "cancel_favorite", "read_favorites"}, 1, 5)
Searches == Situation("search", {"es_save", "es_update", "es_delete"}, 1, 5)
Caching == Situation("lru", {"set", "get", "remove", "purge"}, 1, 5)
Ending == Situation("shutdown", {"http", "stop"}, 1, 2)

AllSituations == {Discussion(1, 3), Discussion(2, 2), Reading, Settings, Mails, TeamMails,
                  Hooks, Tokens, Views(1, 5), Views(2, 4), Favorites, Searches, Caching, Ending}
=============================================================================
