------------------------------ MODULE Webhooks ------------------------------
(***************************************************************************)
(* The webhooks of one team, and the calls that its posts make.            *)
(*                                                                         *)
(* Hooks are written whole.  A post is handled by a goroutine, each hook   *)
(* it concerns by another one, each URL of the hook by a third.  The       *)
(* goroutines of a hook's URLs share the reader of the payload, without a  *)
(* lock: a call sends the payload, or what is left of it, or fails.        *)
(***************************************************************************)
EXTENDS Requests

CONSTANTS
  Hook,     \* the ids hooks can have
  URL,      \* the addresses they can call
  PostType  \* the types of posts there are

ASSUME WebhooksAssumption ==
  IsFiniteSet(Hook) /\ IsFiniteSet(URL) /\ PostType \subseteq {"question", "answer", "comment"}

VARIABLES
  hooks,      \* hooks[h]: the row of Webhooks
  tokens,     \* the number of tokens there have been: they are numbered
  teamPosts,  \* teamPosts[k]: the k-th post of the team, and the goroutine
              \* that handles it
  payloads,   \* the goroutines of TriggerWebhook: <<post, row of the hook>>
  calls,      \* the goroutines of doWebhookRequest, and how they ended
  withdrawn   \* history: the tokens replaced, or deleted with their hook

webhookVars == <<hooks, tokens, teamPosts, payloads, calls, withdrawn>>

HookRow == [status : {"none", "live", "deleted"}, urls : SUBSET URL,
            events : SUBSET PostType, token : Nat]
NoHook == [status |-> "none", urls |-> {}, events |-> {}, token |-> 0]

GetByTeam == {h \in Hook : hooks[h].status = "live"}

(* IsValid, which is asked of new hooks only.                              *)
IsValid(hook) == hook.urls # {} /\ hook.events # {}

Intersects(h, urls) == hooks[h].urls \cap urls # {}

----------------------------------------------------------------------------
(* The hooks.                                                              *)

createHook(pr, urls, types) ==
  /\ Accept(pr, "create_hook") /\ \E h \in Hook : hooks[h].status = "none"
  /\ \A h \in GetByTeam : ~Intersects(h, urls)
  /\ Become(pr, [at |-> "hook_save", urls |-> urls, events |-> types])
  /\ UNCHANGED webhookVars
SaveHook(pr) ==
  LET r == request[pr]
      row == [status |-> "live", urls |-> r.urls, events |-> r.events, token |-> tokens + 1]
  IN /\ At(pr, "hook_save") /\ Finish(pr)
     /\ IF IsValid(row)
        THEN \E h \in {g \in Hook : hooks[g].status = "none"} :
               hooks' = [hooks EXCEPT ![h] = row] /\ tokens' = tokens + 1
        ELSE UNCHANGED <<hooks, tokens>>
     /\ UNCHANGED <<teamPosts, payloads, calls, withdrawn>>

(* What is written is the row as it was read, but for what the client      *)
(* changes.                                                                *)
ChangeHook(pr, h, row) ==
  /\ Become(pr, [at |-> "hook_update", hook |-> h, row |-> row])
  /\ UNCHANGED <<hooks, teamPosts, payloads, calls>>

(* Mutant: the URLs of the other hooks are not looked at.                  *)
UpdateUnchecked(pr, h, urls, types) ==
  /\ Accept(pr, "update_hook") /\ h \in GetByTeam
  /\ ChangeHook(pr, h, [hooks[h] EXCEPT !.urls = urls, !.events = types])
  /\ UNCHANGED <<tokens, withdrawn>>
UpdateWebhook(pr, h, urls, types) ==
  /\ Accept(pr, "update_hook") /\ h \in GetByTeam
  /\ \A g \in GetByTeam \ {h} : ~Intersects(g, urls)
  /\ ChangeHook(pr, h, [hooks[h] EXCEPT !.urls = urls, !.events = types])
  /\ UNCHANGED <<tokens, withdrawn>>
RegenWebhookToken(pr, h) ==
  /\ Accept(pr, "regen_token") /\ h \in GetByTeam
  /\ ChangeHook(pr, h, [hooks[h] EXCEPT !.token = tokens + 1])
  /\ tokens' = tokens + 1 /\ UNCHANGED withdrawn
UpdateHook(pr) ==
  LET r == request[pr]
  IN /\ At(pr, "hook_update") /\ Finish(pr)
     /\ hooks' = [hooks EXCEPT ![r.hook] = r.row]
     /\ withdrawn' = withdrawn \cup ({hooks[r.hook].token} \ {r.row.token})
     /\ UNCHANGED <<tokens, teamPosts, payloads, calls>>

deleteHook(pr, h) ==
  /\ Accept(pr, "delete_hook") /\ h \in GetByTeam
  /\ Become(pr, [at |-> "hook_delete", hook |-> h])
  /\ UNCHANGED webhookVars
DeleteHook(pr) ==
  LET h == request[pr].hook
  IN /\ At(pr, "hook_delete") /\ Finish(pr)
     /\ hooks' = [hooks EXCEPT ![h].status = "deleted"]
     /\ withdrawn' = withdrawn \cup {hooks[h].token}
     /\ UNCHANGED <<tokens, teamPosts, payloads, calls>>

----------------------------------------------------------------------------
(* The goroutines.  A crash ends all of them.                              *)

Goroutine == UNCHANGED <<requestVars, hooks, tokens, withdrawn>>

(* A post of the team is saved and its goroutine started.  void: history,  *)
(* the tokens that had been withdrawn by then.                             *)
tryWebhook(type) ==
  /\ Counted("post")
  /\ teamPosts' = Append(teamPosts, [type |-> type, handled |-> FALSE, void |-> withdrawn])
  /\ UNCHANGED <<request, hooks, tokens, payloads, calls, withdrawn>>

(* What is sent of post k: the hook, with its token, as it is then.        *)
WebhookPayload(k, h) == <<k, h, hooks[h]>>

(* Mutant: the hooks are looked for among the deleted, too.                *)
HandleForAll(k) ==
  /\ Goroutine /\ ~teamPosts[k].handled
  /\ teamPosts' = [teamPosts EXCEPT ![k].handled = TRUE]
  /\ payloads' = payloads \cup {WebhookPayload(k, h) :
                     h \in {g \in Hook : teamPosts[k].type \in hooks[g].events}}
  /\ UNCHANGED calls

(* The hooks, and with them their tokens, are read once for a post.        *)
handleWebhookEvents(k) ==
  /\ Goroutine /\ ~teamPosts[k].handled
  /\ teamPosts' = [teamPosts EXCEPT ![k].handled = TRUE]
  /\ payloads' = payloads \cup {WebhookPayload(k, h) :
                     h \in {g \in GetByTeam : teamPosts[k].type \in hooks[g].events}}
  /\ UNCHANGED calls

TriggerWebhook(p) ==
  /\ Goroutine
  /\ payloads' = payloads \ {p}
  /\ calls' = calls \cup {[post |-> p[1], hook |-> p[2], url |-> url, token |-> p[3].token,
                           at |-> "start"] : url \in p[3].urls}
  /\ UNCHANGED teamPosts

(* A call with an answer, whatever was sent and answered, is logged in     *)
(* WebhooksHistory, if the insert succeeds; one without is not tried again.*)
doWebhookRequest(c) ==
  /\ Goroutine /\ c.at = "start"
  /\ \E outcome \in {"logged", "failed"} :
       calls' = (calls \ {c}) \cup {[c EXCEPT !.at = outcome]}
  /\ UNCHANGED <<teamPosts, payloads>>

Crash ==
  /\ MayFail /\ (payloads # {} \/ \E c \in calls : c.at = "start") /\ lost' = {"crash"}
  /\ payloads' = {} /\ calls' = {c \in calls : c.at # "start"}
  /\ teamPosts' = [k \in DOMAIN teamPosts |-> [teamPosts[k] EXCEPT !.handled = TRUE]]
  /\ request' = [pr \in Proc |-> Idle]
  /\ UNCHANGED <<situation, served, hooks, tokens, withdrawn>>

----------------------------------------------------------------------------
WebhooksInit ==
  /\ hooks = [h \in Hook |-> NoHook] /\ tokens = 0
  /\ teamPosts = <<>> /\ payloads = {} /\ calls = {} /\ withdrawn = {}

WebhooksNext ==
  \/ \E pr \in Proc :
       \/ \E urls \in SUBSET URL, types \in SUBSET PostType :
            createHook(pr, urls, types) \/ \E h \in Hook : UpdateWebhook(pr, h, urls, types)
       \/ \E h \in Hook : RegenWebhookToken(pr, h) \/ deleteHook(pr, h)
       \/ SaveHook(pr) \/ UpdateHook(pr) \/ DeleteHook(pr)
       \/ Fault(pr) /\ UNCHANGED webhookVars
  \/ \E type \in PostType : tryWebhook(type)
  \/ \E k \in DOMAIN teamPosts : handleWebhookEvents(k)
  \/ \E p \in payloads : TriggerWebhook(p)
  \/ \E c \in calls : doWebhookRequest(c)
  \/ Crash
=============================================================================
