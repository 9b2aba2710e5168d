--------------------------- MODULE FollowUpsProofs ---------------------------
(***************************************************************************)
(* What must be true of all that follows a post is true for any users,     *)
(* texts, hooks, viewers, posts, goroutines and situations.                *)
(*                                                                         *)
(* Each part has an invariant of its own: of the index (SearchInv), of the *)
(* webhooks (HooksInv), of the counts (CountsInv), of messages and digests *)
(* (InboxInv) and of the end of the server (ShutdownInv); that of the LRU  *)
(* is in LRUProofs.  A behaviour is one of one part: that part keeps its   *)
(* invariant, the others stay as they began (FollowUpsInv).                *)
(***************************************************************************)
EXTENDS FollowUps, LRUProofs, FiniteSetTheorems, SequenceTheorems, WellFoundedInduction,
        NaturalsInduction, TLAPS

(***************************************************************************)
(* The search index.                                                       *)
(***************************************************************************)
SearchRequest == {Idle} \cup [at : {"es_start"}, call : {"create", "delete"}, doc : Doc]
SearchCall == [doc : Doc, call : {"create", "delete"}, nr : Nat]

SearchType ==
  /\ situation \in Situations /\ served \in Nat /\ request \in [Proc -> SearchRequest]
  /\ rows \in [Doc -> {"unsaved", "live", "deleted"}]
  /\ esCalls \in SUBSET SearchCall /\ index \subseteq Doc
  /\ \A c \in esCalls : rows[c.doc] # "unsaved"
  /\ \A pr \in Proc : request[pr] # Idle => rows[request[pr].doc] # "unsaved"

(* What a goroutine, or a request that is going to start one, does is what *)
(* the row asks for.                                                       *)
Fits(c) == rows[c.doc] = IF c.call = "create" THEN "live" ELSE "deleted"
Busy(d) == request[1] # Idle /\ request[1].doc = d

(* With one request at a time and without failures, a post that was never  *)
(* overtaken has one goroutine at most, the last one for its row, and is   *)
(* in the index as its row says when it has none.                          *)
DocFollows(d) ==
  /\ \A c, e \in CallsAbout(d) : c = e
  /\ Busy(d) => Fits(request[1])
  /\ ~Busy(d) => \A c \in CallsAbout(d) : Fits(c)
  /\ ~Busy(d) /\ CallsAbout(d) = {} => (d \in index <=> rows[d] = "live")

SearchInv ==
  /\ SearchType
  /\ Alone /\ lost = {} => \A d \in Doc \ (CommentDoc \cup overtaken) : DocFollows(d)

LEMMA SearchTypeKept == SearchType /\ SearchNext => SearchType'
<1> SUFFICES ASSUME SearchType, SearchNext PROVE SearchType'
  OBVIOUS
<1> USE DEF SearchType
<1>0. served' \in Nat /\ situation' = situation
  BY DEF SearchNext, SaveIndexed, UpdateIndexed, DeleteIndexed, WriteRow, Accept, Counted, IndexPost, At,
         Fault, CallElasticsearch, requestVars, CallFails
<1>1. ASSUME NEW pr \in Proc, NEW op, NEW d \in Doc, NEW from, NEW to \in {"live", "deleted"}, NEW r \in SearchRequest,
             WriteRow(pr, op, d, from, to), Become(pr, r), r # Idle => r.doc = d
      PROVE  SearchType'
  <2>1. request' \in [Proc' -> SearchRequest] /\ rows' \in [Doc -> {"unsaved", "live", "deleted"}]
    BY <1>0, <1>1 DEF Become, WriteRow, Proc
  <2>2. \A c \in esCalls : c.doc \in Doc
    BY DEF SearchCall
  <2>3. \A e \in Doc : rows[e] # "unsaved" => rows'[e] # "unsaved"
    BY <1>1 DEF WriteRow
  <2>4. rows'[d] # "unsaved"
    BY <1>1 DEF WriteRow
  <2>5. \A qr \in Proc : request[qr] # Idle => request[qr].doc \in Doc
    BY DEF SearchRequest
  <2>6. \A qr \in Proc : request'[qr] # Idle => rows'[request'[qr].doc] # "unsaved"
    BY <1>1, <2>3, <2>4, <2>5 DEF Become
  <2> QED BY <1>0, <1>1, <2>1, <2>2, <2>3, <2>6 DEF WriteRow, Proc
<1>2. ASSUME NEW pr \in Proc, NEW d \in Doc, SaveIndexed(pr, d) \/ UpdateIndexed(pr, d) \/ DeleteIndexed(pr, d)
      PROVE  SearchType'
  <2>1. /\ ToIndex(d) \in SearchRequest /\ ToRemove(d) \in SearchRequest /\ Idle \in SearchRequest
        /\ ToIndex(d).doc = d /\ ToRemove(d).doc = d
    BY DEF ToIndex, ToRemove, SearchRequest
  <2> QED BY <1>1, <1>2, <2>1 DEF SaveIndexed, UpdateIndexed, DeleteIndexed, Unless
<1>3. ASSUME NEW pr \in Proc, IndexPost(pr) PROVE SearchType'
  <2>1. request[pr] # Idle /\ request[pr].call \in {"create", "delete"} /\ request[pr].doc \in Doc
    BY <1>3 DEF IndexPost, At, Idle, SearchRequest
  <2>2. esCalls' \in SUBSET SearchCall
    BY <1>3, <2>1 DEF IndexPost, SearchCall
  <2>3. \A c \in esCalls' : rows'[c.doc] # "unsaved"
    BY <1>3, <2>1 DEF IndexPost
  <2>4. request' = [request EXCEPT ![pr] = Idle] /\ UNCHANGED <<rows, index>>
    BY <1>3 DEF IndexPost, Finish, Become
  <2> QED BY <1>0, <2>2, <2>3, <2>4 DEF Proc, SearchRequest
<1>4. ASSUME NEW pr \in Proc, Fault(pr), UNCHANGED searchVars PROVE SearchType'
  BY <1>0, <1>4 DEF Fault, Finish, Become, searchVars, Proc, SearchRequest
<1>5. ASSUME NEW c \in esCalls, CallElasticsearch(c) PROVE SearchType'
  BY <1>0, <1>5 DEF CallElasticsearch, requestVars, Proc, SearchCall
<1>6. CASE CallFails
  <2>1. request' \in [Proc -> SearchRequest] /\ \A pr \in Proc : request'[pr] # Idle => request' = request
    BY <1>6 DEF CallFails, SearchRequest
  <2> QED BY <1>0, <1>6, <2>1 DEF CallFails, Proc
<1> QED BY <1>2, <1>3, <1>4, <1>5, <1>6 DEF SearchNext

LEMMA SearchKept == SearchInv /\ SearchNext => SearchInv'
<1> SUFFICES ASSUME SearchInv, SearchNext PROVE SearchInv'
  OBVIOUS
<1>0. SearchType /\ SearchType'
  BY SearchTypeKept DEF SearchInv
<1> SUFFICES ASSUME Alone', lost' = {}, NEW d \in Doc, d \notin CommentDoc, d \notin overtaken'
             PROVE  DocFollows(d)'
  BY <1>0 DEF SearchInv
<1>1. UNCHANGED situation /\ (lost = {} \/ UNCHANGED lost) /\ overtaken \subseteq overtaken'
  BY DEF SearchNext, SaveIndexed, UpdateIndexed, DeleteIndexed, WriteRow, Accept, Counted, IndexPost, At,
         Fault, MayFail, CallElasticsearch, requestVars, CallFails, searchVars
<1>2. DocFollows(d) /\ Proc = {1} /\ Proc' = {1}
  BY <1>1 DEF Alone, SearchInv, Proc
<1>3. request \in [{1} -> SearchRequest] /\ rows \in [Doc -> {"unsaved", "live", "deleted"}]
  BY <1>0, <1>2 DEF SearchType
<1>4. ASSUME NEW op, NEW e \in Doc, NEW from, NEW to, NEW r,
             WriteRow(1, op, e, from, to), Become(1, r),
             r = Idle => e \in CommentDoc,
             r # Idle => r.doc = e /\ to = IF r.call = "create" THEN "live" ELSE "deleted"
      PROVE  DocFollows(d)'
  <2>1. request[1] = Idle /\ request'[1] = r /\ rows' = [rows EXCEPT ![e] = to] /\ UNCHANGED <<esCalls, index>>
    BY <1>3, <1>4 DEF WriteRow, Become, Accept
  <2>2. CASE e = d
    BY <1>2, <1>3, <1>4, <2>1, <2>2 DEF DocFollows, Busy, Fits, CallsAbout
  <2>3. CASE e # d
    BY <1>2, <1>3, <1>4, <2>1, <2>3 DEF DocFollows, Busy, Fits, CallsAbout
  <2> QED BY <2>2, <2>3
<1>5. ASSUME NEW e \in Doc, SaveIndexed(1, e) \/ UpdateIndexed(1, e) \/ DeleteIndexed(1, e)
      PROVE  DocFollows(d)'
  <2>1. /\ ToIndex(e) # Idle /\ ToIndex(e).doc = e /\ ToIndex(e).call = "create"
        /\ ToRemove(e) # Idle /\ ToRemove(e).doc = e /\ ToRemove(e).call = "delete"
    BY DEF ToIndex, ToRemove, Idle
  <2>2. CASE SaveIndexed(1, e)
    BY <2>2, <2>1, <1>4 DEF SaveIndexed, Unless
  <2>3. CASE UpdateIndexed(1, e)
    BY <2>3, <2>1, <1>4 DEF UpdateIndexed
  <2>4. CASE DeleteIndexed(1, e)
    BY <2>4, <2>1, <1>4 DEF DeleteIndexed, Unless
  <2> QED BY <1>5, <2>2, <2>3, <2>4
<1>6. CASE IndexPost(1)
  <2>0. PICK c : c = [doc |-> request[1].doc, call |-> request[1].call, nr |-> served]
    OBVIOUS
  <2>1. /\ request[1] # Idle /\ request'[1] = Idle /\ UNCHANGED <<rows, index>>
        /\ esCalls' = esCalls \cup {c} /\ (CallsAbout(request[1].doc) = {} \/ request[1].doc \in overtaken')
    BY <1>3, <1>6, <2>0 DEF IndexPost, Finish, Become, At, Idle
  <2>2. CASE request[1].doc = d
    <3>1. CallsAbout(d) = {} /\ Fits(request[1])
      BY <1>2, <2>1, <2>2 DEF DocFollows, Busy
    <3>2. c.doc = d /\ c.call = request[1].call
      BY <2>0, <2>2
    <3>3. CallsAbout(d)' = {c}
      BY <2>1, <3>1, <3>2 DEF CallsAbout
    <3>4. Fits(c)'
      BY <2>1, <2>2, <3>1, <3>2 DEF Fits
    <3>5. ~Busy(d)'
      BY <2>1 DEF Busy
    <3> QED BY <3>3, <3>4, <3>5 DEF DocFollows
  <2>3. CASE request[1].doc # d
    <3>1. CallsAbout(d)' = CallsAbout(d)
      BY <2>0, <2>1, <2>3 DEF CallsAbout
    <3> QED BY <1>2, <2>1, <2>3, <3>1 DEF DocFollows, Busy, Fits
  <2> QED BY <2>2, <2>3
<1>7. ASSUME NEW c \in esCalls, CallElasticsearch(c) PROVE DocFollows(d)'
  <2>1. UNCHANGED <<request, rows>> /\ esCalls' = esCalls \ {c}
    BY <1>7 DEF CallElasticsearch, requestVars
  <2>2. CASE c.doc = d
    <3>1. CallsAbout(d)' = {} /\ c \in CallsAbout(d)
      BY <1>2, <2>1, <2>2 DEF CallsAbout, DocFollows
    <3>2. c.call \in {"create", "delete"}
      BY <1>0 DEF SearchType, SearchCall
    <3>3. ~Busy(d) => (d \in index' <=> rows[d] = "live")
      BY <1>2, <1>7, <2>2, <3>1, <3>2 DEF DocFollows, Fits, CallElasticsearch
    <3> QED BY <1>2, <2>1, <3>1, <3>3 DEF DocFollows, Busy, Fits
  <2>3. CASE c.doc # d
    <3>1. CallsAbout(d)' = CallsAbout(d) /\ (d \in index' <=> d \in index)
      BY <1>7, <2>1, <2>3 DEF CallsAbout, CallElasticsearch
    <3> QED BY <1>2, <2>1, <3>1 DEF DocFollows, Busy, Fits
  <2> QED BY <2>2, <2>3
<1>8. ~(\E pr \in Proc : Fault(pr)) /\ ~CallFails
  BY DEF Fault, CallFails
<1> QED BY <1>2, <1>5, <1>6, <1>7, <1>8 DEF SearchNext

LEMMA SearchBegins == RequestsInit /\ SearchInit => SearchInv
<1> SUFFICES ASSUME RequestsInit, SearchInit PROVE SearchInv
  OBVIOUS
<1>1. SearchType
  BY DEF RequestsInit, SearchInit, SearchType, SearchRequest
<1>2. \A d \in Doc : CallsAbout(d) = {} /\ d \notin index /\ rows[d] # "live"
  BY DEF SearchInit, CallsAbout
<1>3. Alone => request[1] = Idle
  BY DEF RequestsInit, Alone, Proc
<1> QED BY <1>1, <1>2, <1>3 DEF SearchInv, DocFollows, Busy

LEMMA SearchIs == SearchInv => SearchFollowsPosts
BY DEF SearchInv, SearchFollowsPosts, Alone, Proc, DocFollows, Busy

(***************************************************************************)
(* Webhooks.                                                               *)
(***************************************************************************)
HookRequest ==
  {Idle} \cup [at : {"hook_save"}, urls : SUBSET URL, events : SUBSET PostType]
         \cup [at : {"hook_update"}, hook : Hook, row : HookRow]
         \cup [at : {"hook_delete"}, hook : Hook]
TeamPost == [type : PostType, handled : BOOLEAN, void : SUBSET Nat]
HookCall ==
  [post : Nat, hook : Hook, url : URL, token : Nat, at : {"start", "logged", "failed"}]

(* The numbers of tokens that have been given.                             *)
Given == 1 .. tokens

HooksType ==
  /\ situation \in Situations /\ served \in Nat /\ request \in [Proc -> HookRequest]
  /\ hooks \in [Hook -> HookRow] /\ tokens \in Nat /\ withdrawn \in SUBSET Nat
  /\ teamPosts \in Seq(TeamPost)
  /\ payloads \in SUBSET (Nat \X Hook \X HookRow) /\ calls \in SUBSET HookCall
TokensGiven ==
  /\ \A h \in GetByTeam : hooks[h].token \in Given
  /\ \A pr \in Proc : request[pr].at = "hook_update" =>
       request[pr].row.token \in Given /\ request[pr].row.status = "live"
  /\ \A p \in payloads : p[1] \in DOMAIN teamPosts /\ p[3].token \in Given
  /\ \A c \in calls : c.post \in DOMAIN teamPosts /\ c.token \in Given

(* With one request at a time the hook it changes is live, what it writes  *)
(* shares no URL with another hook, and the token it writes is that of the *)
(* hook or one that no hook has had.                                       *)
HookThere ==
  request[1].at \in {"hook_update", "hook_delete"} => request[1].hook \in GetByTeam
UrlsApart ==
  /\ \A g, h \in GetByTeam : g # h => hooks[g].urls \cap hooks[h].urls = {}
  /\ request[1].at = "hook_save" => \A h \in GetByTeam : ~Intersects(h, request[1].urls)
  /\ request[1].at = "hook_update" =>
       \A h \in GetByTeam \ {request[1].hook} : ~Intersects(h, request[1].row.urls)
TokensApart ==
  /\ \A g, h \in GetByTeam : g # h => hooks[g].token # hooks[h].token
  /\ \A h \in GetByTeam : hooks[h].token \notin withdrawn
  /\ withdrawn \subseteq 0 .. tokens
  /\ request[1].at = "hook_update" =>
       /\ request[1].row.token \notin withdrawn
       /\ \A h \in GetByTeam \ {request[1].hook} : hooks[h].token # request[1].row.token

(* What goroutines of a post carry was not withdrawn when it was made.     *)
VoidUnused ==
  /\ \A k \in DOMAIN teamPosts : teamPosts[k].void \subseteq withdrawn
  /\ \A p \in payloads : p[3].token \notin teamPosts[p[1]].void
  /\ \A c \in calls : c.token \notin teamPosts[c.post].void

HooksInv ==
  /\ HooksType /\ TokensGiven
  /\ Alone => HookThere /\ UrlsApart /\ TokensApart /\ VoidUnused

(* Only one hook changes, and what it changes to is live, or not shown.    *)
LEMMA HookChanges ==
  ASSUME HooksType, NEW h \in Hook, NEW row \in HookRow, hooks' = [hooks EXCEPT ![h] = row]
  PROVE  /\ hooks' \in [Hook -> HookRow] /\ hooks'[h] = row
         /\ \A g \in Hook : g # h => hooks'[g] = hooks[g]
         /\ GetByTeam' = IF row.status = "live" THEN GetByTeam \cup {h} ELSE GetByTeam \ {h}
BY DEF HooksType, GetByTeam

LEMMA AloneIs == Alone => Proc = {1}
BY DEF Alone, Proc

(* A request begins, or ends, without a write.                             *)
LEMMA HookRequestKept ==
  ASSUME HooksInv, NEW pr \in Proc, NEW r \in HookRequest, Become(pr, r), UNCHANGED situation, served' \in Nat,
         UNCHANGED <<hooks, teamPosts, payloads, calls, withdrawn>>, tokens' \in Nat, tokens' >= tokens,
         r.at = "hook_update" => r.row.token \in 1 .. tokens' /\ r.row.status = "live",
         r.at \in {"hook_update", "hook_delete"} => r.hook \in GetByTeam,
         Alone =>
           /\ r.at = "hook_save" => \A h \in GetByTeam : ~Intersects(h, r.urls)
           /\ r.at = "hook_update" =>
                /\ \A h \in GetByTeam \ {r.hook} : ~Intersects(h, r.row.urls)
                /\ r.row.token \notin withdrawn
                /\ \A h \in GetByTeam \ {r.hook} : hooks[h].token # r.row.token
  PROVE  HooksInv'
<1>0. /\ request' \in [Proc' -> HookRequest] /\ request'[pr] = r /\ Proc' = Proc
      /\ \A qr \in Proc : qr # pr => request'[qr] = request[qr]
  <2>1. request \in [Proc -> HookRequest]
    BY DEF HooksInv, HooksType
  <2>2. Proc' = Proc
    BY DEF Proc
  <2> QED BY <2>1, <2>2 DEF Become
<1>1. HooksType' /\ Given \subseteq Given' /\ GetByTeam' = GetByTeam
  BY <1>0 DEF HooksInv, HooksType, Given, GetByTeam
<1>2. TokensGiven'
  <2>1. \A h \in GetByTeam : hooks[h].token \in Given'
    BY <1>1 DEF HooksInv, TokensGiven
  <2>2. \A qr \in Proc : request'[qr].at = "hook_update" =>
          request'[qr].row.token \in Given' /\ request'[qr].row.status = "live"
    BY <1>0, <1>1 DEF HooksInv, TokensGiven, Given
  <2>3. \A p \in payloads : p[1] \in DOMAIN teamPosts /\ p[3].token \in Given'
    BY <1>1 DEF HooksInv, TokensGiven
  <2>4. \A c \in calls : c.post \in DOMAIN teamPosts /\ c.token \in Given'
    BY <1>1 DEF HooksInv, TokensGiven
  <2> QED BY <1>0, <1>1, <2>1, <2>2, <2>3, <2>4 DEF TokensGiven
<1>3. ASSUME Alone PROVE (HookThere /\ UrlsApart /\ TokensApart /\ VoidUnused)'
  <2>1. pr = 1 /\ request'[1] = r
    BY <1>0, <1>3, AloneIs
  <2>2. HookThere /\ UrlsApart /\ TokensApart /\ VoidUnused
    BY <1>3 DEF HooksInv
  <2>3. HookThere'
    BY <1>1, <2>1 DEF HookThere
  <2>4. UrlsApart'
    BY <1>1, <1>3, <2>1, <2>2 DEF UrlsApart, Intersects
  <2>5. TokensApart'
    <3>1. 0 .. tokens \subseteq 0 .. tokens'
      BY DEF HooksInv, HooksType
    <3> QED BY <1>1, <1>3, <2>1, <2>2, <3>1 DEF TokensApart
  <2>6. VoidUnused'
    BY <2>2 DEF VoidUnused
  <2> QED BY <2>3, <2>4, <2>5, <2>6
<1> QED BY <1>1, <1>2, <1>3 DEF HooksInv, Alone

LEMMA HookRequests ==
  ASSUME HooksInv, NEW pr \in Proc
  PROVE  /\ \A urls \in SUBSET URL, types \in SUBSET PostType : createHook(pr, urls, types) => HooksInv'
         /\ \A h \in Hook, urls \in SUBSET URL, types \in SUBSET PostType :
              UpdateWebhook(pr, h, urls, types) => HooksInv'
         /\ \A h \in Hook : RegenWebhookToken(pr, h) \/ deleteHook(pr, h) => HooksInv'
         /\ Fault(pr) /\ UNCHANGED webhookVars => HooksInv'
<1>0. HooksType /\ tokens \in Nat /\ tokens >= tokens /\ served \in Nat /\ TokensGiven
  BY DEF HooksInv, HooksType
<1>1. ASSUME NEW urls \in SUBSET URL, NEW types \in SUBSET PostType, createHook(pr, urls, types) PROVE HooksInv'
  <2> DEFINE r == [at |-> "hook_save", urls |-> urls, events |-> types]
  <2>1. r \in HookRequest /\ r.at = "hook_save" /\ r.urls = urls
    BY DEF HookRequest
  <2> HIDE DEF r
  <2>2. Become(pr, r) /\ UNCHANGED situation /\ UNCHANGED webhookVars /\ served' \in Nat
    BY <1>0, <1>1 DEF createHook, Accept, Counted, r
  <2>3. \A h \in GetByTeam : ~Intersects(h, r.urls)
    BY <1>1, <2>1 DEF createHook
  <2> QED BY <1>0, <2>1, <2>2, <2>3, HookRequestKept DEF webhookVars
<1>2. ASSUME NEW h \in Hook, NEW row \in HookRow, ChangeHook(pr, h, row), h \in GetByTeam,
             UNCHANGED <<situation, withdrawn>>, tokens' \in Nat, tokens' >= tokens, served' \in Nat,
             row.status = "live", row.token \in 1 .. tokens',
             Alone => \A g \in GetByTeam \ {h} : ~Intersects(g, row.urls),
             row.token = hooks[h].token \/ row.token \notin 0 .. tokens
      PROVE  HooksInv'
  <2> DEFINE r == [at |-> "hook_update", hook |-> h, row |-> row]
  <2>1. r \in HookRequest /\ r.at = "hook_update" /\ r.hook = h /\ r.row = row
    BY DEF HookRequest
  <2> HIDE DEF r
  <2>2. Become(pr, r) /\ UNCHANGED <<hooks, teamPosts, payloads, calls>>
    BY <1>2 DEF ChangeHook, r
  <2>3. Alone => row.token \notin withdrawn /\ \A g \in GetByTeam \ {h} : hooks[g].token # row.token
    <3>1. \A g \in GetByTeam : hooks[g].token \in 0 .. tokens
      BY <1>0 DEF TokensGiven, Given
    <3> QED BY <1>2, <3>1 DEF HooksInv, TokensApart
  <2> QED BY <1>2, <2>1, <2>2, <2>3, HookRequestKept
<1>3. \A h \in GetByTeam : hooks[h] \in HookRow /\ hooks[h].token \in 1 .. tokens /\ hooks[h].status = "live" /\ h \in Hook
  BY <1>0 DEF HooksType, GetByTeam, TokensGiven, Given
<1>4. ASSUME NEW h \in Hook, NEW urls \in SUBSET URL, NEW types \in SUBSET PostType,
             UpdateWebhook(pr, h, urls, types)
      PROVE  HooksInv'
  <2> DEFINE row == [hooks[h] EXCEPT !.urls = urls, !.events = types]
  <2>1. h \in GetByTeam /\ UNCHANGED <<situation, tokens, withdrawn>> /\ served' \in Nat
    BY <1>0, <1>4 DEF UpdateWebhook, Accept, Counted
  <2>2. row \in HookRow /\ row.status = "live" /\ row.token = hooks[h].token /\ row.urls = urls
    BY <1>3, <2>1 DEF HookRow
  <2> HIDE DEF row
  <2>3. ChangeHook(pr, h, row) /\ \A g \in GetByTeam \ {h} : ~Intersects(g, row.urls)
    BY <1>4, <2>2 DEF UpdateWebhook, row
  <2> QED BY <1>0, <1>2, <1>3, <2>1, <2>2, <2>3
<1>5. ASSUME NEW h \in Hook, RegenWebhookToken(pr, h) PROVE HooksInv'
  <2> DEFINE row == [hooks[h] EXCEPT !.token = tokens + 1]
  <2>1. h \in GetByTeam /\ UNCHANGED <<situation, withdrawn>> /\ tokens' = tokens + 1 /\ served' \in Nat
    BY <1>0, <1>5 DEF RegenWebhookToken, Accept, Counted
  <2>2. row \in HookRow /\ row.status = "live" /\ row.token = tokens + 1 /\ row.urls = hooks[h].urls
    BY <1>0, <1>3, <2>1 DEF HookRow
  <2> HIDE DEF row
  <2>3. ChangeHook(pr, h, row)
    BY <1>5 DEF RegenWebhookToken, row
  <2>4. Alone => \A g \in GetByTeam \ {h} : ~Intersects(g, row.urls)
    BY <2>1, <2>2 DEF HooksInv, UrlsApart, Intersects
  <2> QED BY <1>0, <1>2, <1>3, <2>1, <2>2, <2>3, <2>4
<1>6. ASSUME NEW h \in Hook, deleteHook(pr, h) PROVE HooksInv'
  <2> DEFINE r == [at |-> "hook_delete", hook |-> h]
  <2>1. r \in HookRequest /\ r.at = "hook_delete" /\ r.hook = h
    BY DEF HookRequest
  <2> HIDE DEF r
  <2>2. Become(pr, r) /\ UNCHANGED situation /\ UNCHANGED webhookVars /\ h \in GetByTeam /\ served' \in Nat
    BY <1>0, <1>6 DEF deleteHook, Accept, Counted, r
  <2> QED BY <1>0, <2>1, <2>2, HookRequestKept DEF webhookVars
<1>7. ASSUME Fault(pr), UNCHANGED webhookVars PROVE HooksInv'
  <2>1. Idle \in HookRequest /\ Idle.at = "idle"
    BY DEF HookRequest, Idle
  <2>2. Become(pr, Idle) /\ UNCHANGED <<situation, served>>
    BY <1>7 DEF Fault, Finish
  <2> QED BY <1>0, <1>7, <2>1, <2>2, HookRequestKept DEF webhookVars
<1> QED BY <1>1, <1>4, <1>5, <1>6, <1>7

(* The hooks change, and nothing else but the request that ends.           *)
LEMMA HookWriteKept ==
  ASSUME HooksInv, NEW pr \in Proc, NEW h \in Hook, NEW row \in HookRow,
         Become(pr, Idle), UNCHANGED <<situation, served, teamPosts, payloads, calls>>,
         hooks' = [hooks EXCEPT ![h] = row], tokens' \in Nat, tokens' >= tokens,
         row.status \in {"live", "deleted"},
         row.status = "live" => row.token \in 1 .. tokens',
         withdrawn' \in SUBSET Nat, withdrawn \subseteq withdrawn',
         Alone =>
           /\ \A t \in withdrawn' \ withdrawn : h \in GetByTeam /\ t = hooks[h].token
           /\ row.status = "live" =>
                /\ \A g \in GetByTeam \ {h} : hooks[g].urls \cap row.urls = {} /\ hooks[g].token # row.token
                /\ row.token \notin withdrawn'
  PROVE  HooksInv'
<1>0. /\ request' \in [Proc' -> HookRequest] /\ request'[pr] = Idle /\ Proc' = Proc
      /\ \A qr \in Proc : qr # pr => request'[qr] = request[qr]
  <2>1. request \in [Proc -> HookRequest] /\ Idle \in HookRequest
    BY DEF HooksInv, HooksType, HookRequest
  <2>2. Proc' = Proc
    BY DEF Proc
  <2> QED BY <2>1, <2>2 DEF Become
<1>1. HooksType /\ HooksType' /\ Given \subseteq Given'
  BY <1>0 DEF HooksInv, HooksType, Given
<1>2. /\ hooks'[h] = row
      /\ \A g \in Hook : g # h => hooks'[g] = hooks[g]
      /\ GetByTeam' = IF row.status = "live" THEN GetByTeam \cup {h} ELSE GetByTeam \ {h}
  BY <1>1, HookChanges
<1>3. TokensGiven'
  <2>1. \A g \in GetByTeam' : hooks'[g].token \in Given'
    BY <1>1, <1>2 DEF HooksInv, TokensGiven, Given, GetByTeam
  <2>2. \A qr \in Proc : request'[qr].at = "hook_update" =>
          request'[qr].row.token \in Given' /\ request'[qr].row.status = "live"
    BY <1>0, <1>1 DEF HooksInv, TokensGiven, Idle
  <2>3. \A p \in payloads : p[1] \in DOMAIN teamPosts /\ p[3].token \in Given'
    BY <1>1 DEF HooksInv, TokensGiven
  <2>4. \A c \in calls : c.post \in DOMAIN teamPosts /\ c.token \in Given'
    BY <1>1 DEF HooksInv, TokensGiven
  <2> QED BY <1>0, <2>1, <2>2, <2>3, <2>4 DEF TokensGiven
<1>4. ASSUME Alone PROVE (HookThere /\ UrlsApart /\ TokensApart /\ VoidUnused)'
  <2>1. request'[1].at = "idle"
    BY <1>0, <1>4, AloneIs DEF Idle
  <2>2. UrlsApart /\ TokensApart /\ VoidUnused
    BY <1>4 DEF HooksInv
  <2>3. \A g \in GetByTeam' : (g = h /\ row.status = "live") \/ (g # h /\ g \in GetByTeam /\ g \in Hook)
    BY <1>2 DEF GetByTeam
  <2>4. UrlsApart'
    BY <1>2, <1>4, <2>1, <2>2, <2>3 DEF UrlsApart
  <2>5. \A g, k \in GetByTeam' : g # k => hooks'[g].token # hooks'[k].token
    BY <1>2, <1>4, <2>2, <2>3 DEF TokensApart
  <2>6. \A g \in GetByTeam' : hooks'[g].token \notin withdrawn'
    BY <1>2, <1>4, <2>2, <2>3 DEF TokensApart
  <2>7. withdrawn' \subseteq 0 .. tokens'
    <3>1. \A g \in GetByTeam : hooks[g].token \in 0 .. tokens
      BY DEF HooksInv, TokensGiven, Given
    <3> QED BY <1>1, <1>4, <2>2, <3>1 DEF TokensApart, HooksType
  <2>8. VoidUnused'
    BY <2>2 DEF VoidUnused
  <2> QED BY <2>1, <2>4, <2>5, <2>6, <2>7, <2>8 DEF HookThere, TokensApart
<1> QED BY <1>1, <1>3, <1>4 DEF HooksInv, Alone

LEMMA HookWrites ==
  ASSUME HooksInv, NEW pr \in Proc, SaveHook(pr) \/ UpdateHook(pr) \/ DeleteHook(pr)
  PROVE  HooksInv'
<1>0. HooksType /\ tokens \in Nat /\ tokens >= tokens /\ TokensGiven
  BY DEF HooksInv, HooksType
<1>1. request[pr] \in HookRequest
  BY <1>0 DEF HooksType
<1>2. CASE SaveHook(pr)
  <2> DEFINE row == [status |-> "live", urls |-> request[pr].urls, events |-> request[pr].events,
                     token |-> tokens + 1]
  <2>0. /\ At(pr, "hook_save") /\ Become(pr, Idle)
        /\ UNCHANGED <<situation, served, teamPosts, payloads, calls, withdrawn>>
        /\ \/ \E h \in {g \in Hook : hooks[g].status = "none"} :
                hooks' = [hooks EXCEPT ![h] = row] /\ tokens' = tokens + 1
           \/ UNCHANGED <<hooks, tokens>>
    BY <1>2 DEF SaveHook, Finish, At
  <2>1. row \in HookRow /\ row.status = "live" /\ row.token = tokens + 1 /\ row.urls = request[pr].urls
    BY <1>0, <1>1, <2>0 DEF HookRequest, HookRow, At, Idle
  <2> HIDE DEF row
  <2>2. Alone => /\ \A g \in GetByTeam : hooks[g].urls \cap row.urls = {} /\ hooks[g].token # row.token
                 /\ row.token \notin withdrawn
    <3> SUFFICES ASSUME Alone PROVE /\ \A g \in GetByTeam : hooks[g].urls \cap row.urls = {} /\ hooks[g].token # row.token
                                    /\ row.token \notin withdrawn
      OBVIOUS
    <3>1. request[1].at = "hook_save" /\ row.urls = request[1].urls
      BY <2>0, <2>1, AloneIs DEF At
    <3>2. \A g \in GetByTeam : hooks[g].urls \cap row.urls = {}
      BY <3>1 DEF HooksInv, UrlsApart, Intersects
    <3>3. row.token \notin Given /\ row.token \notin 0 .. tokens
      BY <1>0, <2>1 DEF Given
    <3> QED BY <1>0, <3>2, <3>3 DEF HooksInv, TokensApart, TokensGiven
  <2>3. CASE UNCHANGED <<hooks, tokens>>
    <3>1. Idle \in HookRequest /\ Idle.at = "idle"
      BY DEF HookRequest, Idle
    <3> QED BY <1>0, <2>0, <2>3, <3>1, HookRequestKept DEF HooksType
  <2>4. ASSUME NEW h \in Hook, hooks' = [hooks EXCEPT ![h] = row], tokens' = tokens + 1 PROVE HooksInv'
    <3>1. tokens' \in Nat /\ tokens' >= tokens /\ row.token \in 1 .. tokens'
      BY <1>0, <2>1, <2>4
    <3>2. withdrawn' \in SUBSET Nat /\ withdrawn \subseteq withdrawn' /\ withdrawn' \ withdrawn = {}
      BY <1>0, <2>0 DEF HooksType
    <3> QED BY <1>0, <2>0, <2>1, <2>2, <2>4, <3>1, <3>2, HookWriteKept
  <2> QED BY <2>0, <2>3, <2>4
<1>3. CASE UpdateHook(pr)
  <2> DEFINE h == request[pr].hook
             row == request[pr].row
  <2>0. /\ request[pr].at = "hook_update" /\ Become(pr, Idle) /\ h \in Hook /\ row \in HookRow
        /\ UNCHANGED <<situation, served, tokens, teamPosts, payloads, calls>>
        /\ hooks' = [hooks EXCEPT ![h] = row] /\ withdrawn' = withdrawn \cup ({hooks[h].token} \ {row.token})
    BY <1>1, <1>3 DEF UpdateHook, Finish, At, HookRequest, Idle
  <2>1. row.status = "live" /\ row.token \in 1 .. tokens
    BY <1>0, <2>0 DEF TokensGiven, Given
  <2>2. withdrawn' \in SUBSET Nat /\ withdrawn \subseteq withdrawn'
    BY <1>0, <2>0 DEF HooksType, HookRow
  <2>3. Alone => /\ h \in GetByTeam
                 /\ \A g \in GetByTeam \ {h} : hooks[g].urls \cap row.urls = {} /\ hooks[g].token # row.token
                 /\ row.token \notin withdrawn'
    BY <2>0, AloneIs DEF HooksInv, UrlsApart, TokensApart, HookThere, Intersects
  <2> HIDE DEF h, row
  <2> QED BY <1>0, <2>0, <2>1, <2>2, <2>3, HookWriteKept
<1>4. CASE DeleteHook(pr)
  <2> DEFINE h == request[pr].hook
             row == [hooks[h] EXCEPT !.status = "deleted"]
  <2>0. /\ request[pr].at = "hook_delete" /\ Become(pr, Idle) /\ h \in Hook
        /\ UNCHANGED <<situation, served, tokens, teamPosts, payloads, calls>>
        /\ hooks' = [hooks EXCEPT ![h].status = "deleted"] /\ withdrawn' = withdrawn \cup {hooks[h].token}
    BY <1>1, <1>4 DEF DeleteHook, Finish, At, HookRequest, Idle
  <2>1. row \in HookRow /\ row.status = "deleted" /\ hooks' = [hooks EXCEPT ![h] = row]
    BY <1>0, <2>0 DEF HooksType, HookRow
  <2>2. withdrawn' \in SUBSET Nat /\ withdrawn \subseteq withdrawn'
    BY <1>0, <2>0 DEF HooksType, HookRow
  <2>3. Alone => h \in GetByTeam
    BY <2>0, AloneIs DEF HooksInv, HookThere
  <2> HIDE DEF h, row
  <2> QED BY <1>0, <2>0, <2>1, <2>2, <2>3, HookWriteKept
<1> QED BY <1>2, <1>3, <1>4

(* Posts and goroutines: the hooks stay as they are.                       *)
LEMMA GoroutinesKept ==
  ASSUME HooksInv, HooksType', UNCHANGED <<situation, hooks, tokens, withdrawn>>,
         request' = request \/ request' = [pr \in Proc |-> Idle],
         \A k \in DOMAIN teamPosts : k \in DOMAIN teamPosts' /\ teamPosts'[k].void = teamPosts[k].void,
         \A k \in DOMAIN teamPosts' : k \notin DOMAIN teamPosts => teamPosts'[k].void = withdrawn,
         \A p \in payloads' : p \in payloads \/ (p[1] \in DOMAIN teamPosts /\ p[2] \in GetByTeam /\ p[3] = hooks[p[2]]),
         \A c \in calls' :
           \/ \E e \in calls : c.post = e.post /\ c.token = e.token
           \/ \E p \in payloads : c.post = p[1] /\ c.token = p[3].token
  PROVE  HooksInv'
<1>0. Given' = Given /\ GetByTeam' = GetByTeam /\ Proc' = Proc
  BY DEF Given, GetByTeam, Proc
<1>1. TokensGiven /\ TokensGiven'
  <2>0. TokensGiven
    BY DEF HooksInv
  <2>1. \A pr \in Proc : request'[pr].at = "hook_update" => request'[pr] = request[pr]
    BY DEF Idle
  <2>2. \A p \in payloads' : p[1] \in DOMAIN teamPosts' /\ p[3].token \in Given
    BY <2>0 DEF TokensGiven
  <2>3. \A c \in calls' : c.post \in DOMAIN teamPosts' /\ c.token \in Given
    BY <2>0 DEF TokensGiven
  <2> QED BY <1>0, <2>0, <2>1, <2>2, <2>3 DEF TokensGiven
<1>2. ASSUME Alone PROVE (HookThere /\ UrlsApart /\ TokensApart /\ VoidUnused)'
  <2>0. HookThere /\ UrlsApart /\ TokensApart /\ VoidUnused
    BY <1>2 DEF HooksInv
  <2>1. request'[1] = request[1] \/ request'[1].at = "idle"
    BY <1>2, AloneIs DEF Idle
  <2>2. (HookThere /\ UrlsApart /\ TokensApart)'
    BY <1>0, <2>0, <2>1 DEF HookThere, UrlsApart, TokensApart, Intersects
  <2>3. \A k \in DOMAIN teamPosts' : teamPosts'[k].void \subseteq withdrawn
    BY <2>0 DEF VoidUnused
  <2>4. \A p \in payloads' : p[3].token \notin teamPosts'[p[1]].void
    <3> SUFFICES ASSUME NEW p \in payloads' PROVE p[3].token \notin teamPosts'[p[1]].void
      OBVIOUS
    <3>1. CASE p \in payloads
      BY <1>1, <2>0, <3>1 DEF VoidUnused, TokensGiven
    <3>2. CASE p[1] \in DOMAIN teamPosts /\ p[2] \in GetByTeam /\ p[3] = hooks[p[2]]
      <4>1. p[3].token \notin withdrawn
        BY <2>0, <3>2 DEF TokensApart
      <4> QED BY <2>0, <3>2, <4>1 DEF VoidUnused
    <3> QED BY <3>1, <3>2
  <2>5. \A c \in calls' : c.token \notin teamPosts'[c.post].void
    BY <1>1, <2>0 DEF VoidUnused, TokensGiven
  <2> QED BY <2>2, <2>3, <2>4, <2>5 DEF VoidUnused
<1> QED BY <1>1, <1>2 DEF HooksInv, Alone

LEMMA GoroutineSteps ==
  ASSUME HooksInv
  PROVE  /\ \A type \in PostType : tryWebhook(type) => HooksInv'
         /\ \A k \in DOMAIN teamPosts : handleWebhookEvents(k) => HooksInv'
         /\ \A p \in payloads : TriggerWebhook(p) => HooksInv'
         /\ \A c \in calls : doWebhookRequest(c) => HooksInv'
         /\ Crash => HooksInv'
<1>0. HooksType /\ TokensGiven
  BY DEF HooksInv
<1>1. /\ teamPosts \in Seq(TeamPost) /\ DOMAIN teamPosts = 1 .. Len(teamPosts) /\ Len(teamPosts) \in Nat
      /\ \A k \in DOMAIN teamPosts : teamPosts[k] \in TeamPost
  BY <1>0 DEF HooksType
<1>2. ASSUME NEW type \in PostType, tryWebhook(type) PROVE HooksInv'
  <2>0. PICK post : post = [type |-> type, handled |-> FALSE, void |-> withdrawn]
    OBVIOUS
  <2>1. post \in TeamPost /\ post.void = withdrawn
    BY <1>0, <2>0 DEF HooksType, TeamPost
  <2>2. teamPosts' = Append(teamPosts, post) /\ UNCHANGED <<situation, request, hooks, tokens, payloads, calls, withdrawn>>
        /\ served' \in Nat
    BY <1>0, <1>2, <2>0 DEF tryWebhook, Counted, HooksType
  <2>3. /\ teamPosts' \in Seq(TeamPost) /\ DOMAIN teamPosts' = 1 .. Len(teamPosts) + 1
        /\ \A k \in DOMAIN teamPosts : teamPosts'[k] = teamPosts[k]
        /\ teamPosts'[Len(teamPosts) + 1] = post
    BY <1>1, <2>1, <2>2
  <2>4. HooksType'
    BY <1>0, <2>2, <2>3 DEF HooksType, Proc
  <2>5. \A k \in DOMAIN teamPosts' : k \in DOMAIN teamPosts \/ teamPosts'[k].void = withdrawn
    BY <1>1, <2>1, <2>3
  <2>6. \A k \in DOMAIN teamPosts : k \in DOMAIN teamPosts'
    BY <1>1, <2>3
  <2> QED BY <2>2, <2>3, <2>4, <2>5, <2>6, GoroutinesKept
<1>3. ASSUME NEW k \in DOMAIN teamPosts, handleWebhookEvents(k) PROVE HooksInv'
  <2>1. /\ teamPosts' = [teamPosts EXCEPT ![k].handled = TRUE]
        /\ UNCHANGED <<situation, served, request, hooks, tokens, calls, withdrawn>>
        /\ \A p \in payloads' : p \in payloads \/ \E h \in GetByTeam : p = <<k, h, hooks[h]>>
    BY <1>3 DEF handleWebhookEvents, Goroutine, requestVars, WebhookPayload
  <2>2. [teamPosts[k] EXCEPT !.handled = TRUE] \in TeamPost
    BY <1>1 DEF TeamPost
  <2>3. /\ teamPosts' \in Seq(TeamPost) /\ DOMAIN teamPosts' = DOMAIN teamPosts
        /\ \A j \in DOMAIN teamPosts : teamPosts'[j].void = teamPosts[j].void
    <3>1. teamPosts' = [teamPosts EXCEPT ![k] = [teamPosts[k] EXCEPT !.handled = TRUE]]
      BY <2>1
    <3>2. teamPosts' \in Seq(TeamPost)
      BY <1>1, <2>2, <3>1, ExceptSeq
    <3> QED BY <1>1, <3>1, <3>2 DEF TeamPost
  <2>4. \A p \in payloads' : p \in payloads \/ (p[1] \in DOMAIN teamPosts /\ p[2] \in GetByTeam /\ p[3] = hooks[p[2]])
    BY <2>1
  <2>5. payloads' \in SUBSET (Nat \X Hook \X HookRow)
    <3>1. \A h \in GetByTeam : h \in Hook /\ hooks[h] \in HookRow
      BY <1>0 DEF GetByTeam, HooksType
    <3>2. k \in Nat
      BY <1>1
    <3> QED BY <1>0, <2>1, <3>1, <3>2 DEF HooksType
  <2>6. HooksType'
    BY <1>0, <2>1, <2>3, <2>5 DEF HooksType, Proc
  <2> QED BY <2>1, <2>3, <2>4, <2>6, GoroutinesKept
<1>4. ASSUME NEW p \in payloads, TriggerWebhook(p) PROVE HooksInv'
  <2>1. /\ UNCHANGED <<situation, served, request, hooks, tokens, withdrawn, teamPosts>> /\ payloads' \subseteq payloads
        /\ \A c \in calls' : c \in calls \/
             \E url \in p[3].urls : c = [post |-> p[1], hook |-> p[2], url |-> url, token |-> p[3].token, at |-> "start"]
    BY <1>4 DEF TriggerWebhook, Goroutine, requestVars
  <2>2. p[1] \in Nat /\ p[2] \in Hook /\ p[3] \in HookRow
    BY <1>0 DEF HooksType
  <2>3. calls' \in SUBSET HookCall
    BY <1>0, <2>1, <2>2 DEF HooksType, HookCall, HookRow
  <2>4. HooksType'
    BY <1>0, <2>1, <2>3 DEF HooksType, Proc
  <2>5. \A c \in calls' :
           \/ \E e \in calls : c.post = e.post /\ c.token = e.token
           \/ c.post = p[1] /\ c.token = p[3].token
    BY <2>1
  <2> QED BY <2>1, <2>4, <2>5, GoroutinesKept
<1>5. ASSUME NEW c \in calls, doWebhookRequest(c) PROVE HooksInv'
  <2>1. /\ UNCHANGED <<situation, served, request, hooks, tokens, withdrawn, teamPosts, payloads>>
        /\ \A e \in calls' : e \in calls \/ \E outcome \in {"logged", "failed"} : e = [c EXCEPT !.at = outcome]
    BY <1>5 DEF doWebhookRequest, Goroutine, requestVars
  <2>2. c \in HookCall
    BY <1>0 DEF HooksType
  <2>3. calls' \in SUBSET HookCall /\ \A e \in calls' : e \in calls \/ (e.post = c.post /\ e.token = c.token)
    BY <1>0, <2>1, <2>2 DEF HooksType, HookCall
  <2>4. HooksType'
    BY <1>0, <2>1, <2>3 DEF HooksType, Proc
  <2> QED BY <2>1, <2>3, <2>4, GoroutinesKept
<1>6. CASE Crash
  <2>1. /\ UNCHANGED <<situation, served, hooks, tokens, withdrawn>> /\ payloads' = {} /\ calls' \subseteq calls
        /\ teamPosts' = [k \in DOMAIN teamPosts |-> [teamPosts[k] EXCEPT !.handled = TRUE]]
        /\ request' = [pr \in Proc |-> Idle]
    BY <1>6 DEF Crash
  <2>2. \A k \in DOMAIN teamPosts : [teamPosts[k] EXCEPT !.handled = TRUE] \in TeamPost
                                    /\ [teamPosts[k] EXCEPT !.handled = TRUE].void = teamPosts[k].void
    BY <1>1 DEF TeamPost
  <2>3. /\ DOMAIN teamPosts' = DOMAIN teamPosts
        /\ \A j \in DOMAIN teamPosts : teamPosts'[j].void = teamPosts[j].void /\ teamPosts'[j] \in TeamPost
    BY <2>1, <2>2
  <2>4. teamPosts' \in Seq(TeamPost)
    BY <1>1, <2>1, <2>2
  <2>5. HooksType'
    BY <1>0, <2>1, <2>4 DEF HooksType, Proc, HookRequest
  <2> QED BY <2>1, <2>3, <2>5, GoroutinesKept
<1> QED BY <1>2, <1>3, <1>4, <1>5, <1>6

LEMMA HooksKept == HooksInv /\ WebhooksNext => HooksInv'
BY HookRequests, HookWrites, GoroutineSteps DEF WebhooksNext

LEMMA HooksBegin == RequestsInit /\ WebhooksInit => HooksInv
<1> SUFFICES ASSUME RequestsInit, WebhooksInit PROVE HooksInv
  OBVIOUS
<1>1. HooksType
  BY DEF RequestsInit, WebhooksInit, HooksType, HookRequest, HookRow, NoHook
<1>2. GetByTeam = {}
  BY DEF WebhooksInit, GetByTeam, NoHook
<1>3. \A pr \in Proc : request[pr].at = "idle"
  BY DEF RequestsInit, Idle
<1>4. DOMAIN teamPosts = {}
  BY DEF WebhooksInit
<1>5. TokensGiven
  BY <1>2, <1>3 DEF WebhooksInit, TokensGiven
<1>6. Alone => HookThere /\ UrlsApart /\ TokensApart
  BY <1>2, <1>3, AloneIs DEF HookThere, UrlsApart, TokensApart, WebhooksInit
<1>7. VoidUnused
  BY <1>4 DEF WebhooksInit, VoidUnused
<1> QED BY <1>1, <1>5, <1>6, <1>7 DEF HooksInv

LEMMA HooksAre == HooksInv => NoSharedUrl /\ WithdrawnTokensUnused
BY DEF HooksInv, NoSharedUrl, WithdrawnTokensUnused, UrlsApart, VoidUnused

(***************************************************************************)
(* Views and favourites.                                                   *)
(*                                                                         *)
(* Of S requests at once all may read a counter that has reached its       *)
(* limit, and each of them adds M to the views.  What is paid for counts   *)
(* S for each view that was counted and for each counter that was started: *)
(* of that a views are still to come, c are in the counter, and r + x      *)
(* requests are going to add M, of which x have set the counter back; the  *)
(* r others may all be paid by what is in the counter.                     *)
(***************************************************************************)
Reserve(S, M, r, c) == IF c < M - 1 THEN S * c ELSE S * c - (M - 1) * r
Paid(S, M, n, w, a, r, x, c) == S * n >= w + M * (r + x) + S * a + Reserve(S, M, r, c)

LEMMA Times ==
  ASSUME NEW k \in Nat, NEW i \in Nat
  PROVE  k * i \in Nat /\ k * (i + 1) = k * i + k
OBVIOUS

LEMMA TimesMonotone ==
  ASSUME NEW k \in Nat, NEW i \in Nat, NEW j \in Nat, i <= j
  PROVE  k * i <= k * j
<1>1. j - i \in Nat /\ k * (j - i) \in Nat
  OBVIOUS
<1>2. k * (j - i) = k * j - k * i
  OBVIOUS
<1> QED BY <1>1, <1>2, Times

LEMMA ReserveIsNat ==
  ASSUME NEW S \in Nat, NEW M \in Nat \ {0, 1}, NEW r \in Nat, NEW c \in Nat, r <= S
  PROVE  Reserve(S, M, r, c) \in Nat /\ Reserve(S, M, r, 0) = 0
<1>1. CASE c < M - 1
  BY <1>1, Times DEF Reserve
<1>2. CASE c >= M - 1
  <2>1. S * (M - 1) <= S * c
    BY <1>2, TimesMonotone
  <2>2. (M - 1) * r <= (M - 1) * S
    BY TimesMonotone
  <2>3. S * c - (M - 1) * r \in Nat
    <3>1. S * c \in Nat /\ (M - 1) * r \in Nat
      BY Times
    <3>2. (M - 1) * S = S * (M - 1)
      OBVIOUS
    <3> QED BY <2>1, <2>2, <3>1, <3>2
  <2> QED BY <1>2, <2>3 DEF Reserve
<1> QED BY <1>1, <1>2

LEMMA PaidSteps ==
  ASSUME NEW S \in Nat \ {0}, NEW M \in Nat \ {0, 1}, NEW n \in Nat, NEW w \in Nat, NEW a \in Nat,
         NEW r \in Nat, NEW x \in Nat, NEW c \in Nat, r <= S
  PROVE  /\ Paid(S, M, n, w, a, r, x, c) => Paid(S, M, n + 1, w, a + 1, r, x, c)
         /\ Paid(S, M, n, w, a + 1, r, x, c) => Paid(S, M, n, w, a, r, x, c + 1)
         /\ Paid(S, M, n, w, a + 1, r, x, c) /\ c >= M - 1 /\ r + 1 <= S => Paid(S, M, n, w, a, r + 1, x, c)
         /\ Paid(S, M, n, w, a, r, x, c) /\ r >= 1 => Paid(S, M, n, w, a, r - 1, x + 1, 0)
         /\ Paid(S, M, n, w, a, r, x, c) => Paid(S, M, n, w, a, r, x, 0)
         /\ Paid(S, M, n, w, a, r, x, c) => Paid(S, M, n + 1, w, a, r, x, 1)
         /\ Paid(S, M, n, w, a, r, x + 1, c) => Paid(S, M, n, w + M, a, r, x, c)
         /\ Paid(S, M, n, w, a, r, x, c) => w + c <= S * n
<1>1. /\ S * n \in Nat /\ S * (n + 1) = S * n + S /\ S * a \in Nat /\ S * (a + 1) = S * a + S
      /\ S * c \in Nat /\ S * (c + 1) = S * c + S /\ S * 0 = 0 /\ S * 1 = S
  BY Times
<1>2. /\ M * (r + x) \in Nat /\ M * (r + (x + 1)) = M * (r + x) + M /\ M * ((r + 1) + x) = M * (r + x) + M
      /\ r >= 1 => M * ((r - 1) + (x + 1)) = M * (r + x)
  <2>1. (r + 1) + x = (r + x) + 1 /\ r + (x + 1) = (r + x) + 1 /\ r + x \in Nat
        /\ r >= 1 => (r - 1) + (x + 1) = r + x
    OBVIOUS
  <2>2. M * (r + x) \in Nat /\ M * ((r + x) + 1) = M * (r + x) + M
    BY <2>1, Times
  <2> QED BY <2>1, <2>2
<1>3. (M - 1) * r \in Nat /\ (M - 1) * (r + 1) = (M - 1) * r + (M - 1)
  BY Times
<1>4. /\ Reserve(S, M, r, c) \in Nat /\ Reserve(S, M, r, 0) = 0
      /\ Reserve(S, M, r, c + 1) \in Nat /\ Reserve(S, M, r, 1) \in Nat
      /\ r >= 1 => Reserve(S, M, r - 1, 0) = 0
  <2>1. c + 1 \in Nat /\ 1 \in Nat
    OBVIOUS
  <2>2. r >= 1 => r - 1 \in Nat /\ r - 1 <= S
    OBVIOUS
  <2> QED BY <2>1, <2>2, ReserveIsNat
<1>5. Reserve(S, M, r, c + 1) <= Reserve(S, M, r, c) + S
  BY <1>1, <1>3 DEF Reserve
<1>6. c >= M - 1 => Reserve(S, M, r + 1, c) = Reserve(S, M, r, c) - (M - 1)
  BY <1>1, <1>3 DEF Reserve
<1>7. Reserve(S, M, r, 1) <= S
  BY <1>1, <1>3 DEF Reserve
<1>8. c <= M * (r + x) + Reserve(S, M, r, c)
  <2>1. CASE c < M - 1
    <3>1. c <= S * c
      <4>1. c * 1 <= c * S
        BY TimesMonotone
      <4> QED BY <4>1
    <3> QED BY <1>2, <2>1, <3>1 DEF Reserve
  <2>2. CASE c >= M - 1
    <3>1. c <= S * c
      <4>1. c * 1 <= c * S
        BY TimesMonotone
      <4> QED BY <4>1
    <3>2. (M - 1) * r <= M * (r + x)
      <4>1. M * r <= M * (r + x)
        BY TimesMonotone
      <4>2. (M - 1) * r = M * r - r
        OBVIOUS
      <4> QED BY <4>1, <4>2, Times
    <3> QED BY <1>1, <1>2, <1>3, <2>2, <3>1, <3>2 DEF Reserve
  <2> QED BY <2>1, <2>2
<1>10. Paid(S, M, n, w, a, r, x, c) => Paid(S, M, n + 1, w, a + 1, r, x, c)
  BY <1>1, <1>2, <1>4 DEF Paid
<1>11. Paid(S, M, n, w, a + 1, r, x, c) => Paid(S, M, n, w, a, r, x, c + 1)
  BY <1>1, <1>2, <1>4, <1>5 DEF Paid
<1>12. Paid(S, M, n, w, a + 1, r, x, c) /\ c >= M - 1 /\ r + 1 <= S => Paid(S, M, n, w, a, r + 1, x, c)
  BY <1>1, <1>2, <1>4, <1>6 DEF Paid
<1>13. Paid(S, M, n, w, a, r, x, c) /\ r >= 1 => Paid(S, M, n, w, a, r - 1, x + 1, 0)
  BY <1>1, <1>2, <1>4 DEF Paid
<1>14. Paid(S, M, n, w, a, r, x, c) => Paid(S, M, n, w, a, r, x, 0)
  BY <1>1, <1>2, <1>4 DEF Paid
<1>15. Paid(S, M, n, w, a, r, x, c) => Paid(S, M, n + 1, w, a, r, x, 1)
  BY <1>1, <1>2, <1>4, <1>7 DEF Paid
<1>16. Paid(S, M, n, w, a, r, x + 1, c) => Paid(S, M, n, w + M, a, r, x, c)
  BY <1>1, <1>2, <1>4 DEF Paid
<1>17. Paid(S, M, n, w, a, r, x, c) => w + c <= S * n
  BY <1>1, <1>2, <1>4, <1>8 DEF Paid
<1> QED BY <1>10, <1>11, <1>12, <1>13, <1>14, <1>15, <1>16, <1>17

ViewPhase == {"view_exists", "view_key", "view_counter", "view_start", "view_reset", "view_incr",
              "view_save", "view_log"}
CountRequest ==
  {Idle} \cup [at : ViewPhase, viewer : Viewer]
         \cup [at : {"favorite_save", "favorite_delete", "favorite_invalidate"}, user : Viewer]
         \cup [at : {"favorite_cache"}, count : Nat]

CountsType ==
  /\ situation \in Situations /\ served \in Nat /\ request \in [Proc -> CountRequest]
  /\ viewKeys \subseteq Viewer /\ counter \in Nat \cup {NoKey}
  /\ views \in Nat /\ viewsHistory \in Nat /\ viewed \in Nat /\ windows \in Nat
  /\ favorites \subseteq Viewer /\ favoriteKey \in Nat \cup {NoKey}

Doing(P) == {pr \in Proc : request[pr].at \in P}
Number(P) == Cardinality(Doing(P))
Coming == {"view_key", "view_counter", "view_start", "view_incr"}
Resetting == {"view_reset"}
Saving == {"view_save"}
Logging == {"view_log"}
Value == IF counter = NoKey THEN 0 ELSE counter

(* What is still to be written of the history is in the views already.     *)
Logged == viewsHistory + POST_COUNTER_MAX * Number(Logging) <= views

(* A request that is going to set the counter back has seen it at its      *)
(* limit, and all that was counted pays for what is added to the views.    *)
Funded ==
  lost = {} => Paid(situation.slots, POST_COUNTER_MAX, viewed + windows, views,
                    Number(Coming), Number(Resetting), Number(Saving), Value)

FavoritesFollow ==
  Alone /\ lost = {} =>
    /\ request[1].at # "favorite_invalidate" => favoriteKey \in {NoKey, Cardinality(favorites)}
    /\ request[1].at = "favorite_cache" => request[1].count = Cardinality(favorites)

CountsInv == CountsType /\ Logged /\ Funded /\ FavoritesFollow

LEMMA Slots ==
  ASSUME situation \in Situations
  PROVE  situation.slots \in Nat \ {0} /\ IsFiniteSet(Proc) /\ Cardinality(Proc) = situation.slots
<1>1. situation.slots \in Nat \ {0}
  BY RequestsAssumption
<1> QED BY <1>1, FS_Interval DEF Proc

LEMMA NumberIs ==
  ASSUME situation \in Situations, NEW P
  PROVE  IsFiniteSet(Doing(P)) /\ Number(P) \in Nat /\ Number(P) <= situation.slots
<1>1. Doing(P) \in SUBSET Proc
  BY DEF Doing
<1> QED BY <1>1, Slots, FS_Subset, FS_CardinalityType DEF Number

Situated == situation \in Situations
FewResetting == Number(Resetting) <= situation.slots

LEMMA FewReset == Situated => FewResetting
BY NumberIs DEF Situated, FewResetting

LEMMA FewStillReset == Situated' => FewResetting'
BY FewReset, PTL

(* A request that moves on is counted where it was no longer, and where it *)
(* comes to.                                                               *)
LEMMA PhaseMoves ==
  ASSUME situation \in Situations, NEW R, request \in [Proc -> R], UNCHANGED situation,
         NEW pr \in Proc, NEW r, Become(pr, r), NEW P
  PROVE  Number(P)' = IF r.at \in P
                      THEN IF request[pr].at \in P THEN Number(P) ELSE Number(P) + 1
                      ELSE IF request[pr].at \in P THEN Number(P) - 1 ELSE Number(P)
<1>1. Doing(P)' = IF r.at \in P THEN Doing(P) \cup {pr} ELSE Doing(P) \ {pr}
  BY DEF Become, Doing, Proc
<1>2. pr \in Doing(P) <=> request[pr].at \in P
  BY DEF Doing
<1>3. IsFiniteSet(Doing(P))
  BY NumberIs
<1>4. /\ Cardinality(Doing(P) \cup {pr}) = IF pr \in Doing(P) THEN Number(P) ELSE Number(P) + 1
      /\ Cardinality(Doing(P) \ {pr}) = IF pr \in Doing(P) THEN Number(P) - 1 ELSE Number(P)
  BY <1>3, FS_AddElement, FS_RemoveElement DEF Number
<1>5. Number(P)' = Cardinality(Doing(P)')
  BY DEF Number
<1> QED BY <1>1, <1>2, <1>4, <1>5

LEMMA CountRequests ==
  ASSUME CountsType, NEW pr \in Proc
  PROVE  /\ request[pr] \in CountRequest /\ Idle \in CountRequest
         /\ request[pr].at \in ViewPhase =>
              \A phase \in ViewPhase : [request[pr] EXCEPT !.at = phase] \in CountRequest
                                       /\ [request[pr] EXCEPT !.at = phase].at = phase
         /\ request[pr].at \in {"favorite_save", "favorite_delete", "favorite_invalidate"} =>
              \A phase \in {"favorite_save", "favorite_delete", "favorite_invalidate"} :
                 [request[pr] EXCEPT !.at = phase] \in CountRequest /\ [request[pr] EXCEPT !.at = phase].at = phase
                 /\ request[pr].user \in Viewer
BY DEF CountsType, CountRequest, Idle, ViewPhase

LEMMA FavoritesAreFinite ==
  ASSUME CountsType
  PROVE  IsFiniteSet(favorites) /\ Cardinality(favorites) \in Nat
BY CachedCountsAssumption, FS_Subset, FS_CardinalityType DEF CountsType

(* A step of a view leaves favourites alone.                               *)
LEMMA ViewKeeps ==
  ASSUME CountsInv, NEW pr \in Proc, NEW from \in ViewPhase, NEW r \in CountRequest,
         r = Idle \/ r.at \in ViewPhase,
         request[pr].at = from, Become(pr, r), UNCHANGED <<situation, served, lost, favoriteTables>>,
         viewKeys' \subseteq Viewer, counter' \in Nat \cup {NoKey}, views' \in Nat, viewsHistory' \in Nat,
         viewed' \in Nat, windows' \in Nat, Logged', Funded'
  PROVE  CountsInv'
<1>1. CountsType'
  BY DEF CountsInv, CountsType, Become, Proc, favoriteTables
<1>2. FavoritesFollow'
  <2> SUFFICES ASSUME Alone', lost' = {}
               PROVE  /\ request'[1].at # "favorite_invalidate" => favoriteKey' \in {NoKey, Cardinality(favorites')}
                      /\ request'[1].at # "favorite_cache"
    BY DEF FavoritesFollow
  <2>1. Alone /\ lost = {} /\ Proc = {1} /\ Proc' = {1}
    BY AloneIs DEF Alone, Proc
  <2>2. request[1].at = from /\ request'[1] = r
    BY <2>1 DEF CountsInv, CountsType, Become
  <2>3. favoriteKey \in {NoKey, Cardinality(favorites)}
    BY <2>1, <2>2 DEF CountsInv, FavoritesFollow, ViewPhase
  <2> QED BY <2>2, <2>3 DEF favoriteTables, Idle, ViewPhase
<1> QED BY <1>1, <1>2 DEF CountsInv

(* The payments of a step, from where a request was to where it is.        *)
LEMMA Steps ==
  ASSUME CountsInv
  PROVE  LET S == situation.slots
             M == POST_COUNTER_MAX
             n == viewed + windows
             a == Number(Coming)
             r == Number(Resetting)
             x == Number(Saving)
         IN /\ S \in Nat \ {0} /\ M \in Nat \ {0, 1} /\ n \in Nat /\ views \in Nat /\ a \in Nat
            /\ r \in Nat /\ x \in Nat /\ Value \in Nat /\ r <= S
            /\ lost = {} => Paid(S, M, n, views, a, r, x, Value)
<1>1. situation \in Situations
  BY DEF CountsInv, CountsType
<1>2. Number(Coming) \in Nat /\ Number(Resetting) \in Nat /\ Number(Saving) \in Nat
      /\ Number(Resetting) <= situation.slots
  BY <1>1, NumberIs
<1> QED BY <1>1, <1>2, Slots, CachedCountsAssumption DEF CountsInv, CountsType, Value, Funded

LEMMA ViewSteps ==
  ASSUME CountsInv, NEW pr \in Proc
  PROVE  /\ ExistsKey(pr) => CountsInv'
         /\ AddViewKey(pr) => CountsInv'
         /\ ReadCounter(pr) => CountsInv'
         /\ StartCounter(pr) => CountsInv'
         /\ ResetCounter(pr) => CountsInv'
         /\ incrementBy(pr) => CountsInv'
         /\ ViewPost(pr) => CountsInv'
         /\ SavePostViewsHistory(pr) => CountsInv'
<1> DEFINE S == situation.slots
           M == POST_COUNTER_MAX
           n == viewed + windows
           a == Number(Coming)
           r == Number(Resetting)
           x == Number(Saving)
           l == Number(Logging)
<1>0. /\ S \in Nat \ {0} /\ M \in Nat \ {0, 1} /\ n \in Nat /\ views \in Nat /\ a \in Nat
      /\ r \in Nat /\ x \in Nat /\ Value \in Nat /\ r <= S
      /\ lost = {} => Paid(S, M, n, views, a, r, x, Value)
  BY Steps
<1>1. CountsType /\ situation \in Situations /\ request \in [Proc -> CountRequest]
  BY DEF CountsInv, CountsType
<1>2. l \in Nat /\ M * l \in Nat /\ viewsHistory + M * l <= views /\ NoKey \notin Nat
  <2>1. l \in Nat
    BY <1>1, NumberIs
  <2> QED BY <1>0, <2>1, Times, CachedCountsAssumption DEF CountsInv, Logged
<1>3. viewed \in Nat /\ windows \in Nat /\ viewsHistory \in Nat /\ viewKeys \subseteq Viewer
      /\ counter \in Nat \cup {NoKey}
  BY <1>1 DEF CountsType
<1>4. request[pr].at \in ViewPhase => request[pr].viewer \in Viewer
  BY <1>1 DEF CountRequest, ViewPhase, Idle
<1>5. \A P : \A q : Become(pr, q) /\ UNCHANGED situation =>
        Number(P)' = IF q.at \in P
                     THEN IF request[pr].at \in P THEN Number(P) ELSE Number(P) + 1
                     ELSE IF request[pr].at \in P THEN Number(P) - 1 ELSE Number(P)
  BY <1>1, PhaseMoves
<1>6. \A P : request[pr].at \in P => Number(P) >= 1
  <2> SUFFICES ASSUME NEW P, request[pr].at \in P PROVE Number(P) >= 1
    OBVIOUS
  <2>1. Doing(P) # {} /\ IsFiniteSet(Doing(P)) /\ Number(P) \in Nat
    BY <1>1, NumberIs DEF Doing
  <2>2. Number(P) # 0
    BY <2>1, FS_EmptySet DEF Number
  <2> QED BY <2>1, <2>2
<1>7. \A phase \in ViewPhase : request[pr].at \in ViewPhase =>
        [request[pr] EXCEPT !.at = phase] \in CountRequest /\ [request[pr] EXCEPT !.at = phase].at = phase
  BY <1>1, CountRequests
<1>8. Idle \in CountRequest /\ Idle.at = "idle"
  BY <1>1, CountRequests DEF Idle
<1> HIDE DEF S, M, n, a, r, x, l
<1>11. ASSUME ExistsKey(pr) PROVE CountsInv'
  <2>1. request[pr].at = "view_exists" /\ UNCHANGED <<situation, served, lost, favoriteTables, viewKeys, counter,
                                                       views, viewsHistory, windows>>
    BY <1>11 DEF ExistsKey, At
  <2>2. CASE Become(pr, Idle) /\ UNCHANGED viewed
    <3>1. a' = a /\ r' = r /\ x' = x /\ l' = l
      BY <1>5, <1>8, <2>1, <2>2 DEF a, r, x, l, Coming, Resetting, Saving, Logging
    <3>2. Logged' /\ Funded'
      BY <2>1, <2>2, <3>1 DEF CountsInv, Logged, Funded, a, r, x, l, Value
    <3> QED BY <1>0, <1>3, <1>8, <2>1, <2>2, <3>2, ViewKeeps DEF ViewPhase
  <2>3. ASSUME NEW q, q = [request[pr] EXCEPT !.at = "view_key"], Become(pr, q), viewed' = viewed + 1
        PROVE  CountsInv'
    <3>0. q.at = "view_key" /\ q \in CountRequest
      BY <1>7, <2>1, <2>3 DEF ViewPhase
    <3>1. a' = a + 1 /\ r' = r /\ x' = x /\ l' = l
      <4>0. Become(pr, q) /\ UNCHANGED situation
        BY <2>1, <2>3
      <4>1. Number(Coming)' = Number(Coming) + 1
        BY <1>5, <4>0, <3>0, <2>1 DEF Coming
      <4>2. r' = r /\ x' = x /\ l' = l
        BY <1>5, <4>0, <3>0, <2>1 DEF r, x, l, Resetting, Saving, Logging
      <4> QED BY <4>1, <4>2 DEF a
    <3>2. n' = n + 1 /\ viewed' \in Nat
      BY <1>3, <2>1, <2>3 DEF n
    <3>3. lost = {} => Paid(S, M, n + 1, views, a + 1, r, x, Value)
      BY <1>0, PaidSteps
    <3>4. Logged' /\ Funded'
      BY <2>1, <3>1, <3>2, <3>3 DEF CountsInv, Logged, Funded, S, M, n, a, r, x, l, Value
    <3> QED BY <1>0, <1>3, <2>1, <2>3, <3>0, <3>2, <3>4, ViewKeeps DEF ViewPhase
  <2> QED BY <1>11, <2>2, <2>3 DEF ExistsKey, Goto, Finish
<1>12. ASSUME AddViewKey(pr) PROVE CountsInv'
  <2>0. PICK q : q = [request[pr] EXCEPT !.at = "view_counter"]
    OBVIOUS
  <2>1. /\ request[pr].at = "view_key" /\ Become(pr, q) /\ viewKeys' = viewKeys \cup {request[pr].viewer}
        /\ UNCHANGED <<situation, served, lost, favoriteTables, counter, views, viewsHistory, viewed, windows>>
    BY <1>12, <2>0 DEF AddViewKey, At, Goto
  <2>2. q.at = "view_counter" /\ q \in CountRequest /\ viewKeys' \subseteq Viewer
    BY <1>3, <1>4, <1>7, <2>0, <2>1 DEF ViewPhase
  <2>3. a' = a /\ r' = r /\ x' = x /\ l' = l
    BY <1>5, <2>1, <2>2 DEF a, r, x, l, Coming, Resetting, Saving, Logging
  <2>4. Logged' /\ Funded'
    BY <2>1, <2>3 DEF CountsInv, Logged, Funded, a, r, x, l, Value
  <2> QED BY <1>0, <1>3, <2>1, <2>2, <2>4, ViewKeeps DEF ViewPhase
<1>13. ASSUME ReadCounter(pr) PROVE CountsInv'
  <2>0. PICK q : q = [request[pr] EXCEPT !.at = IF counter = NoKey THEN "view_start" ELSE AfterReading(counter)]
    OBVIOUS
  <2>1. /\ request[pr].at = "view_counter" /\ Become(pr, q)
        /\ UNCHANGED <<situation, served, lost, favoriteTables, viewKeys, counter, views, viewsHistory, viewed, windows>>
    BY <1>13, <2>0 DEF ReadCounter, At, Goto, cachedVars, viewTables
  <2>2. q \in CountRequest /\ (\/ q.at \in {"view_start", "view_incr"}
                               \/ q.at = "view_reset" /\ Value >= M - 1)
    BY <1>0, <1>3, <1>7, <2>0, <2>1 DEF ViewPhase, AfterReading, Value, M
  <2>3. CASE q.at \in {"view_start", "view_incr"}
    <3>1. a' = a /\ r' = r /\ x' = x /\ l' = l
      BY <1>5, <2>1, <2>3 DEF a, r, x, l, Coming, Resetting, Saving, Logging
    <3>2. Logged' /\ Funded'
      BY <2>1, <3>1 DEF CountsInv, Logged, Funded, a, r, x, l, Value
    <3> QED BY <1>0, <1>3, <2>1, <2>2, <2>3, <3>2, ViewKeeps DEF ViewPhase
  <2>4. CASE q.at = "view_reset" /\ Value >= M - 1
    <3>1. a' = a - 1 /\ r' = r + 1 /\ x' = x /\ l' = l /\ a >= 1
      BY <1>5, <1>6, <2>1, <2>4 DEF a, r, x, l, Coming, Resetting, Saving, Logging
    <3>2. r + 1 <= S
      <4>1. Number(Resetting)' <= situation.slots'
        BY <1>1, <2>1, FewStillReset DEF Situated, FewResetting
      <4> QED BY <2>1, <3>1, <4>1 DEF r, S
    <3>3. lost = {} => Paid(S, M, n, views, a - 1, r + 1, x, Value)
      <4>1. a - 1 \in Nat /\ (a - 1) + 1 = a
        BY <1>0, <3>1
      <4> QED BY <1>0, <2>4, <3>2, <4>1, PaidSteps
    <3>4. Logged' /\ Funded'
      BY <2>1, <3>1, <3>3 DEF CountsInv, Logged, Funded, S, M, n, a, r, x, l, Value
    <3> QED BY <1>0, <1>3, <2>1, <2>2, <2>4, <3>4, ViewKeeps DEF ViewPhase
  <2> QED BY <2>2, <2>3, <2>4
<1>14. ASSUME StartCounter(pr) PROVE CountsInv'
  <2>0. PICK q : q = [request[pr] EXCEPT !.at = AfterReading(0)]
    OBVIOUS
  <2>1. /\ request[pr].at = "view_start" /\ Become(pr, q) /\ counter' = 1 /\ windows' = windows + 1
        /\ UNCHANGED <<situation, served, lost, favoriteTables, viewKeys, views, viewsHistory, viewed>>
    BY <1>14, <2>0 DEF StartCounter, At, Goto
  <2>2. q \in CountRequest /\ q.at = "view_incr"
    BY <1>0, <1>7, <2>0, <2>1 DEF ViewPhase, AfterReading, M
  <2>3. a' = a /\ r' = r /\ x' = x /\ l' = l
    BY <1>5, <2>1, <2>2 DEF a, r, x, l, Coming, Resetting, Saving, Logging
  <2>4. n' = n + 1 /\ windows' \in Nat /\ Value' = 1
    BY <1>2, <1>3, <2>1 DEF n, Value
  <2>5. lost = {} => Paid(S, M, n + 1, views, a, r, x, 1)
    BY <1>0, PaidSteps
  <2>6. Logged' /\ Funded'
    BY <2>1, <2>3, <2>4, <2>5 DEF CountsInv, Logged, Funded, S, M, n, a, r, x, l
  <2> QED BY <1>0, <1>3, <2>1, <2>2, <2>4, <2>6, ViewKeeps DEF ViewPhase
<1>15. ASSUME ResetCounter(pr) PROVE CountsInv'
  <2>0. PICK q : q = [request[pr] EXCEPT !.at = "view_save"]
    OBVIOUS
  <2>1. /\ request[pr].at = "view_reset" /\ Become(pr, q) /\ counter' = 0
        /\ UNCHANGED <<situation, served, lost, favoriteTables, viewKeys, views, viewsHistory, viewed, windows>>
    BY <1>15, <2>0 DEF ResetCounter, At, Goto
  <2>2. q \in CountRequest /\ q.at = "view_save"
    BY <1>7, <2>0, <2>1 DEF ViewPhase
  <2>3. a' = a /\ r' = r - 1 /\ x' = x + 1 /\ l' = l /\ r >= 1
    BY <1>5, <1>6, <2>1, <2>2 DEF a, r, x, l, Coming, Resetting, Saving, Logging
  <2>4. Value' = 0
    BY <1>2, <2>1 DEF Value
  <2>5. lost = {} => Paid(S, M, n, views, a, r - 1, x + 1, 0)
    BY <1>0, <2>3, PaidSteps
  <2>6. Logged' /\ Funded'
    BY <2>1, <2>3, <2>4, <2>5 DEF CountsInv, Logged, Funded, S, M, n, a, r, x, l
  <2> QED BY <1>0, <1>3, <2>1, <2>2, <2>6, ViewKeeps DEF ViewPhase
<1>16. ASSUME incrementBy(pr) PROVE CountsInv'
  <2>1. /\ request[pr].at = "view_incr" /\ Become(pr, Idle)
        /\ counter' = IF counter = NoKey THEN 1 ELSE counter + 1
        /\ UNCHANGED <<situation, served, lost, favoriteTables, viewKeys, views, viewsHistory, viewed, windows>>
    BY <1>16 DEF incrementBy, At, Finish
  <2>3. a' = a - 1 /\ r' = r /\ x' = x /\ l' = l /\ a >= 1
    BY <1>5, <1>6, <1>8, <2>1 DEF a, r, x, l, Coming, Resetting, Saving, Logging
  <2>4. Value' = Value + 1 /\ counter' \in Nat
    BY <1>2, <1>3, <2>1 DEF Value
  <2>5. lost = {} => Paid(S, M, n, views, a - 1, r, x, Value + 1)
    <3>1. a - 1 \in Nat /\ (a - 1) + 1 = a
      BY <1>0, <2>3
    <3> QED BY <1>0, <3>1, PaidSteps
  <2>6. Logged' /\ Funded'
    BY <2>1, <2>3, <2>4, <2>5 DEF CountsInv, Logged, Funded, S, M, n, a, r, x, l
  <2> QED BY <1>0, <1>3, <1>8, <2>1, <2>4, <2>6, ViewKeeps DEF ViewPhase
<1>17. ASSUME ViewPost(pr) PROVE CountsInv'
  <2>0. PICK q : q = [request[pr] EXCEPT !.at = "view_log"]
    OBVIOUS
  <2>1. /\ request[pr].at = "view_save" /\ Become(pr, q) /\ views' = views + M
        /\ UNCHANGED <<situation, served, lost, favoriteTables, viewKeys, counter, viewsHistory, viewed, windows>>
    BY <1>17, <2>0 DEF ViewPost, At, Goto, M
  <2>2. q \in CountRequest /\ q.at = "view_log" /\ views' \in Nat
    BY <1>0, <1>7, <2>0, <2>1 DEF ViewPhase
  <2>3. a' = a /\ r' = r /\ x' = x - 1 /\ l' = l + 1 /\ x >= 1
    BY <1>5, <1>6, <2>1, <2>2 DEF a, r, x, l, Coming, Resetting, Saving, Logging
  <2>4. lost = {} => Paid(S, M, n, views + M, a, r, x - 1, Value)
    <3>1. x - 1 \in Nat /\ (x - 1) + 1 = x
      BY <1>0, <2>3
    <3> QED BY <1>0, <3>1, PaidSteps
  <2>5. Funded'
    BY <2>1, <2>3, <2>4 DEF Funded, S, M, n, a, r, x, Value
  <2>6. viewsHistory + M * (l + 1) <= views + M
    <3>1. M * (l + 1) = M * l + M
      BY <1>0, <1>2, Times
    <3> QED BY <1>0, <1>2, <1>3, <3>1
  <2>7. Logged'
    BY <2>1, <2>3, <2>6 DEF Logged, l, M
  <2> QED BY <1>0, <1>3, <2>1, <2>2, <2>5, <2>7, ViewKeeps DEF ViewPhase
<1>18. ASSUME SavePostViewsHistory(pr) PROVE CountsInv'
  <2>1. /\ request[pr].at = "view_log" /\ Become(pr, Idle) /\ viewsHistory' = viewsHistory + M
        /\ UNCHANGED <<situation, served, lost, favoriteTables, viewKeys, counter, views, viewed, windows>>
    BY <1>18 DEF SavePostViewsHistory, At, Finish, M
  <2>2. a' = a /\ r' = r /\ x' = x /\ l' = l - 1 /\ l >= 1
    BY <1>5, <1>6, <1>8, <2>1 DEF a, r, x, l, Coming, Resetting, Saving, Logging
  <2>3. Funded'
    BY <2>1, <2>2 DEF CountsInv, Funded, a, r, x, Value
  <2>4. viewsHistory' + M * (l - 1) <= views /\ viewsHistory' \in Nat
    <3>1. M * ((l - 1) + 1) = M * (l - 1) + M /\ (l - 1) + 1 = l /\ M * (l - 1) \in Nat
      <4>1. l - 1 \in Nat /\ (l - 1) + 1 = l
        BY <1>2, <2>2
      <4> QED BY <1>0, <4>1, Times
    <3> QED BY <1>0, <1>2, <1>3, <2>1, <3>1
  <2>5. Logged'
    BY <2>1, <2>2, <2>4 DEF Logged, l, M
  <2> QED BY <1>0, <1>3, <1>8, <2>1, <2>3, <2>4, <2>5, ViewKeeps DEF ViewPhase
<1> QED BY <1>11, <1>12, <1>13, <1>14, <1>15, <1>16, <1>17, <1>18

Work == Coming \cup Resetting \cup Saving \cup Logging

(* What favourites, and the beginning of a view, leave alone.              *)
LEMMA ViewsKept ==
  ASSUME CountsInv, NEW pr \in Proc, NEW q, Become(pr, q), UNCHANGED <<situation, lost, viewTables>>,
         request[pr].at \notin Work, q.at \notin Work
  PROVE  Logged' /\ Funded'
<1>1. situation \in Situations /\ request \in [Proc -> CountRequest]
  BY DEF CountsInv, CountsType
<1>2. \A P \in {Coming, Resetting, Saving, Logging} : Number(P)' = Number(P)
  <2>1. \A P \in {Coming, Resetting, Saving, Logging} : request[pr].at \notin P /\ q.at \notin P
    BY DEF Work
  <2> QED BY <1>1, <2>1, PhaseMoves
<1>3. /\ Number(Coming)' = Number(Coming) /\ Number(Resetting)' = Number(Resetting)
      /\ Number(Saving)' = Number(Saving) /\ Number(Logging)' = Number(Logging)
  BY <1>2
<1> QED BY <1>3 DEF CountsInv, Logged, Funded, viewTables, Value

LEMMA CountsBegun ==
  ASSUME CountsInv, NEW pr \in Proc
  PROVE  /\ \A v \in Viewer : viewPost(pr, v) \/ favoritePost(pr, v) \/ cancelFavoritePost(pr, v) => CountsInv'
         /\ GetCountByPostId(pr) => CountsInv'
<1>0. CountsType /\ NoKey \notin Nat
  BY CachedCountsAssumption DEF CountsInv
<1>1. ASSUME NEW q \in CountRequest, NEW op, Accept(pr, op), Become(pr, q), UNCHANGED cachedVars,
             q.at \notin Work, q.at # "favorite_invalidate",
             q.at = "favorite_cache" => q.count = Cardinality(favorites)
      PROVE  CountsInv'
  <2>1. request[pr] = Idle /\ UNCHANGED <<situation, lost, viewTables>> /\ served' \in Nat
    BY <1>0, <1>1 DEF Accept, Counted, cachedVars, CountsType
  <2>2. request[pr].at \notin Work
    BY <2>1 DEF Idle, Work, Coming, Resetting, Saving, Logging
  <2>3. Logged' /\ Funded'
    BY <1>1, <2>1, <2>2, ViewsKept
  <2>4. CountsType'
    BY <1>0, <1>1, <2>1 DEF CountsType, Become, Proc, cachedVars, viewTables, favoriteTables
  <2>5. FavoritesFollow'
    <3> SUFFICES ASSUME Alone', lost' = {}
                 PROVE  /\ favoriteKey' \in {NoKey, Cardinality(favorites')}
                        /\ request'[1].at = "favorite_cache" => request'[1].count = Cardinality(favorites')
      BY DEF FavoritesFollow
    <3>1. Alone /\ lost = {} /\ pr = 1
      BY <2>1, AloneIs DEF Alone
    <3>2. request[1] = Idle /\ request'[1] = q
      BY <1>0, <1>1, <2>1, <3>1 DEF CountsType, Become
    <3>3. favoriteKey \in {NoKey, Cardinality(favorites)}
      BY <3>1, <3>2 DEF CountsInv, FavoritesFollow, Idle
    <3> QED BY <1>1, <3>2, <3>3 DEF cachedVars, favoriteTables
  <2> QED BY <2>3, <2>4, <2>5 DEF CountsInv
<1>2. ASSUME NEW v \in Viewer, viewPost(pr, v) PROVE CountsInv'
  <2>0. PICK q : q = [at |-> "view_exists", viewer |-> v]
    OBVIOUS
  <2>1. q \in CountRequest /\ q.at = "view_exists"
    BY <2>0 DEF CountRequest, ViewPhase
  <2>2. Accept(pr, "view") /\ Become(pr, q) /\ UNCHANGED cachedVars
    BY <1>2, <2>0 DEF viewPost
  <2> QED BY <1>1, <2>1, <2>2 DEF Work, Coming, Resetting, Saving, Logging
<1>3. ASSUME NEW v \in Viewer, favoritePost(pr, v) PROVE CountsInv'
  <2>0. PICK q : q = [at |-> "favorite_save", user |-> v]
    OBVIOUS
  <2>1. q \in CountRequest /\ q.at = "favorite_save"
    BY <2>0 DEF CountRequest
  <2>2. Accept(pr, "favorite") /\ Become(pr, q) /\ UNCHANGED cachedVars
    BY <1>3, <2>0 DEF favoritePost
  <2> QED BY <1>1, <2>1, <2>2 DEF Work, Coming, Resetting, Saving, Logging
<1>4. ASSUME NEW v \in Viewer, cancelFavoritePost(pr, v) PROVE CountsInv'
  <2>0. PICK q : q = [at |-> "favorite_delete", user |-> v]
    OBVIOUS
  <2>1. q \in CountRequest /\ q.at = "favorite_delete"
    BY <2>0 DEF CountRequest
  <2>2. Accept(pr, "cancel_favorite") /\ Become(pr, q) /\ UNCHANGED cachedVars
    BY <1>4, <2>0 DEF cancelFavoritePost
  <2> QED BY <1>1, <2>1, <2>2 DEF Work, Coming, Resetting, Saving, Logging
<1>5. ASSUME GetCountByPostId(pr) PROVE CountsInv'
  <2>0. PICK q : q = [at |-> "favorite_cache", count |-> Cardinality(favorites)]
    OBVIOUS
  <2>1. q \in CountRequest /\ q.at = "favorite_cache" /\ q.count = Cardinality(favorites)
    BY <1>0, <2>0, FavoritesAreFinite DEF CountRequest
  <2>2. Accept(pr, "read_favorites") /\ Become(pr, q) /\ UNCHANGED cachedVars
    BY <1>5, <2>0 DEF GetCountByPostId
  <2> QED BY <1>1, <2>1, <2>2 DEF Work, Coming, Resetting, Saving, Logging
<1> QED BY <1>2, <1>3, <1>4, <1>5

LEMMA FavoriteSteps ==
  ASSUME CountsInv, NEW pr \in Proc,
         \/ SaveFavorite(pr) \/ DeleteFavorite(pr) \/ InvalidateFavoriteCount(pr) \/ CacheFavoriteCount(pr)
  PROVE  CountsInv'
<1>0. CountsType /\ NoKey \notin Nat /\ FavoritesFollow
  BY CachedCountsAssumption DEF CountsInv
<1>1. request[pr] \in CountRequest /\ Idle \in CountRequest /\ Idle.at = "idle"
  BY <1>0, CountRequests DEF Idle
<1>2. ASSUME NEW q \in CountRequest, q.at \in {"idle", "favorite_invalidate"}, Become(pr, q), UNCHANGED viewTables,
             request[pr].at \in {"favorite_save", "favorite_delete", "favorite_invalidate", "favorite_cache"},
             UNCHANGED <<situation, served, lost>>, favorites' \subseteq Viewer, favoriteKey' \in Nat \cup {NoKey},
             Alone /\ lost = {} /\ q.at = "idle" => favoriteKey' \in {NoKey, Cardinality(favorites')}
      PROVE  CountsInv'
  <2>1. request[pr].at \notin Work /\ q.at \notin Work
    BY <1>2 DEF Work, Coming, Resetting, Saving, Logging
  <2>2. Logged' /\ Funded'
    BY <1>2, <2>1, ViewsKept
  <2>3. CountsType'
    BY <1>0, <1>2 DEF CountsType, Become, Proc, viewTables
  <2>4. FavoritesFollow'
    <3> SUFFICES ASSUME Alone', lost' = {}
                 PROVE  /\ request'[1].at # "favorite_invalidate" => favoriteKey' \in {NoKey, Cardinality(favorites')}
                        /\ request'[1].at # "favorite_cache"
      BY DEF FavoritesFollow
    <3>1. Alone /\ lost = {} /\ pr = 1
      BY <1>2, AloneIs DEF Alone
    <3>2. request'[1] = q
      BY <1>0, <1>2, <3>1 DEF CountsType, Become
    <3> QED BY <1>2, <3>1, <3>2
  <2> QED BY <2>2, <2>3, <2>4 DEF CountsInv
<1>3. Alone => pr = 1
  BY AloneIs
<1>4. CASE SaveFavorite(pr)
  <2>1. /\ request[pr].at = "favorite_save" /\ UNCHANGED <<situation, served, lost, viewTables, favoriteKey>>
        /\ favorites' = favorites \cup {request[pr].user}
        /\ \/ request[pr].user \in favorites /\ Become(pr, Idle)
           \/ Goto(pr, "favorite_invalidate")
    BY <1>4 DEF SaveFavorite, At, Finish
  <2>2. favorites' \subseteq Viewer /\ favoriteKey' \in Nat \cup {NoKey}
    BY <1>0, <2>1, CountRequests DEF CountsType
  <2>3. CASE request[pr].user \in favorites /\ Become(pr, Idle)
    <3>1. favorites' = favorites
      BY <2>1, <2>3
    <3>2. Alone /\ lost = {} => favoriteKey \in {NoKey, Cardinality(favorites)}
      BY <1>0, <1>3, <2>1 DEF FavoritesFollow
    <3> QED BY <1>1, <1>2, <2>1, <2>2, <2>3, <3>1, <3>2
  <2>4. CASE Goto(pr, "favorite_invalidate")
    <3>0. PICK q : q = [request[pr] EXCEPT !.at = "favorite_invalidate"]
      OBVIOUS
    <3>1. q \in CountRequest /\ q.at = "favorite_invalidate"
      BY <1>0, <2>1, <3>0, CountRequests
    <3> QED BY <1>2, <2>1, <2>2, <2>4, <3>0, <3>1 DEF Goto
  <2> QED BY <2>1, <2>3, <2>4
<1>5. CASE DeleteFavorite(pr)
  <2>0. PICK q : q = [request[pr] EXCEPT !.at = "favorite_invalidate"]
    OBVIOUS
  <2>1. /\ request[pr].at = "favorite_delete" /\ UNCHANGED <<situation, served, lost, viewTables, favoriteKey>>
        /\ favorites' \subseteq favorites /\ Become(pr, q)
    BY <1>5, <2>0 DEF DeleteFavorite, At, Goto
  <2>2. q \in CountRequest /\ q.at = "favorite_invalidate"
    BY <1>0, <2>0, <2>1, CountRequests
  <2>3. favorites' \subseteq Viewer /\ favoriteKey' \in Nat \cup {NoKey}
    BY <1>0, <2>1 DEF CountsType
  <2> QED BY <1>2, <2>1, <2>2, <2>3
<1>6. CASE InvalidateFavoriteCount(pr)
  <2>1. /\ request[pr].at = "favorite_invalidate" /\ UNCHANGED <<situation, served, lost, viewTables, favorites>>
        /\ favoriteKey' = NoKey /\ Become(pr, Idle)
    BY <1>6 DEF InvalidateFavoriteCount, At, Finish
  <2> QED BY <1>0, <1>1, <1>2, <2>1 DEF CountsType
<1>7. CASE CacheFavoriteCount(pr)
  <2>1. /\ request[pr].at = "favorite_cache" /\ UNCHANGED <<situation, served, lost, viewTables, favorites>>
        /\ favoriteKey' = request[pr].count /\ Become(pr, Idle)
    BY <1>7 DEF CacheFavoriteCount, At, Finish
  <2>2. request[pr].count \in Nat
    BY <1>1, <2>1 DEF CountRequest, ViewPhase, Idle
  <2>3. Alone /\ lost = {} => request[pr].count = Cardinality(favorites)
    BY <1>0, <1>3, <2>1 DEF FavoritesFollow
  <2> QED BY <1>0, <1>1, <1>2, <2>1, <2>2, <2>3 DEF CountsType
<1> QED BY <1>4, <1>5, <1>6, <1>7

(* After a failure it is only the views' history that is still looked at.  *)
LEMMA CountFailures ==
  ASSUME CountsInv, NEW pr \in Proc, RedisFails(pr) \/ (Fault(pr) /\ UNCHANGED cachedVars)
  PROVE  CountsInv'
<1>0. CountsType /\ situation \in Situations /\ request \in [Proc -> CountRequest] /\ Logged
  BY DEF CountsInv, CountsType
<1>1. ASSUME NEW q \in CountRequest, Become(pr, q), lost' # {}, UNCHANGED <<situation, served, cachedVars>>,
             q.at # "view_log"
      PROVE  CountsInv'
  <2>1. CountsType'
    BY <1>0, <1>1 DEF CountsType, Become, Proc, cachedVars, viewTables, favoriteTables
  <2>2. Number(Logging)' <= Number(Logging) /\ Number(Logging) \in Nat /\ Number(Logging)' \in Nat
    <3>1. Number(Logging)' = IF request[pr].at \in Logging THEN Number(Logging) - 1 ELSE Number(Logging)
      BY <1>0, <1>1, PhaseMoves DEF Logging
    <3>2. Number(Logging) \in Nat
      BY <1>0, NumberIs
    <3>3. request[pr].at \in Logging => Number(Logging) # 0
      <4>1. IsFiniteSet(Doing(Logging))
        BY <1>0, NumberIs
      <4>2. Number(Logging) = 0 => Doing(Logging) = {}
        BY <4>1, FS_EmptySet DEF Number
      <4> QED BY <4>2 DEF Doing
    <3> QED BY <3>1, <3>2, <3>3
  <2>3. /\ POST_COUNTER_MAX * Number(Logging)' <= POST_COUNTER_MAX * Number(Logging)
        /\ POST_COUNTER_MAX * Number(Logging)' \in Nat /\ POST_COUNTER_MAX * Number(Logging) \in Nat
    BY <2>2, TimesMonotone, Times, CachedCountsAssumption
  <2>4. Logged'
    BY <1>0, <1>1, <2>3 DEF Logged, CountsType, cachedVars, viewTables
  <2>5. Funded' /\ FavoritesFollow'
    BY <1>1 DEF Funded, FavoritesFollow
  <2> QED BY <2>1, <2>4, <2>5 DEF CountsInv
<1>2. Idle \in CountRequest /\ Idle.at = "idle"
  BY <1>0, CountRequests DEF Idle
<1>3. CASE Fault(pr) /\ UNCHANGED cachedVars
  <2>1. Become(pr, Idle) /\ lost' # {} /\ UNCHANGED <<situation, served>>
    BY <1>3 DEF Fault, Finish
  <2> QED BY <1>1, <1>2, <1>3, <2>1
<1>4. CASE RedisFails(pr)
  <2>1. /\ lost' # {} /\ UNCHANGED <<situation, served, cachedVars>>
        /\ \/ request[pr].at \in DOMAIN AfterFailure /\ Goto(pr, AfterFailure[request[pr].at])
           \/ Become(pr, Idle)
    BY <1>4 DEF RedisFails, Finish
  <2>2. CASE request[pr].at \in DOMAIN AfterFailure /\ Goto(pr, AfterFailure[request[pr].at])
    <3>0. PICK q : q = [request[pr] EXCEPT !.at = AfterFailure[request[pr].at]]
      OBVIOUS
    <3>1. AfterFailure[request[pr].at] \in ViewPhase \ {"view_log"} /\ request[pr].at \in ViewPhase
      BY <2>2 DEF AfterFailure, AfterReading, ViewPhase
    <3>2. q \in CountRequest /\ q.at # "view_log"
      BY <1>0, <3>0, <3>1, CountRequests
    <3>3. Become(pr, q)
      BY <2>2, <3>0 DEF Goto
    <3> QED BY <1>1, <2>1, <3>2, <3>3
  <2>3. CASE Become(pr, Idle)
    BY <1>1, <1>2, <2>1, <2>3
  <2> QED BY <2>1, <2>2, <2>3
<1> QED BY <1>3, <1>4

LEMMA TimePasses ==
  ASSUME CountsInv, ExpireCounter \/ \E v \in Viewer : ExpireViewKey(v)
  PROVE  CountsInv'
<1>1. /\ UNCHANGED <<requestVars, favoriteTables, views, viewsHistory, viewed, windows>>
      /\ viewKeys' \subseteq viewKeys /\ counter' \in {counter, NoKey}
  BY DEF ExpireCounter, ExpireViewKey, Passing
<1>2. \A P : Number(P)' = Number(P)
  BY <1>1 DEF Number, Doing, requestVars, Proc
<1>3. Number(Coming)' = Number(Coming) /\ Number(Resetting)' = Number(Resetting)
      /\ Number(Saving)' = Number(Saving) /\ Number(Logging)' = Number(Logging)
  BY <1>2
<1>4. CountsType' /\ FavoritesFollow' /\ Logged'
  BY <1>1, <1>3 DEF CountsInv, CountsType, FavoritesFollow, Logged, requestVars, favoriteTables, Proc, Alone
<1>5. Funded'
  <2> DEFINE S == situation.slots
             M == POST_COUNTER_MAX
             n == viewed + windows
             a == Number(Coming)
             r == Number(Resetting)
             x == Number(Saving)
  <2>1. Value' = Value \/ Value' = 0
    BY <1>1 DEF Value
  <2>2. lost = {} => Paid(S, M, n, views, a, r, x, Value) /\ Paid(S, M, n, views, a, r, x, 0)
    BY Steps, PaidSteps
  <2> HIDE DEF S, M, n, a, r, x
  <2>3. S' = S /\ n' = n /\ a' = a /\ r' = r /\ x' = x /\ UNCHANGED <<views, lost>>
    BY <1>1, <1>3 DEF S, n, a, r, x, requestVars
  <2>4. lost' = {} => Paid(S', M, n', views', a', r', x', Value')
    BY <2>1, <2>2, <2>3
  <2> QED BY <2>4 DEF Funded, S, M, n, a, r, x
<1> QED BY <1>4, <1>5 DEF CountsInv

LEMMA CountsKept == CountsInv /\ CachedCountsNext => CountsInv'
BY ViewSteps, CountsBegun, FavoriteSteps, CountFailures, TimePasses DEF CachedCountsNext

LEMMA CountsBegin == RequestsInit /\ CachedCountsInit => CountsInv
<1> SUFFICES ASSUME RequestsInit, CachedCountsInit PROVE CountsInv
  OBVIOUS
<1>1. CountsType
  BY DEF RequestsInit, CachedCountsInit, CountsType, CountRequest
<1>2. \A pr \in Proc : request[pr].at = "idle"
  BY DEF RequestsInit, Idle
<1>3. Number(Coming) = 0 /\ Number(Resetting) = 0 /\ Number(Saving) = 0 /\ Number(Logging) = 0
  <2>1. Doing(Coming) = {} /\ Doing(Resetting) = {} /\ Doing(Saving) = {} /\ Doing(Logging) = {}
    BY <1>2 DEF Doing, Coming, Resetting, Saving, Logging
  <2> QED BY <2>1, FS_EmptySet DEF Number
<1>4. views = 0 /\ viewsHistory = 0 /\ viewed = 0 /\ windows = 0 /\ Value = 0
  BY DEF CachedCountsInit, Value
<1>5. POST_COUNTER_MAX \in Nat /\ situation.slots \in Nat /\ POST_COUNTER_MAX >= 2
  BY <1>1, Slots, CachedCountsAssumption DEF CountsType
<1>6. Logged
  BY <1>3, <1>4, <1>5 DEF Logged
<1>7. Funded
  BY <1>3, <1>4, <1>5 DEF Funded, Paid, Reserve
<1>8. FavoritesFollow
  BY <1>2, AloneIs DEF FavoritesFollow, CachedCountsInit
<1> QED BY <1>1, <1>6, <1>7, <1>8 DEF CountsInv

LEMMA CountsAre == CountsInv => ViewsNotOverstated /\ FavoritesCached /\ viewsHistory <= views
<1> SUFFICES ASSUME CountsInv PROVE ViewsNotOverstated /\ FavoritesCached /\ viewsHistory <= views
  OBVIOUS
<1>1. ViewsNotOverstated
  <2>1. lost = {} => views + Value <= situation.slots * (viewed + windows)
    BY Steps, PaidSteps
  <2> QED BY <2>1 DEF ViewsNotOverstated, Value
<1>2. FavoritesCached
  BY AloneIs DEF CountsInv, FavoritesFollow, FavoritesCached, Idle
<1>3. viewsHistory <= views
  <2>1. Number(Logging) \in Nat
    BY NumberIs DEF CountsInv, CountsType
  <2>2. POST_COUNTER_MAX * Number(Logging) \in Nat
    BY <2>1, Times, CachedCountsAssumption
  <2> QED BY <2>2 DEF CountsInv, CountsType, Logged
<1> QED BY <1>1, <1>2, <1>3
(***************************************************************************)
(* Inbox messages, settings and digests.                                   *)
(***************************************************************************)
PostRow == [type : {"question", "answer", "comment"}, user : User, texts : Seq(Texts)]
InboxRow == [post : Nat, at : Nat]
InboxRequest ==
  {Idle} \cup [at : {"ask", "answer", "inform"}, force : BOOLEAN, post : Nat]
         \cup [at : {"deliver"}, post : Nat, force : BOOLEAN, to : [User -> Nat], stamp : Nat]
         \cup [at : {"publish"}, post : Nat, to : [User -> Nat]]
         \cup [at : {"mark"}, user : User, stamp : Nat]
         \cup [at : {"setting"}, row : SUBSET Nat, setting : SettingRow]

InboxType ==
  /\ situation \in Situations /\ served \in Nat /\ request \in [Proc -> InboxRequest]
  /\ live \subseteq User /\ posts \in Seq(PostRow)
  /\ messages \in [User -> Seq(InboxRow)]
  /\ lastViewed \in [User -> Nat] /\ clock \in Nat
  /\ marks \in [User -> SUBSET (Nat \X Nat)] /\ told \subseteq DOMAIN posts
DigestType ==
  /\ settings \in Seq(SettingRow)
  /\ job \in [at : {"page", "users", "over"}, last : Nat, i : Nat, since : [User -> Nat]]
  /\ pages \in Seq(Seq(User)) /\ counted \subseteq User
  /\ digests \in Seq([user : User, page : Nat, to : Nat])

(* What requests and messages are about is there, and the kind of post it  *)
(* should be; stamps are of the past.                                      *)
About(k, type) == k \in DOMAIN posts /\ posts[k].type = type
RequestsAbout ==
  \A pr \in Proc :
    /\ request[pr].at = "ask" => About(request[pr].post, "question")
    /\ request[pr].at = "answer" => About(request[pr].post, "answer")
    /\ request[pr].at = "inform" => About(request[pr].post, "comment")
    /\ request[pr].at = "deliver" => request[pr].post \in DOMAIN posts /\ request[pr].stamp \in 1 .. clock
    /\ request[pr].at = "mark" => request[pr].stamp =< clock
MessagesAbout ==
  /\ \A k \in Comments : posts[k].texts # <<>>
  /\ \A u \in User : lastViewed[u] =< clock /\ \A i \in DOMAIN messages[u] :
       messages[u][i].post \in DOMAIN posts /\ messages[u][i].at \in 1 .. clock

(* The batch is at a user of the page read last, if it has read one.       *)
OnPage ==
  /\ \A n \in DOMAIN pages : pages[n] # <<>>
  /\ pages # <<>> => job.i \in 1 .. Len(pages[Len(pages)])
  /\ job.at = "users" => pages # <<>>
  /\ \A k \in DOMAIN digests : digests[k].page \in DOMAIN pages /\ digests[k].to \in User \cup {0}

(***************************************************************************)
(* What the steps do, told apart by what the proofs need of them.          *)
(***************************************************************************)
(* A user who is not the author is told of a comment if he is named in it  *)
(* and has written one himself.                                            *)
Concerned(k, u) ==
  /\ \E t \in DOMAIN posts[k].texts : \E i \in DOMAIN posts[k].texts[t] : posts[k].texts[t][i] = u
  /\ \E c \in Comments : posts[c].user = u
MayTell(k, force, to) ==
  /\ force /\ posts[k].type # "question" => to[Author] = 1
  /\ k \in Comments => \A u \in User \ {Author} : to[u] > 0 => Concerned(k, u)

Others(pr) ==
  /\ request' \in [Proc -> InboxRequest] /\ \A qr \in Proc : qr # pr => request'[qr] = request[qr]
  /\ served' \in Nat /\ UNCHANGED situation /\ Proc' = Proc
PostsGrow ==
  /\ posts' \in Seq(PostRow) /\ DOMAIN posts \subseteq DOMAIN posts'
  /\ \A k \in DOMAIN posts :
       /\ posts'[k].type = posts[k].type /\ posts'[k].user = posts[k].user
       /\ DOMAIN posts[k].texts \subseteq DOMAIN posts'[k].texts
       /\ \A t \in DOMAIN posts[k].texts : posts'[k].texts[t] = posts[k].texts[t]
  /\ \A k \in Comments' : k \in Comments \/ posts'[k].texts # <<>>

Wrote(pr, k) ==
  /\ Others(pr) /\ request[pr] = Idle /\ PostsGrow /\ UNCHANGED lost
  /\ request'[pr].at \in {"ask", "answer", "inform"} /\ request'[pr].post = k
  /\ k \in DOMAIN posts'
  /\ request'[pr].at = "ask" => posts'[k].type = "question"
  /\ request'[pr].at = "answer" => posts'[k].type = "answer"
  /\ request'[pr].at = "inform" => posts'[k].type = "comment"
  /\ UNCHANGED <<live, messages, lastViewed, clock, marks, told, digestVars>>
Stamped(pr, to) ==
  /\ Others(pr) /\ request[pr].at \in {"ask", "answer", "inform"}
  /\ request'[pr].at = "deliver" /\ request'[pr].post = request[pr].post
  /\ request'[pr].force = request[pr].force /\ request'[pr].to = to /\ request'[pr].stamp = clock + 1
  /\ clock' = clock + 1
  /\ UNCHANGED <<lost, live, posts, messages, lastViewed, marks, told, digestVars>>
Delivered(pr) ==
  /\ Others(pr) /\ request[pr].at = "deliver" /\ request'[pr].at = "publish"
  /\ messages' \in [User -> Seq(InboxRow)]
  /\ \A u \in User :
       /\ DOMAIN messages'[u] = 1 .. (Len(messages[u]) + request[pr].to[u])
       /\ \A i \in DOMAIN messages[u] : messages'[u][i] = messages[u][i]
       /\ \A i \in DOMAIN messages'[u] \ DOMAIN messages[u] :
            messages'[u][i].post = request[pr].post /\ messages'[u][i].at = request[pr].stamp
  /\ told' = IF request[pr].force THEN told \cup {request[pr].post} ELSE told
  /\ UNCHANGED <<lost, live, posts, lastViewed, clock, marks, digestVars>>
Ended(pr) ==
  /\ Others(pr) /\ request'[pr] = Idle /\ lost \subseteq lost'
  /\ UNCHANGED <<live, posts, messages, lastViewed, clock, marks, told, digestVars>>
Marking(pr, u, i) ==
  /\ Others(pr) /\ request[pr] = Idle /\ request'[pr].at = "mark" /\ request'[pr].user = u
  /\ request'[pr].stamp = messages[u][i].at /\ messages[u][i].at > lastViewed[u]
  /\ UNCHANGED <<lost, live, posts, messages, lastViewed, clock, marks, told, digestVars>>
Marked(pr, u, stamp) ==
  /\ Others(pr) /\ request[pr].at = "mark" /\ request[pr].user = u /\ request[pr].stamp = stamp
  /\ request'[pr] = Idle
  /\ lastViewed' = [lastViewed EXCEPT ![u] = stamp]
  /\ marks' = [marks EXCEPT ![u] = @ \cup {<<stamp, Len(messages[u])>>}]
  /\ UNCHANGED <<lost, live, posts, messages, clock, told, digestVars>>
Deleted ==
  /\ UNCHANGED <<situation, request, lost>> /\ served' \in Nat /\ live' \subseteq live
  /\ UNCHANGED <<posts, messages, lastViewed, clock, marks, told, digestVars>>
Setting(pr, u) ==
  /\ Others(pr) /\ request[pr] = Idle /\ request'[pr].at = "setting"
  /\ "setting" \in situation.ops
  /\ request'[pr].row = SettingsOf(u) /\ request'[pr].setting.user = u
  /\ UNCHANGED <<lost, inboxVars, digestVars>>
Set(pr, row, setting) ==
  /\ Others(pr) /\ request[pr].at = "setting" /\ request[pr].row = row /\ request[pr].setting = setting
  /\ request'[pr] = Idle
  /\ settings' = IF row = {} THEN Append(settings, setting)
                 ELSE [i \in DOMAIN settings |-> IF i \in row THEN setting ELSE settings[i]]
  /\ UNCHANGED <<lost, inboxVars, job, pages, digests, counted>>
JobMoves ==
  /\ Batch \/ JobFails \/ \E k \in DOMAIN digests : SendInboxMessagesDigestEmail(k)
  /\ "digest" \in situation.ops /\ lost \subseteq lost'
  /\ UNCHANGED <<situation, request, served, inboxVars, settings>>

(* The steps as a reader of the proofs sees them.                          *)
LEMMA InboxAccepted ==
  ASSUME InboxType, NEW pr \in Proc, NEW op, Accept(pr, op)
  PROVE  /\ request[pr] = Idle /\ served' \in Nat /\ UNCHANGED <<situation, lost>> /\ Proc' = Proc
         /\ op \in situation.ops
BY DEF InboxType, Accept, Counted, Proc

LEMMA InboxBecomes ==
  ASSUME InboxType, NEW pr \in Proc, NEW r \in InboxRequest, Become(pr, r),
         UNCHANGED situation, served' \in Nat
  PROVE  Others(pr) /\ request'[pr] = r
BY DEF InboxType, Become, Others, Proc

LEMMA InboxAt ==
  ASSUME InboxType, NEW pr \in Proc, NEW phase, At(pr, phase)
  PROVE  /\ request[pr].at = phase /\ UNCHANGED <<situation, served, lost>>
         /\ request[pr] \in InboxRequest /\ served' \in Nat
BY DEF InboxType, At

LEMMA RequestFields ==
  ASSUME NEW r \in InboxRequest
  PROVE  /\ r.at \in {"ask", "answer", "inform"} => r.post \in Nat /\ r.force \in BOOLEAN
         /\ r.at = "deliver" => r.post \in Nat /\ r.force \in BOOLEAN /\ r.stamp \in Nat /\ r.to \in [User -> Nat]
         /\ r.at = "publish" => r.post \in Nat /\ r.to \in [User -> Nat]
         /\ r.at = "mark" => r.user \in User /\ r.stamp \in Nat
         /\ r.at = "setting" => r.row \in SUBSET Nat /\ r.setting \in SettingRow
         /\ Idle \in InboxRequest /\ Idle.at = "idle"
BY DEF InboxRequest, Idle

LEMMA PostSaved ==
  ASSUME InboxType, NEW pr \in Proc, NEW op, NEW post \in PostRow, NEW phase \in {"ask", "answer", "inform"},
         SavePost(pr, op, post, phase), UNCHANGED digestVars,
         phase = "ask" => post.type = "question", phase = "answer" => post.type = "answer",
         phase = "inform" => post.type = "comment" /\ post.texts # <<>>,
         phase # "inform" => post.type # "comment"
  PROVE  Wrote(pr, Len(posts) + 1)
<1>0. PICK r : r = [at |-> phase, force |-> TRUE, post |-> Len(posts) + 1]
  OBVIOUS
<1>1. posts' = Append(posts, post) /\ Become(pr, r) /\ Accept(pr, op)
      /\ UNCHANGED <<live, messages, events, lastViewed, clock, marks, told>>
  BY <1>0 DEF SavePost
<1>2. r \in InboxRequest
  BY <1>0 DEF InboxRequest, InboxType
<1>3. Others(pr) /\ request'[pr] = r /\ request[pr] = Idle /\ UNCHANGED lost
  BY <1>1, <1>2, InboxBecomes, InboxAccepted
<1>4. /\ posts' \in Seq(PostRow) /\ Len(posts') = Len(posts) + 1 /\ posts'[Len(posts) + 1] = post
      /\ \A k \in DOMAIN posts : posts'[k] = posts[k] /\ k \in DOMAIN posts'
      /\ \A k \in DOMAIN posts' : k \in DOMAIN posts \/ k = Len(posts) + 1
  BY <1>1 DEF InboxType
<1>5. PostsGrow
  <2>1. \A k \in Comments' : k \in Comments \/ posts'[k].texts # <<>>
    BY <1>4 DEF Comments
  <2> QED BY <1>4, <2>1 DEF PostsGrow
<1>6. Len(posts) + 1 \in DOMAIN posts'
  BY <1>4 DEF InboxType
<1> QED BY <1>0, <1>1, <1>3, <1>4, <1>5, <1>6 DEF Wrote

LEMMA PostWritten ==
  ASSUME InboxType, NEW pr \in Proc, NEW u \in User, UNCHANGED digestVars,
         \/ CreateQuestion(pr, u) \/ CreateAnswer(pr, u)
         \/ \E text \in Texts : CreateComment(pr, u, text)
  PROVE  Wrote(pr, Len(posts) + 1)
<1>1. CASE CreateQuestion(pr, u)
  <2>1. PICK post : post = Row("question", u, <<>>)
    OBVIOUS
  <2>2. post \in PostRow /\ post.type = "question"
    BY <2>1 DEF Row, PostRow
  <2> QED BY <1>1, <2>1, <2>2, PostSaved DEF CreateQuestion
<1>2. CASE CreateAnswer(pr, u)
  <2>1. PICK post : post = Row("answer", u, <<>>)
    OBVIOUS
  <2>2. post \in PostRow /\ post.type = "answer"
    BY <2>1 DEF Row, PostRow
  <2> QED BY <1>2, <2>1, <2>2, PostSaved DEF CreateAnswer
<1>3. ASSUME NEW text \in Texts, CreateComment(pr, u, text) PROVE Wrote(pr, Len(posts) + 1)
  <2>1. PICK post : post = Row("comment", u, <<text>>)
    OBVIOUS
  <2>2. post \in PostRow /\ post.type = "comment" /\ post.texts # <<>>
    BY <2>1 DEF Row, PostRow
  <2> QED BY <1>3, <2>1, <2>2, PostSaved DEF CreateComment
<1> QED BY <1>1, <1>2, <1>3

LEMMA CommentEdited ==
  ASSUME InboxType, NEW pr \in Proc, NEW k \in DOMAIN posts, NEW text \in Texts,
         UpdateComment(pr, k, text), UNCHANGED digestVars
  PROVE  Wrote(pr, k)
<1>0. PICK r : r = [at |-> "inform", force |-> FALSE, post |-> k]
  OBVIOUS
<1>1. Become(pr, r) /\ Accept(pr, "edit_comment") /\ k \in Comments
      /\ posts' = [posts EXCEPT ![k].texts = Append(@, text)]
      /\ UNCHANGED <<live, messages, events, lastViewed, clock, marks, told>>
  BY <1>0 DEF UpdateComment
<1>2. r \in InboxRequest
  BY <1>0 DEF InboxRequest, InboxType
<1>3. Others(pr) /\ request'[pr] = r /\ request[pr] = Idle /\ UNCHANGED lost
  BY <1>1, <1>2, InboxBecomes, InboxAccepted
<1>4. PICK row : row = [posts[k] EXCEPT !.texts = Append(@, text)]
  OBVIOUS
<1>5. posts[k] \in PostRow /\ posts[k].texts \in Seq(Texts)
  <2>1. posts[k] \in PostRow
    BY ElementOfSeq, LenProperties DEF InboxType
  <2> QED BY <2>1 DEF PostRow
<1>6. row.texts = Append(posts[k].texts, text) /\ row.type = posts[k].type /\ row.user = posts[k].user
      /\ row \in PostRow
  <2>1. Append(posts[k].texts, text) \in Seq(Texts)
    BY <1>5
  <2> QED BY <1>4, <1>5, <2>1 DEF PostRow
<1>7. /\ DOMAIN posts[k].texts \subseteq DOMAIN row.texts /\ row.texts # <<>>
      /\ \A t \in DOMAIN posts[k].texts : row.texts[t] = posts[k].texts[t]
  BY <1>5, <1>6
<1>8. /\ posts' \in Seq(PostRow) /\ DOMAIN posts' = DOMAIN posts
      /\ posts'[k] = row /\ \A j \in DOMAIN posts : j # k => posts'[j] = posts[j]
  <2>1. posts' = [posts EXCEPT ![k] = row]
    BY <1>1, <1>4
  <2> QED BY <2>1, <1>6, ExceptSeq, LenProperties DEF InboxType
<1>9. posts'[k].type = "comment"
  BY <1>1, <1>6, <1>8 DEF Comments
<1>10. PostsGrow
  <2>1. \A j \in Comments' : j \in Comments \/ posts'[j].texts # <<>>
    BY <1>1, <1>7, <1>8 DEF Comments
  <2> QED BY <1>6, <1>7, <1>8, <2>1 DEF PostsGrow
<1> QED BY <1>0, <1>1, <1>3, <1>8, <1>9, <1>10 DEF Wrote

(* A name that is there twice counts once.                                 *)
LEMMA NamesOnce ==
  ASSUME NEW text \in Seq(User), NEW participants, NEW u
  PROVE  /\ Replies(text, participants, u) \in {0, 1}
         /\ Replies(text, participants, u) > 0 => u \in participants /\ \E i \in DOMAIN text : text[i] = u
<1>0. PICK S : S = {i \in ParseReplies(text) : text[i] = u /\ u \in participants}
  OBVIOUS
<1>1. \A i \in S : i \in FirstPlaces(text) /\ text[i] = u /\ u \in participants /\ i \in 1 .. Len(text)
  BY <1>0 DEF ParseReplies, FirstPlaces
<1>2. \A i, j \in S : ~(i < j)
  BY <1>1 DEF FirstPlaces
<1>3. \A i, j \in S : i = j
  BY <1>1, <1>2
<1>4. CASE S = {}
  <2>1. Replies(text, participants, u) = Cardinality(S)
    BY <1>0 DEF Replies
  <2>2. Cardinality(S) = 0
    BY <1>4, FS_EmptySet
  <2> QED BY <2>1, <2>2
<1>5. CASE S # {}
  <2>1. PICK x \in S : S = {x}
    BY <1>3, <1>5
  <2>2. Cardinality(S) = 1
    BY <2>1, FS_Singleton
  <2>3. Replies(text, participants, u) = 1
    BY <1>0, <2>2 DEF Replies
  <2> QED BY <1>1, <2>1, <2>3
<1> QED BY <1>4, <1>5

LEMMA StampedIs ==
  ASSUME InboxType, NEW pr \in Proc, NEW to \in [User -> {0, 1}], NEW phase \in {"ask", "answer", "inform"},
         At(pr, phase), Stamp(pr, to), UNCHANGED digestVars
  PROVE  Stamped(pr, to)
<1>0. PICK r : r = [at |-> "deliver", post |-> request[pr].post, force |-> request[pr].force,
                    to |-> to, stamp |-> clock + 1]
  OBVIOUS
<1>1. Become(pr, r) /\ clock' = clock + 1 /\ UNCHANGED <<live, posts, messages, events, lastViewed, marks, told>>
  BY <1>0 DEF Stamp
<1>2. r \in InboxRequest
  <2>0. request[pr] \in InboxRequest /\ request[pr].at = phase
    BY InboxAt
  <2>1. request[pr].post \in Nat /\ request[pr].force \in BOOLEAN /\ clock + 1 \in Nat
    BY <2>0, RequestFields DEF InboxType
  <2> QED BY <1>0, <2>1 DEF InboxRequest
<1>3. Others(pr) /\ request'[pr] = r /\ request[pr].at = phase /\ UNCHANGED lost
  BY <1>1, <1>2, InboxBecomes, InboxAt
<1> QED BY <1>0, <1>1, <1>3 DEF Stamped

LEMMA ReadersChosen ==
  ASSUME InboxType, RequestsAbout, MessagesAbout, NEW pr \in Proc, UNCHANGED digestVars,
         AskGroup(pr) \/ InformQuestioner(pr) \/ saveInboxMessagesForComment(pr)
  PROVE  \E to \in [User -> {0, 1}] : Stamped(pr, to) /\ MayTell(request[pr].post, request[pr].force, to)
<1>0. \A readers : To(readers) \in [User -> {0, 1}] /\ \A u \in User : To(readers)[u] = IF u \in readers THEN 1 ELSE 0
  BY DEF To
<1>1. CASE AskGroup(pr)
  <2>1. PICK readers : Stamp(pr, To(readers)) /\ At(pr, "ask")
    BY <1>1 DEF AskGroup
  <2>2. posts[request[pr].post].type = "question"
    BY <2>1, InboxAt DEF RequestsAbout, About
  <2>3. MayTell(request[pr].post, request[pr].force, To(readers))
    BY <2>2 DEF MayTell, Comments
  <2> QED BY <1>0, <2>1, <2>3, StampedIs
<1>2. CASE InformQuestioner(pr)
  <2>1. Stamp(pr, To({Author})) /\ At(pr, "answer")
    BY <1>2 DEF InformQuestioner
  <2>2. posts[request[pr].post].type = "answer"
    BY <2>1, InboxAt DEF RequestsAbout, About
  <2>3. MayTell(request[pr].post, request[pr].force, To({Author}))
    BY <1>0, <2>2, InboxAssumption DEF MayTell, Comments
  <2> QED BY <1>0, <2>1, <2>3, StampedIs
<1>3. CASE saveInboxMessagesForComment(pr)
  <2>1. PICK k : k = request[pr].post
    OBVIOUS
  <2>2. PICK text : text = Text(k)
    OBVIOUS
  <2>3. PICK participants : participants = ({Author} \cup {posts[c].user : c \in Comments}) \cap live
    OBVIOUS
  <2>4. PICK named : named = [u \in User |-> Replies(text, participants, u)]
    OBVIOUS
  <2>5. PICK to : to = IF ParseReplies(text) = {} THEN To({Author})
                       ELSE IF request[pr].force /\ named[Author] = 0 THEN [named EXCEPT ![Author] = 1]
                       ELSE named
    OBVIOUS
  <2>6. At(pr, "inform") /\ Stamp(pr, to)
    BY <1>3, <2>1, <2>2, <2>3, <2>4, <2>5 DEF saveInboxMessagesForComment
  <2>7. k \in Comments /\ posts[k] \in PostRow /\ posts[k].texts # <<>>
    BY <2>1, <2>6, InboxAt DEF RequestsAbout, About, Comments, MessagesAbout, InboxType
  <2>8. Len(posts[k].texts) \in DOMAIN posts[k].texts /\ text = posts[k].texts[Len(posts[k].texts)] /\ text \in Seq(User)
    <3>1. posts[k].texts \in Seq(Texts)
      BY <2>7 DEF PostRow
    <3>2. Len(posts[k].texts) \in DOMAIN posts[k].texts
      BY <3>1, <2>7
    <3>3. posts[k].texts[Len(posts[k].texts)] \in Texts
      BY <3>1, <3>2, ElementOfSeq
    <3> QED BY <2>2, <3>2, <3>3, InboxAssumption DEF Text
  <2>9. named \in [User -> {0, 1}]
    BY <2>4, <2>8, NamesOnce
  <2>10. \A u \in User \ {Author} : named[u] > 0 => Concerned(k, u)
    <3> SUFFICES ASSUME NEW u \in User \ {Author}, named[u] > 0 PROVE Concerned(k, u)
      OBVIOUS
    <3>1. u \in participants /\ \E i \in DOMAIN text : text[i] = u
      BY <2>4, <2>8, NamesOnce
    <3> QED BY <2>3, <2>8, <3>1 DEF Concerned
  <2>11. to \in [User -> {0, 1}]
    BY <1>0, <2>5, <2>9
  <2>12. request[pr].force => to[Author] = 1
    BY <1>0, <2>5, <2>9, InboxAssumption
  <2>13. \A u \in User \ {Author} : to[u] > 0 => Concerned(k, u)
    BY <1>0, <2>5, <2>9, <2>10
  <2>14. MayTell(k, request[pr].force, to)
    BY <2>12, <2>13 DEF MayTell
  <2> QED BY <2>1, <2>6, <2>11, <2>14, StampedIs
<1> QED BY <1>1, <1>2, <1>3

LEMMA MessagesSaved ==
  ASSUME InboxType, NEW pr \in Proc, SaveMultipleInboxMessages(pr), UNCHANGED digestVars
  PROVE  Delivered(pr) \/ Ended(pr)
<1>1. /\ request[pr].at = "deliver" /\ UNCHANGED <<situation, served, lost>> /\ served' \in Nat
      /\ request[pr].post \in Nat /\ request[pr].stamp \in Nat /\ request[pr].to \in [User -> Nat]
  BY InboxAt, RequestFields DEF SaveMultipleInboxMessages
<1>2. CASE \A u \in User : request[pr].to[u] = 0
  <2>1. Become(pr, Idle) /\ UNCHANGED <<live, posts, messages, lastViewed, clock, marks, told>>
    BY <1>2 DEF SaveMultipleInboxMessages, Finish
  <2>2. Others(pr) /\ request'[pr] = Idle
    BY <1>1, <2>1, InboxBecomes, RequestFields DEF InboxRequest
  <2> QED BY <1>1, <2>1, <2>2 DEF Ended
<1>3. CASE \E u \in User : request[pr].to[u] # 0
  <2>1. PICK r : r = [at |-> "publish", post |-> request[pr].post, to |-> request[pr].to]
    OBVIOUS
  <2>2. PICK row : row = InboxMessage(request[pr].post, request[pr].stamp)
    OBVIOUS
  <2>3. PICK to : to = request[pr].to
    OBVIOUS
  <2>4. /\ Become(pr, r) /\ UNCHANGED <<live, posts, events, lastViewed, clock, marks>>
        /\ messages' = [u \in User |-> messages[u] \o [i \in 1 .. to[u] |-> row]]
        /\ told' = IF request[pr].force THEN told \cup {request[pr].post} ELSE told
    BY <1>3, <2>1, <2>2, <2>3 DEF SaveMultipleInboxMessages
  <2>5. r \in InboxRequest
    BY <1>1, <2>1 DEF InboxRequest
  <2>6. Others(pr) /\ request'[pr] = r
    BY <1>1, <2>4, <2>5, InboxBecomes
  <2>7. row \in InboxRow /\ row.post = request[pr].post /\ row.at = request[pr].stamp
    BY <1>1, <2>2 DEF InboxMessage, InboxRow
  <2>8. ASSUME NEW u \in User
        PROVE  /\ messages'[u] \in Seq(InboxRow)
               /\ DOMAIN messages'[u] = 1 .. (Len(messages[u]) + to[u])
               /\ \A i \in DOMAIN messages[u] : messages'[u][i] = messages[u][i]
               /\ \A i \in DOMAIN messages'[u] \ DOMAIN messages[u] : messages'[u][i] = row
    <3>1. PICK s : s = messages[u]
      OBVIOUS
    <3>2. PICK n \in Nat : n = to[u]
      BY <1>1, <2>3
    <3>3. PICK t : t = [i \in 1 .. n |-> row]
      OBVIOUS
    <3>4. t \in Seq(InboxRow) /\ Len(t) = n /\ \A i \in 1 .. n : t[i] = row
      <4>1. t \in [1 .. n -> InboxRow]
        BY <2>7, <3>3
      <4>2. t \in Seq(InboxRow)
        BY <4>1, SeqDef
      <4>3. Len(t) = n
        BY <4>1, <4>2, LenProperties
      <4> QED BY <3>3, <4>2, <4>3
    <3>5. s \in Seq(InboxRow) /\ messages'[u] = s \o t
      BY <2>4, <3>1, <3>2, <3>3 DEF InboxType
    <3>6. /\ s \o t \in Seq(InboxRow) /\ Len(s \o t) = Len(s) + n /\ Len(s) \in Nat
          /\ \A i \in 1 .. Len(s) + n : (s \o t)[i] = IF i <= Len(s) THEN s[i] ELSE t[i - Len(s)]
      <4>1. s \in Seq(InboxRow) /\ t \in Seq(InboxRow) /\ Len(t) = n
        BY <3>4, <3>5
      <4> HIDE <3>4, <3>5
      <4> QED BY <4>1, ConcatProperties, LenProperties, Zenon
    <3>7. DOMAIN (s \o t) = 1 .. (Len(s) + n) /\ DOMAIN s = 1 .. Len(s)
      BY <3>5, <3>6, LenProperties
    <3>8. \A i \in DOMAIN s : (s \o t)[i] = s[i]
      BY <3>6, <3>7
    <3>9. \A i \in DOMAIN (s \o t) \ DOMAIN s : (s \o t)[i] = row
      <4> SUFFICES ASSUME NEW i \in DOMAIN (s \o t) \ DOMAIN s PROVE (s \o t)[i] = row
        OBVIOUS
      <4>1. i \in 1 .. (Len(s) + n) /\ i > Len(s) /\ i - Len(s) \in 1 .. n
        BY <3>6, <3>7
      <4> QED BY <3>4, <3>6, <4>1
    <3> QED BY <3>1, <3>2, <3>5, <3>6, <3>7, <3>8, <3>9
  <2>9. messages' \in [User -> Seq(InboxRow)]
    BY <2>4, <2>8
  <2> QED BY SMTT(30), <1>1, <2>1, <2>3, <2>4, <2>6, <2>7, <2>8, <2>9 DEF Delivered
<1> QED BY <1>2, <1>3

LEMMA RequestEnds ==
  ASSUME InboxType, NEW pr \in Proc, UNCHANGED digestVars,
         PublishInboxMessages(pr) \/ (Fault(pr) /\ UNCHANGED inboxVars)
  PROVE  Ended(pr)
<1>1. Become(pr, Idle) /\ UNCHANGED <<situation, served, live, posts, messages, lastViewed, clock, marks, told>>
      /\ lost \subseteq lost'
  BY DEF PublishInboxMessages, Fault, Finish, At, inboxVars
<1>2. Idle \in InboxRequest /\ served' \in Nat
  BY <1>1 DEF InboxRequest, InboxType
<1> QED BY <1>1, <1>2, InboxBecomes DEF Ended

LEMMA MessageRead ==
  ASSUME InboxType, NEW pr \in Proc, NEW u \in User, NEW i \in DOMAIN messages[u],
         setInboxMessageRead(pr, u, i), UNCHANGED digestVars
  PROVE  Marking(pr, u, i)
<1>0. PICK r : r = [at |-> "mark", user |-> u, stamp |-> messages[u][i].at]
  OBVIOUS
<1>1. Become(pr, r) /\ Accept(pr, "read") /\ messages[u][i].at > lastViewed[u] /\ UNCHANGED inboxVars
  BY <1>0 DEF setInboxMessageRead, IsUnread
<1>2. messages[u][i].at \in Nat
  <2>1. messages[u] \in Seq(InboxRow)
    BY DEF InboxType
  <2>2. messages[u][i] \in InboxRow
    BY <2>1, ElementOfSeq, LenProperties
  <2> QED BY <2>2 DEF InboxRow
<1>3. r \in InboxRequest
  BY <1>0, <1>2 DEF InboxRequest
<1>4. Others(pr) /\ request'[pr] = r /\ request[pr] = Idle /\ UNCHANGED lost
  BY <1>1, <1>3, InboxBecomes, InboxAccepted
<1> QED BY <1>0, <1>1, <1>4 DEF Marking, inboxVars

LEMMA MessageMarked ==
  ASSUME InboxType, NEW pr \in Proc, UpdateLastInboxMessageViewed(pr), UNCHANGED digestVars
  PROVE  \E u \in User, stamp \in Nat : Marked(pr, u, stamp)
<1>1. /\ request[pr].at = "mark" /\ UNCHANGED <<situation, served, lost>> /\ served' \in Nat
      /\ request[pr].user \in User /\ request[pr].stamp \in Nat
  BY InboxAt, RequestFields DEF UpdateLastInboxMessageViewed
<1>2. Become(pr, Idle) /\ Idle \in InboxRequest
  BY DEF UpdateLastInboxMessageViewed, Finish, InboxRequest
<1>3. Others(pr) /\ request'[pr] = Idle
  BY <1>1, <1>2, InboxBecomes
<1>4. PICK u \in User, stamp \in Nat : u = request[pr].user /\ stamp = request[pr].stamp
  BY <1>1
<1> QED BY <1>1, <1>3, <1>4 DEF UpdateLastInboxMessageViewed, Marked

LEMMA SettingAsked ==
  ASSUME InboxType, DigestType, NEW pr \in Proc, NEW u \in User, NEW interval \in {NoMails, Interval},
         updateNotificationSetting(pr, u, interval)
  PROVE  Setting(pr, u)
<1>0. PICK r : r = [at |-> "setting", row |-> SettingsOf(u), setting |-> [user |-> u, interval |-> interval]]
  OBVIOUS
<1>1. Become(pr, r) /\ Accept(pr, "setting") /\ UNCHANGED notificationVars
  BY <1>0 DEF updateNotificationSetting
<1>2. SettingsOf(u) \in SUBSET Nat
  <2>0. settings \in Seq(SettingRow)
    BY DEF DigestType
  <2>1. DOMAIN settings = 1 .. Len(settings) /\ Len(settings) \in Nat
    BY <2>0, LenProperties
  <2>2. SettingsOf(u) \subseteq DOMAIN settings
    BY DEF SettingsOf
  <2>3. DOMAIN settings \subseteq Nat
    <3>1. \A n \in Nat : \A i \in 1 .. n : i \in Nat
      OBVIOUS
    <3> QED BY <2>1, <3>1, Zenon
  <2> QED BY <2>2, <2>3
<1>3. [user |-> u, interval |-> interval] \in SettingRow
  BY DigestAssumption DEF SettingRow
<1>4. r \in InboxRequest
  BY <1>0, <1>2, <1>3 DEF InboxRequest
<1>5. Others(pr) /\ request'[pr] = r /\ request[pr] = Idle /\ UNCHANGED lost /\ "setting" \in situation.ops
  BY <1>1, <1>4, InboxBecomes, InboxAccepted
<1>6. request'[pr].at = "setting" /\ request'[pr].row = SettingsOf(u) /\ request'[pr].setting.user = u
  <2>1. PICK row, setting : row = SettingsOf(u) /\ setting = [user |-> u, interval |-> interval]
    OBVIOUS
  <2>2. r = [at |-> "setting", row |-> row, setting |-> setting] /\ setting.user = u
    BY <1>0, <2>1
  <2>3. r.at = "setting" /\ r.row = row /\ r.setting.user = u
    BY <2>2
  <2>4. request'[pr] = r
    BY <1>5
  <2> QED BY <2>1, <2>3, <2>4
<1>7. UNCHANGED <<inboxVars, digestVars>>
  BY <1>1 DEF notificationVars
<1> QED BY <1>5, <1>6, <1>7 DEF Setting

LEMMA SettingSaved ==
  ASSUME InboxType, NEW pr \in Proc, SaveSetting(pr)
  PROVE  \E row \in SUBSET Nat, setting \in SettingRow : Set(pr, row, setting)
<1>1. /\ request[pr].at = "setting" /\ UNCHANGED <<situation, served, lost>> /\ served' \in Nat
      /\ request[pr].row \in SUBSET Nat /\ request[pr].setting \in SettingRow
  BY InboxAt, RequestFields DEF SaveSetting
<1>2. Become(pr, Idle) /\ Idle \in InboxRequest
  BY DEF SaveSetting, Finish, InboxRequest
<1>3. Others(pr) /\ request'[pr] = Idle
  BY <1>1, <1>2, InboxBecomes
<1>4. PICK row \in SUBSET Nat, setting \in SettingRow : row = request[pr].row /\ setting = request[pr].setting
  BY <1>1
<1> QED BY <1>1, <1>3, <1>4 DEF SaveSetting, Set

LEMMA NotificationSteps ==
  ASSUME InboxType, DigestType, RequestsAbout, MessagesAbout, NotificationNext
  PROVE  \/ \E pr \in Proc :
              \/ \E k : Wrote(pr, k)
              \/ \E to \in [User -> {0, 1}] :
                   Stamped(pr, to) /\ MayTell(request[pr].post, request[pr].force, to)
              \/ Delivered(pr) \/ Ended(pr)
              \/ \E u \in User : \E i \in DOMAIN messages[u] : Marking(pr, u, i)
              \/ \E u \in User, stamp \in Nat : Marked(pr, u, stamp)
              \/ \E u \in User : Setting(pr, u)
              \/ \E row \in SUBSET Nat, setting \in SettingRow : Set(pr, row, setting)
         \/ Deleted \/ JobMoves
<1>1. ASSUME UNCHANGED digestVars, NEW u \in User, DeleteUser(u) PROVE Deleted
  BY <1>1 DEF DeleteUser, Counted, Deleted, InboxType
<1>2. CASE Batch \/ JobFails \/ \E k \in DOMAIN digests : SendInboxMessagesDigestEmail(k)
  BY <1>2 DEF JobMoves, Batch, ReadPage, CountUnread, JobFails, SendInboxMessagesDigestEmail, JobStep, requestVars
<1>3. CASE \E pr \in Proc : \/ \E u \in User, interval \in {NoMails, Interval} : updateNotificationSetting(pr, u, interval)
                            \/ SaveSetting(pr)
  BY <1>3, SettingAsked, SettingSaved
<1>4. CASE InboxNext /\ UNCHANGED digestVars
  <2>1. CASE \E u \in User : DeleteUser(u)
    BY <1>1, <1>4, <2>1
  <2>2. ASSUME NEW pr \in Proc, NEW u \in User,
               \/ CreateQuestion(pr, u) \/ CreateAnswer(pr, u)
               \/ \E text \in Texts : CreateComment(pr, u, text)
        PROVE  \E k : Wrote(pr, k)
    BY <1>4, <2>2, PostWritten
  <2>3. ASSUME NEW pr \in Proc, NEW u \in User, NEW i \in DOMAIN messages[u], setInboxMessageRead(pr, u, i)
        PROVE  Marking(pr, u, i)
    BY <1>4, <2>3, MessageRead
  <2>4. ASSUME NEW pr \in Proc, NEW k \in DOMAIN posts, NEW text \in Texts, UpdateComment(pr, k, text)
        PROVE  Wrote(pr, k)
    BY <1>4, <2>4, CommentEdited
  <2>5. ASSUME NEW pr \in Proc, AskGroup(pr) \/ InformQuestioner(pr) \/ saveInboxMessagesForComment(pr)
        PROVE  \E to \in [User -> {0, 1}] : Stamped(pr, to) /\ MayTell(request[pr].post, request[pr].force, to)
    BY <1>4, <2>5, ReadersChosen
  <2>6. ASSUME NEW pr \in Proc, SaveMultipleInboxMessages(pr) PROVE Delivered(pr) \/ Ended(pr)
    BY <1>4, <2>6, MessagesSaved
  <2>7. ASSUME NEW pr \in Proc, PublishInboxMessages(pr) \/ (Fault(pr) /\ UNCHANGED inboxVars) PROVE Ended(pr)
    BY <1>4, <2>7, RequestEnds
  <2>8. ASSUME NEW pr \in Proc, UpdateLastInboxMessageViewed(pr)
        PROVE  \E u \in User, stamp \in Nat : Marked(pr, u, stamp)
    BY <1>4, <2>8, MessageMarked
  <2> QED BY <1>4, <2>1, <2>2, <2>3, <2>4, <2>5, <2>6, <2>7, <2>8 DEF InboxNext
<1> QED BY <1>2, <1>3, <1>4 DEF NotificationNext

(***************************************************************************)
(* What is told once, and read if it was marked.                           *)
(***************************************************************************)
StampsApart ==
  /\ \A u \in User : \A i, j \in DOMAIN messages[u] : i # j => messages[u][i].at # messages[u][j].at
  /\ \A pr \in Proc : request[pr].at = "deliver" =>
       \A u \in User : /\ request[pr].to[u] \in {0, 1}
                       /\ \A i \in DOMAIN messages[u] : messages[u][i].at # request[pr].stamp
  /\ \A pr, qr \in Proc : (pr # qr /\ request[pr].at = "deliver" /\ request[qr].at = "deliver")
       => request[pr].stamp # request[qr].stamp
RightlyTold ==
  /\ \A k \in told : posts[k].type # "question" => Author \in Readers(k)
  /\ \A k \in Comments : \A u \in Readers(k) \ {Author} : Concerned(k, u)
  /\ \A pr \in Proc : request[pr].at = "deliver" =>
       MayTell(request[pr].post, request[pr].force, request[pr].to)

(* With one request at a time what a user viewed last he has marked, and   *)
(* what he did not have then is later.                                     *)
ViewedLast ==
  /\ \A u \in User :
       /\ \A m \in marks[u] : m[1] =< lastViewed[u]
       /\ \/ lastViewed[u] = 0
          \/ \E m \in marks[u] : m[1] = lastViewed[u] /\ \A i \in DOMAIN messages[u] :
               i > m[2] => messages[u][i].at > lastViewed[u]
       /\ request[1].at = "deliver" => request[1].stamp > lastViewed[u]
  /\ request[1].at = "mark" => request[1].stamp > lastViewed[request[1].user]

ToldInv == RequestsAbout /\ MessagesAbout /\ StampsApart /\ RightlyTold

LEMMA MessageIs ==
  ASSUME InboxType, NEW u \in User, NEW i \in DOMAIN messages[u]
  PROVE  messages[u][i] \in InboxRow /\ messages[u][i].at \in Nat /\ messages[u][i].post \in Nat /\ i \in Nat
<1>1. messages[u] \in Seq(InboxRow)
  BY DEF InboxType
<1>2. messages[u][i] \in InboxRow /\ i \in 1 .. Len(messages[u]) /\ Len(messages[u]) \in Nat
  BY <1>1, ElementOfSeq, LenProperties
<1> QED BY <1>2 DEF InboxRow

LEMMA InboxTypeKept ==
  ASSUME InboxType, DigestType, RequestsAbout, MessagesAbout, NotificationNext
  PROVE  InboxType'
<1> USE DEF InboxType
<1>1. ASSUME NEW pr \in Proc, NEW k, Wrote(pr, k) PROVE InboxType'
  BY <1>1 DEF Wrote, Others, PostsGrow
<1>2. ASSUME NEW pr \in Proc, NEW to, Stamped(pr, to) PROVE InboxType'
  BY <1>2 DEF Stamped, Others
<1>3. ASSUME NEW pr \in Proc, Delivered(pr) PROVE InboxType'
  <2>1. request[pr].post \in DOMAIN posts
    BY <1>3 DEF Delivered, RequestsAbout
  <2> QED BY <1>3, <2>1 DEF Delivered, Others
<1>4. ASSUME NEW pr \in Proc, Ended(pr) PROVE InboxType'
  BY <1>4 DEF Ended, Others
<1>5. ASSUME NEW pr \in Proc, NEW u \in User, NEW i, Marking(pr, u, i) PROVE InboxType'
  BY <1>5 DEF Marking, Others
<1>6. ASSUME NEW pr \in Proc, NEW u \in User, NEW stamp \in Nat, Marked(pr, u, stamp) PROVE InboxType'
  <2>1. <<stamp, Len(messages[u])>> \in Nat \X Nat
    BY LenProperties
  <2>2. marks' \in [User -> SUBSET (Nat \X Nat)]
    BY <1>6, <2>1 DEF Marked
  <2>3. lastViewed' \in [User -> Nat]
    BY <1>6 DEF Marked
  <2> QED BY <1>6, <2>2, <2>3 DEF Marked, Others
<1>7. ASSUME Deleted PROVE InboxType'
  BY <1>7 DEF Deleted, Proc
<1>8. ASSUME NEW pr \in Proc, NEW u \in User, Setting(pr, u) PROVE InboxType'
  BY <1>8 DEF Setting, Others, inboxVars
<1>9. ASSUME NEW pr \in Proc, NEW row, NEW setting, Set(pr, row, setting) PROVE InboxType'
  BY <1>9 DEF Set, Others, inboxVars
<1>10. ASSUME JobMoves PROVE InboxType'
  BY <1>10 DEF JobMoves, inboxVars, Proc
<1> QED BY <1>1, <1>2, <1>3, <1>4, <1>5, <1>6, <1>7, <1>8, <1>9, <1>10, NotificationSteps

(* What was right to tell stays right.                                     *)
LEMMA PostsStay ==
  ASSUME InboxType, PostsGrow
  PROVE  /\ \A k, type : About(k, type) => About(k, type)'
         /\ \A k \in DOMAIN posts : (k \in Comments <=> k \in Comments') /\ posts'[k].type = posts[k].type
         /\ \A k \in DOMAIN posts : \A u : Concerned(k, u) => Concerned(k, u)'
<1>1. \A k \in DOMAIN posts : k \in DOMAIN posts' /\ posts'[k].type = posts[k].type /\ posts'[k].user = posts[k].user
  BY DEF PostsGrow
<1>2. \A k \in DOMAIN posts : k \in Comments <=> k \in Comments'
  BY <1>1 DEF Comments
<1>3. ASSUME NEW k \in DOMAIN posts, NEW u, Concerned(k, u) PROVE Concerned(k, u)'
  <2>1. \E c \in Comments' : posts'[c].user = u
    BY <1>1, <1>2, <1>3 DEF Concerned, Comments
  <2>2. PICK t \in DOMAIN posts[k].texts : \E i \in DOMAIN posts[k].texts[t] : posts[k].texts[t][i] = u
    BY <1>3 DEF Concerned
  <2>3. t \in DOMAIN posts'[k].texts /\ posts'[k].texts[t] = posts[k].texts[t]
    BY <2>2 DEF PostsGrow
  <2> QED BY <2>1, <2>2, <2>3 DEF Concerned
<1> QED BY <1>1, <1>2, <1>3 DEF About

LEMMA AboutKept ==
  ASSUME InboxType, DigestType, RequestsAbout, MessagesAbout, NotificationNext
  PROVE  RequestsAbout' /\ MessagesAbout'
<1>0. Idle.at = "idle" /\ clock \in Nat
  BY DEF Idle, InboxType
<1>1. ASSUME NEW pr \in Proc, NEW k, Wrote(pr, k) PROVE RequestsAbout' /\ MessagesAbout'
  <2>1. \A j, type : About(j, type) => About(j, type)'
    BY <1>1, PostsStay DEF Wrote
  <2>2. RequestsAbout'
    <3>1. \A qr \in Proc : qr # pr => request'[qr] = request[qr]
      BY <1>1 DEF Wrote, Others
    <3>2. Proc' = Proc /\ clock' = clock /\ DOMAIN posts \subseteq DOMAIN posts'
      BY <1>1 DEF Wrote, Others, PostsGrow
    <3>3. /\ request'[pr].at \in {"ask", "answer", "inform"}
          /\ request'[pr].post = k
          /\ request'[pr].at = "ask" => About(k, "question")'
          /\ request'[pr].at = "answer" => About(k, "answer")'
          /\ request'[pr].at = "inform" => About(k, "comment")'
      BY <1>1 DEF Wrote, About
    <3> QED BY <2>1, <3>1, <3>2, <3>3 DEF RequestsAbout
  <2>3. MessagesAbout'
    <3>1. UNCHANGED <<messages, lastViewed, clock>> /\ DOMAIN posts \subseteq DOMAIN posts'
      BY <1>1 DEF Wrote, PostsGrow
    <3>2. \A j \in Comments' : posts'[j].texts # <<>>
      <4> SUFFICES ASSUME NEW j \in Comments' PROVE posts'[j].texts # <<>>
        OBVIOUS
      <4>1. CASE j \in Comments
        <5>1. j \in DOMAIN posts /\ posts[j].texts # <<>> /\ DOMAIN posts[j].texts \subseteq DOMAIN posts'[j].texts
          BY <1>1, <4>1 DEF Wrote, PostsGrow, Comments, MessagesAbout
        <5>2. posts[j].texts \in Seq(Texts)
          <6>1. posts[j] \in PostRow
            BY <5>1, ElementOfSeq, LenProperties DEF InboxType
          <6> QED BY <6>1 DEF PostRow
        <5>3. 1 \in DOMAIN posts[j].texts
          BY <5>1, <5>2
        <5> QED BY <5>1, <5>3
      <4>2. CASE j \notin Comments
        BY <1>1, <4>2 DEF Wrote, PostsGrow
      <4> QED BY <4>1, <4>2
    <3> QED BY <3>1, <3>2 DEF MessagesAbout
  <2> QED BY <2>2, <2>3
<1>2. ASSUME NEW pr \in Proc, NEW to, Stamped(pr, to) PROVE RequestsAbout' /\ MessagesAbout'
  <2>1. clock' = clock + 1 /\ UNCHANGED <<messages, lastViewed, posts>> /\ Proc' = Proc
        /\ \A qr \in Proc : qr # pr => request'[qr] = request[qr]
    BY <1>2 DEF Stamped, Others
  <2>2. MessagesAbout'
    <3>1. \A u \in User : lastViewed[u] \in Nat /\ \A i \in DOMAIN messages[u] : messages[u][i].at \in Nat
      BY MessageIs DEF InboxType
    <3> QED BY <1>0, <2>1, <3>1 DEF MessagesAbout, Comments
  <2>3. RequestsAbout'
    <3>1. request'[pr].at = "deliver" /\ request'[pr].post \in DOMAIN posts /\ request'[pr].stamp = clock + 1
      BY <1>2 DEF Stamped, RequestsAbout, About
    <3>2. \A qr \in Proc : request[qr].at = "mark" => request[qr].stamp \in Nat
      BY RequestFields DEF InboxType
    <3> QED BY <1>0, <2>1, <3>1, <3>2 DEF RequestsAbout, About
  <2> QED BY <2>2, <2>3
<1>3. ASSUME NEW pr \in Proc, Delivered(pr) PROVE RequestsAbout' /\ MessagesAbout'
  <2>1. UNCHANGED <<posts, lastViewed, clock>> /\ Proc' = Proc /\ request'[pr].at = "publish"
        /\ \A qr \in Proc : qr # pr => request'[qr] = request[qr]
    BY <1>3 DEF Delivered, Others
  <2>2. RequestsAbout'
    BY <2>1 DEF RequestsAbout, About
  <2>3. request[pr].post \in DOMAIN posts /\ request[pr].stamp \in 1 .. clock
    BY <1>3 DEF Delivered, RequestsAbout
  <2>4. ASSUME NEW u \in User, NEW i \in DOMAIN messages'[u]
        PROVE  messages'[u][i].post \in DOMAIN posts /\ messages'[u][i].at \in 1 .. clock
    BY <1>3, <2>3, <2>4 DEF Delivered, MessagesAbout
  <2> QED BY <2>1, <2>2, <2>4 DEF MessagesAbout, Comments
<1>4. ASSUME NEW pr \in Proc, Ended(pr) PROVE RequestsAbout' /\ MessagesAbout'
  BY <1>0, <1>4 DEF Ended, Others, RequestsAbout, MessagesAbout, About, Comments
<1>5. ASSUME NEW pr \in Proc, NEW u \in User, NEW i \in DOMAIN messages[u], Marking(pr, u, i)
      PROVE  RequestsAbout' /\ MessagesAbout'
  <2>1. messages[u][i].at =< clock
    BY DEF MessagesAbout
  <2> QED BY <1>5, <2>1 DEF Marking, Others, RequestsAbout, MessagesAbout, About, Comments
<1>6. ASSUME NEW pr \in Proc, NEW u \in User, NEW stamp \in Nat, Marked(pr, u, stamp)
      PROVE  RequestsAbout' /\ MessagesAbout'
  <2>1. RequestsAbout'
    BY <1>0, <1>6 DEF Marked, Others, RequestsAbout, About
  <2>2. stamp =< clock
    BY <1>6 DEF Marked, RequestsAbout
  <2>3. \A v \in User : lastViewed'[v] =< clock
    BY <1>6, <2>2 DEF Marked, MessagesAbout, InboxType
  <2> QED BY <1>6, <2>1, <2>3 DEF Marked, MessagesAbout, Comments
<1>7. ASSUME Deleted PROVE RequestsAbout' /\ MessagesAbout'
  BY <1>7 DEF Deleted, Proc, RequestsAbout, MessagesAbout, About, Comments
<1>8. ASSUME NEW pr \in Proc, NEW u \in User, Setting(pr, u) PROVE RequestsAbout' /\ MessagesAbout'
  BY <1>8 DEF Setting, Others, inboxVars, RequestsAbout, MessagesAbout, About, Comments
<1>9. ASSUME NEW pr \in Proc, NEW row, NEW setting, Set(pr, row, setting) PROVE RequestsAbout' /\ MessagesAbout'
  BY <1>0, <1>9 DEF Set, Others, inboxVars, RequestsAbout, MessagesAbout, About, Comments
<1>10. ASSUME JobMoves PROVE RequestsAbout' /\ MessagesAbout'
  BY <1>10 DEF JobMoves, inboxVars, Proc, RequestsAbout, MessagesAbout, About, Comments
<1> QED BY <1>1, <1>2, <1>3, <1>4, <1>5, <1>6, <1>7, <1>8, <1>9, <1>10, NotificationSteps

(* Steps that leave the messages alone and do not stamp any.               *)
Silent ==
  /\ UNCHANGED <<messages, told>> /\ Proc' = Proc
  /\ \A qr \in Proc : request'[qr].at = "deliver" => request'[qr] = request[qr]
LEMMA Silence ==
  ASSUME InboxType, DigestType, RequestsAbout, MessagesAbout, NotificationNext
  PROVE  \/ Silent /\ (UNCHANGED posts \/ PostsGrow)
         \/ \E pr \in Proc : Delivered(pr) \/ \E to \in [User -> {0, 1}] :
              Stamped(pr, to) /\ MayTell(request[pr].post, request[pr].force, to)
<1>0. Idle.at = "idle"
  BY DEF Idle
<1>1. ASSUME NEW pr \in Proc, NEW k, Wrote(pr, k) PROVE Silent /\ PostsGrow
  BY <1>1 DEF Wrote, Others, Silent
<1>2. ASSUME NEW pr \in Proc, Ended(pr) PROVE Silent /\ UNCHANGED posts
  BY <1>0, <1>2 DEF Ended, Others, Silent
<1>3. ASSUME NEW pr \in Proc, NEW u \in User, NEW i, Marking(pr, u, i) PROVE Silent /\ UNCHANGED posts
  BY <1>3 DEF Marking, Others, Silent
<1>4. ASSUME NEW pr \in Proc, NEW u \in User, NEW stamp \in Nat, Marked(pr, u, stamp) PROVE Silent /\ UNCHANGED posts
  BY <1>0, <1>4 DEF Marked, Others, Silent
<1>5. ASSUME Deleted PROVE Silent /\ UNCHANGED posts
  BY <1>5 DEF Deleted, Silent, Proc
<1>6. ASSUME NEW pr \in Proc, NEW u \in User, Setting(pr, u) PROVE Silent /\ UNCHANGED posts
  BY <1>6 DEF Setting, Others, Silent, inboxVars
<1>7. ASSUME NEW pr \in Proc, NEW row, NEW setting, Set(pr, row, setting) PROVE Silent /\ UNCHANGED posts
  BY <1>0, <1>7 DEF Set, Others, Silent, inboxVars
<1>8. ASSUME JobMoves PROVE Silent /\ UNCHANGED posts
  BY <1>8 DEF JobMoves, Silent, inboxVars, Proc
<1> QED BY <1>1, <1>2, <1>3, <1>4, <1>5, <1>6, <1>7, <1>8, NotificationSteps

LEMMA StampsKept ==
  ASSUME InboxType, DigestType, RequestsAbout, MessagesAbout, StampsApart, NotificationNext
  PROVE  StampsApart'
<1>1. ASSUME Silent PROVE StampsApart'
  BY <1>1 DEF Silent, StampsApart
<1>2. ASSUME NEW pr \in Proc, NEW to \in [User -> {0, 1}], Stamped(pr, to) PROVE StampsApart'
  <2>1. UNCHANGED messages /\ Proc' = Proc /\ request'[pr].to = to /\ request'[pr].stamp = clock + 1
        /\ \A qr \in Proc : qr # pr => request'[qr] = request[qr]
    BY <1>2 DEF Stamped, Others
  <2>2. \A u \in User : \A i \in DOMAIN messages[u] : messages[u][i].at # clock + 1
    BY DEF MessagesAbout, InboxType
  <2>3. \A qr \in Proc : request[qr].at = "deliver" => request[qr].stamp # clock + 1
    BY DEF RequestsAbout, InboxType
  <2> QED BY <2>1, <2>2, <2>3 DEF StampsApart
<1>3. ASSUME NEW pr \in Proc, Delivered(pr) PROVE StampsApart'
  <2>1. Proc' = Proc /\ request'[pr].at = "publish" /\ request[pr].at = "deliver"
        /\ \A qr \in Proc : qr # pr => request'[qr] = request[qr]
    BY <1>3 DEF Delivered, Others
  <2>2. ASSUME NEW u \in User
        PROVE  /\ \A i \in DOMAIN messages'[u] : \/ i \in DOMAIN messages[u] /\ messages'[u][i] = messages[u][i]
                                                 \/ messages'[u][i].at = request[pr].stamp
               /\ \A i, j \in DOMAIN messages'[u] \ DOMAIN messages[u] : i = j
    <3>1. PICK n \in Nat, d \in {0, 1} : n = Len(messages[u]) /\ d = request[pr].to[u] /\ DOMAIN messages[u] = 1 .. n
      <4>1. messages[u] \in Seq(InboxRow)
        BY DEF InboxType
      <4>2. Len(messages[u]) \in Nat /\ DOMAIN messages[u] = 1 .. Len(messages[u])
        BY <4>1, LenProperties
      <4> QED BY <2>1, <4>2 DEF StampsApart
    <3>2. DOMAIN messages'[u] = 1 .. (n + d)
      BY <1>3, <3>1 DEF Delivered
    <3>3. \A i, j \in DOMAIN messages'[u] \ DOMAIN messages[u] : i = j
      BY <3>1, <3>2
    <3> QED BY <1>3, <3>3 DEF Delivered
  <2>3. ASSUME NEW u \in User, NEW i \in DOMAIN messages'[u], NEW j \in DOMAIN messages'[u], i # j
        PROVE  messages'[u][i].at # messages'[u][j].at
    <3>0. request[pr].at = "deliver"
      BY <2>1
    <3>1. CASE i \in DOMAIN messages[u] /\ messages'[u][i] = messages[u][i]
      <4>1. messages[u][i].at # request[pr].stamp
        BY <3>0, <3>1 DEF StampsApart
      <4>2. CASE j \in DOMAIN messages[u] /\ messages'[u][j] = messages[u][j]
        BY <2>3, <3>1, <4>2 DEF StampsApart
      <4> QED BY <2>2, <3>1, <4>1, <4>2
    <3>2. CASE messages'[u][i].at = request[pr].stamp
      <4>1. CASE j \in DOMAIN messages[u] /\ messages'[u][j] = messages[u][j]
        <5>1. messages[u][j].at # request[pr].stamp
          BY <3>0, <4>1 DEF StampsApart
        <5> QED BY <3>2, <4>1, <5>1
      <4>2. CASE j \notin DOMAIN messages[u]
        <5>1. i \in DOMAIN messages[u]
          BY <2>2, <2>3, <4>2
        <5>2. messages'[u][i] = messages[u][i] /\ messages'[u][j].at = request[pr].stamp
          BY <1>3, <4>2, <5>1 DEF Delivered
        <5>3. messages[u][i].at # request[pr].stamp
          BY <3>0, <5>1 DEF StampsApart
        <5> QED BY <5>2, <5>3
      <4>3. CASE j \in DOMAIN messages[u]
        BY <1>3, <4>1, <4>3 DEF Delivered
      <4> QED BY <4>2, <4>3
    <3> QED BY <2>2, <3>1, <3>2
  <2>4. ASSUME NEW qr \in Proc, request'[qr].at = "deliver", NEW u \in User
        PROVE  /\ request'[qr].to[u] \in {0, 1}
               /\ \A i \in DOMAIN messages'[u] : messages'[u][i].at # request'[qr].stamp
    <3>1. qr # pr /\ request'[qr] = request[qr]
      BY <2>1, <2>4
    <3>2. request[qr].stamp # request[pr].stamp
      BY <2>1, <2>4, <3>1 DEF StampsApart
    <3> QED BY <2>2, <2>4, <3>1, <3>2 DEF StampsApart
  <2> QED BY <2>1, <2>3, <2>4 DEF StampsApart
<1> QED BY <1>1, <1>2, <1>3, Silence

LEMMA ToldKept ==
  ASSUME InboxType, DigestType, ToldInv, NotificationNext
  PROVE  RightlyTold'
<1> USE DEF ToldInv
<1>1. CASE Silent /\ UNCHANGED posts
  BY <1>1 DEF Silent, RightlyTold, Readers, Comments, Concerned, MayTell
<1>2. CASE Silent /\ PostsGrow
  <2>1. ASSUME NEW k \in told PROVE posts'[k].type # "question" => Author \in Readers(k)'
    BY <1>2, PostsStay DEF Silent, RightlyTold, Readers, InboxType
  <2>2. ASSUME NEW k \in Comments', NEW u \in Readers(k)' \ {Author} PROVE Concerned(k, u)'
    <3>1. u \in Readers(k) /\ k \in DOMAIN posts
      BY <1>2, <2>2 DEF Silent, Readers, MessagesAbout
    <3> QED BY <1>2, <2>2, <3>1, PostsStay DEF RightlyTold
  <2>3. ASSUME NEW pr \in Proc, request'[pr].at = "deliver", NEW k, NEW force, NEW to,
               k = request'[pr].post, force = request'[pr].force, to = request'[pr].to
        PROVE  MayTell(k, force, to)'
    <3>1. request'[pr] = request[pr]
      BY <1>2, <2>3 DEF Silent
    <3>2. k \in DOMAIN posts /\ MayTell(k, force, to)
      BY <2>3, <3>1 DEF RightlyTold, RequestsAbout
    <3> QED BY <1>2, <3>2, PostsStay DEF MayTell
  <2> QED BY <1>2, <2>1, <2>2, <2>3 DEF Silent, RightlyTold
<1>3. ASSUME NEW pr \in Proc, NEW to \in [User -> {0, 1}], Stamped(pr, to),
             MayTell(request[pr].post, request[pr].force, to)
      PROVE  RightlyTold'
  <2>1. UNCHANGED <<messages, told, posts>> /\ Proc' = Proc
        /\ \A qr \in Proc : qr # pr => request'[qr] = request[qr]
    BY <1>3 DEF Stamped, Others
  <2>2. request'[pr].post = request[pr].post /\ request'[pr].force = request[pr].force /\ request'[pr].to = to
    BY <1>3 DEF Stamped
  <2>3. \A k, force, o : MayTell(k, force, o) => MayTell(k, force, o)'
    BY <2>1 DEF MayTell, Comments, Concerned
  <2> QED BY <1>3, <2>1, <2>2, <2>3 DEF RightlyTold, Readers, Comments, Concerned
<1>4. ASSUME NEW pr \in Proc, Delivered(pr) PROVE RightlyTold'
  <2>1. UNCHANGED posts /\ Proc' = Proc /\ request'[pr].at = "publish" /\ request[pr].at = "deliver"
        /\ \A qr \in Proc : qr # pr => request'[qr] = request[qr]
    BY <1>4 DEF Delivered, Others
  <2>2. PICK p, force, to : p = request[pr].post /\ force = request[pr].force /\ to = request[pr].to
    OBVIOUS
  <2>3. MayTell(p, force, to) /\ p \in DOMAIN posts /\ \A u \in User : to[u] \in {0, 1}
    BY <2>1, <2>2 DEF RightlyTold, StampsApart, RequestsAbout
  <2>4. ASSUME NEW k, NEW u \in User
        PROVE  /\ u \in Readers(k) => u \in Readers(k)'
               /\ u \in Readers(k)' => u \in Readers(k) \/ (k = p /\ to[u] > 0)
               /\ k = p /\ to[u] = 1 => u \in Readers(k)'
    <3>1. PICK n \in Nat : n = Len(messages[u]) /\ DOMAIN messages[u] = 1 .. n
      <4>1. messages[u] \in Seq(InboxRow)
        BY DEF InboxType
      <4> QED BY <4>1, LenProperties
    <3>2. to[u] \in {0, 1} /\ DOMAIN messages'[u] = 1 .. (n + to[u])
      BY <1>4, <2>2, <2>3, <3>1 DEF Delivered
    <3>3. /\ \A i \in DOMAIN messages[u] : messages'[u][i] = messages[u][i]
          /\ \A i \in DOMAIN messages'[u] \ DOMAIN messages[u] : messages'[u][i].post = p
      BY <1>4, <2>2 DEF Delivered
    <3>4. DOMAIN messages[u] \subseteq DOMAIN messages'[u]
      BY <3>1, <3>2
    <3>5. to[u] = 0 => DOMAIN messages'[u] = DOMAIN messages[u]
      BY <3>1, <3>2
    <3>6. to[u] = 1 => n + 1 \in DOMAIN messages'[u] \ DOMAIN messages[u]
      BY <3>1, <3>2
    <3>7. u \in Readers(k) => u \in Readers(k)'
      BY <3>3, <3>4 DEF Readers
    <3>8. u \in Readers(k)' => u \in Readers(k) \/ (k = p /\ to[u] > 0)
      <4> SUFFICES ASSUME u \in Readers(k)' PROVE u \in Readers(k) \/ (k = p /\ to[u] > 0)
        OBVIOUS
      <4>1. PICK i \in DOMAIN messages'[u] : messages'[u][i].post = k
        BY DEF Readers
      <4>2. CASE i \in DOMAIN messages[u]
        BY <3>3, <4>1, <4>2 DEF Readers
      <4>3. CASE i \notin DOMAIN messages[u]
        BY <3>2, <3>3, <3>5, <4>1, <4>3
      <4> QED BY <4>2, <4>3
    <3>9. k = p /\ to[u] = 1 => u \in Readers(k)'
      BY <3>3, <3>6 DEF Readers
    <3> QED BY <3>7, <3>8, <3>9
  <2>5. ASSUME NEW k \in told', posts'[k].type # "question" PROVE Author \in Readers(k)'
    <3>1. CASE k \in told
      BY <2>1, <2>4, <2>5, <3>1, InboxAssumption DEF RightlyTold
    <3>2. CASE k \notin told
      <4>1. k = p /\ force
        BY <1>4, <2>2, <3>2 DEF Delivered
      <4>2. to[Author] = 1
        BY <2>1, <2>3, <2>5, <4>1 DEF MayTell
      <4> QED BY <2>4, <4>1, <4>2, InboxAssumption
    <3> QED BY <3>1, <3>2
  <2>6. ASSUME NEW k \in Comments', NEW u \in Readers(k)' \ {Author} PROVE Concerned(k, u)'
    <3>1. k \in Comments /\ u \in User /\ u # Author
      BY <2>1, <2>6 DEF Comments, Readers
    <3>2. Concerned(k, u)
      <4>1. CASE u \in Readers(k)
        BY <3>1, <4>1 DEF RightlyTold
      <4>2. CASE k = p /\ to[u] > 0
        BY <2>3, <3>1, <4>2 DEF MayTell
      <4> QED BY <2>4, <2>6, <3>1, <4>1, <4>2
    <3> QED BY <2>1, <3>2 DEF Concerned, Comments
  <2>7. ASSUME NEW qr \in Proc, request'[qr].at = "deliver", NEW k, NEW o, NEW readers,
               k = request'[qr].post, o = request'[qr].force, readers = request'[qr].to
        PROVE  MayTell(k, o, readers)'
    <3>1. request'[qr] = request[qr]
      BY <2>1, <2>7
    <3>2. MayTell(k, o, readers)
      BY <2>7, <3>1 DEF RightlyTold
    <3> QED BY <2>1, <3>2 DEF MayTell, Comments, Concerned
  <2> QED BY <2>1, <2>5, <2>6, <2>7 DEF RightlyTold
<1> QED BY <1>1, <1>2, <1>3, <1>4, Silence

LEMMA ViewedKept ==
  ASSUME InboxType, DigestType, ToldInv, Alone, ViewedLast, NotificationNext
  PROVE  ViewedLast'
<1> USE DEF ToldInv
<1>0. Proc = {1} /\ Idle.at = "idle" /\ clock \in Nat /\ \A u \in User : lastViewed[u] \in Nat
  BY AloneIs DEF Idle, InboxType
<1>1. ASSUME UNCHANGED <<messages, lastViewed, marks>>,
             request'[1] = request[1] \/ request'[1].at \notin {"deliver", "mark"}
      PROVE  ViewedLast'
  BY <1>1 DEF ViewedLast
<1>2. CASE \E k : Wrote(1, k)
  BY <1>1, <1>2 DEF Wrote
<1>3. ASSUME NEW to, Stamped(1, to) PROVE ViewedLast'
  <2>1. \A u \in User : clock + 1 > lastViewed[u]
    BY <1>0 DEF MessagesAbout
  <2> QED BY <1>3, <2>1 DEF Stamped, ViewedLast
<1>4. CASE Delivered(1)
  <2>1. UNCHANGED <<lastViewed, marks>> /\ request'[1].at = "publish" /\ request[1].at = "deliver"
    BY <1>4 DEF Delivered
  <2>2. ASSUME NEW u \in User, NEW m, \A i \in DOMAIN messages[u] : i > m => messages[u][i].at > lastViewed[u]
        PROVE  \A i \in DOMAIN messages'[u] : i > m => messages'[u][i].at > lastViewed[u]
    <3>1. request[1].stamp > lastViewed[u]
      BY <2>1 DEF ViewedLast
    <3> QED BY <1>4, <2>2, <3>1 DEF Delivered
  <2> QED BY <2>1, <2>2 DEF ViewedLast
<1>5. CASE Ended(1)
  BY <1>0, <1>1, <1>5 DEF Ended
<1>6. ASSUME NEW u \in User, NEW i \in DOMAIN messages[u], Marking(1, u, i) PROVE ViewedLast'
  BY <1>6 DEF Marking, ViewedLast
<1>7. ASSUME NEW u \in User, NEW stamp \in Nat, Marked(1, u, stamp) PROVE ViewedLast'
  <2>1. PICK m : m = <<stamp, Len(messages[u])>>
    OBVIOUS
  <2>2. /\ lastViewed' = [lastViewed EXCEPT ![u] = stamp] /\ marks' = [marks EXCEPT ![u] = @ \cup {m}]
        /\ UNCHANGED messages /\ request'[1].at = "idle" /\ stamp > lastViewed[u]
    BY <1>0, <1>7, <2>1 DEF Marked, ViewedLast
  <2>3. \A i \in DOMAIN messages[u] : ~(i > m[2])
    <3>1. messages[u] \in Seq(InboxRow)
      BY DEF InboxType
    <3>2. DOMAIN messages[u] = 1 .. Len(messages[u]) /\ Len(messages[u]) \in Nat /\ m[2] = Len(messages[u])
      BY <2>1, <3>1, LenProperties
    <3> QED BY <3>2
  <2>4. ASSUME NEW v \in User
        PROVE  /\ \A q \in marks'[v] : q[1] =< lastViewed'[v]
               /\ \/ lastViewed'[v] = 0
                  \/ \E q \in marks'[v] : q[1] = lastViewed'[v] /\ \A i \in DOMAIN messages[v] :
                       i > q[2] => messages[v][i].at > lastViewed'[v]
    <3>1. CASE v = u
      <4>1. lastViewed'[v] = stamp /\ marks'[v] = marks[u] \cup {m} /\ m[1] = stamp
        BY <2>1, <2>2, <3>1 DEF InboxType
      <4>2. \A q \in marks[u] : q[1] \in Nat /\ q[1] =< lastViewed[u]
        BY DEF ViewedLast, InboxType
      <4>3. \A q \in marks[u] : q[1] =< stamp
        BY <1>0, <2>2, <4>2
      <4> QED BY <2>3, <3>1, <4>1, <4>3
    <3>2. CASE v # u
      BY <2>2, <3>2 DEF ViewedLast, InboxType
    <3> QED BY <3>1, <3>2
  <2> QED BY <2>2, <2>4 DEF ViewedLast
<1>8. CASE Deleted
  BY <1>1, <1>8 DEF Deleted
<1>9. CASE \E u \in User : Setting(1, u)
  BY <1>1, <1>9 DEF Setting, inboxVars
<1>10. CASE \E row, setting : Set(1, row, setting)
  BY <1>0, <1>1, <1>10 DEF Set, inboxVars
<1>11. CASE JobMoves
  BY <1>1, <1>11 DEF JobMoves, inboxVars
<1> QED BY <1>0, <1>2, <1>3, <1>4, <1>5, <1>6, <1>7, <1>8, <1>9, <1>10, <1>11, NotificationSteps

(* What is told and marked, as the runs have it.                           *)
LEMMA ToldOnceIs == ToldInv => ToldOnce
BY DEF ToldInv, StampsApart, RightlyTold, Concerned, ToldOnce

LEMMA ReadIs == InboxType /\ ToldInv /\ (Alone => ViewedLast) => ReadIfMarked
<1> SUFFICES ASSUME InboxType, ToldInv, Alone, ViewedLast PROVE ReadIfMarked
  BY DEF ReadIfMarked
<1> SUFFICES ASSUME NEW u \in User, NEW i \in DOMAIN messages[u]
             PROVE  messages[u][i].at =< lastViewed[u]
                      <=> \E mark \in marks[u] : messages[u][i].at =< mark[1] /\ i =< mark[2]
  <2>0. \A v \in User : lastViewed[v] \in Nat
    BY DEF InboxType
  <2>1. \A v \in User : \A j \in DOMAIN messages[v] :
          messages[v][j].at \in Nat /\ lastViewed[v] \in Nat
    BY <2>0, MessageIs
  <2>2. \A v \in User : \A j \in DOMAIN messages[v] :
          ~IsUnread(v, messages[v][j]) <=> messages[v][j].at =< lastViewed[v]
    BY <2>1 DEF IsUnread
  <2> QED BY <2>2 DEF ReadIfMarked
<1>1. messages[u][i].at \in Nat /\ messages[u][i].at >= 1 /\ i \in Nat /\ lastViewed[u] \in Nat
  BY MessageIs DEF ToldInv, MessagesAbout, InboxType
<1>2. \A m \in marks[u] : m[1] \in Nat /\ m[2] \in Nat /\ m[1] =< lastViewed[u]
  BY DEF InboxType, ViewedLast
<1>3. ASSUME messages[u][i].at =< lastViewed[u]
      PROVE  \E m \in marks[u] : messages[u][i].at =< m[1] /\ i =< m[2]
  <2>1. PICK m \in marks[u] : m[1] = lastViewed[u] /\ (i > m[2] => messages[u][i].at > lastViewed[u])
    BY <1>1, <1>3 DEF ViewedLast
  <2> QED BY <1>1, <1>2, <1>3, <2>1
<1>4. ASSUME NEW m \in marks[u], messages[u][i].at =< m[1] PROVE messages[u][i].at =< lastViewed[u]
  BY <1>1, <1>2, <1>4
<1> QED BY <1>3, <1>4

(***************************************************************************)
(* The settings, and the batch that pages through them.                    *)
(***************************************************************************)
OneRowEach == \A i, j \in DOMAIN settings : settings[i].user = settings[j].user => i = j
SettingsApart ==
  /\ "setting" \notin situation.ops => \A pr \in Proc : request[pr].at # "setting"
  /\ Alone \/ "setting" \notin situation.ops => OneRowEach
  /\ Alone /\ request[1].at = "setting" => request[1].row = SettingsOf(request[1].setting.user)

(* The rows of a page that come before row i.                              *)
Below(rs, i) ==
  {j \in rs : settings[j].user < settings[i].user \/ (settings[j].user = settings[i].user /\ j < i)}

LEMMA RowIs ==
  ASSUME settings \in Seq(SettingRow), NEW i \in DOMAIN settings
  PROVE  i \in Nat /\ settings[i].user \in Nat /\ settings[i].user \in User
<1>1. settings[i] \in SettingRow /\ i \in 1 .. Len(settings) /\ Len(settings) \in Nat
  BY ElementOfSeq, LenProperties
<1>2. settings[i].user \in User
  BY <1>1 DEF SettingRow
<1>3. \A u \in User : u \in Nat
  BY InboxAssumption
<1> QED BY <1>1, <1>2, <1>3

LEMMA RowsFinite ==
  ASSUME settings \in Seq(SettingRow), NEW rs \in SUBSET DOMAIN settings
  PROVE  IsFiniteSet(rs) /\ Cardinality(rs) \in Nat
<1>1. DOMAIN settings = 1 .. Len(settings) /\ Len(settings) \in Nat
  BY LenProperties
<1>2. IsFiniteSet(1 .. Len(settings))
  BY <1>1, FS_Interval
<1> QED BY <1>1, <1>2, FS_Subset, FS_CardinalityType

(* A row before one of the first is one of the first, and if one row is    *)
(* not, there is a page full of rows before it.                            *)
LEMMA FirstRows ==
  ASSUME settings \in Seq(SettingRow), NEW rs \in SUBSET DOMAIN settings
  PROVE  /\ \A i \in rs, k \in FirstSettings(rs) :
              settings[i].user < settings[k].user => i \in FirstSettings(rs)
         /\ \A i \in rs : i \notin FirstSettings(rs) => Cardinality(FirstSettings(rs)) >= GetUsersLimit
<1>1. FirstSettings(rs) = {i \in rs : Cardinality(Below(rs, i)) < GetUsersLimit}
  BY DEF FirstSettings, Below
<1>2. \A i \in rs : IsFiniteSet(Below(rs, i)) /\ Cardinality(Below(rs, i)) \in Nat /\ Below(rs, i) \subseteq rs
  <2>1. \A i \in rs : Below(rs, i) \subseteq rs
    BY DEF Below
  <2> QED BY <2>1, RowsFinite
<1>3. ASSUME NEW i \in rs, NEW k \in rs, settings[i].user < settings[k].user \/ (settings[i].user = settings[k].user /\ i < k)
      PROVE  Cardinality(Below(rs, i)) < Cardinality(Below(rs, k))
  <2>1. \A j \in rs : j \in Nat /\ settings[j].user \in Nat
    BY RowIs
  <2>2. Below(rs, i) \subseteq Below(rs, k)
    BY <1>3, <2>1 DEF Below
  <2>3. i \in Below(rs, k) /\ i \notin Below(rs, i)
    BY <1>3, <2>1 DEF Below
  <2>4. Cardinality(Below(rs, i)) <= Cardinality(Below(rs, k)) /\ Cardinality(Below(rs, k)) # Cardinality(Below(rs, i))
    BY <1>2, <2>2, <2>3, FS_Subset
  <2> QED BY <1>2, <2>4
<1>4. ASSUME NEW i \in rs, NEW k \in FirstSettings(rs), settings[i].user < settings[k].user
      PROVE  i \in FirstSettings(rs)
  <2>1. k \in rs /\ Cardinality(Below(rs, k)) < GetUsersLimit
    BY <1>1
  <2>2. Cardinality(Below(rs, i)) < Cardinality(Below(rs, k))
    BY <1>3, <1>4, <2>1
  <2> QED BY <1>1, <1>2, <2>1, <2>2, DigestAssumption
<1>5. ASSUME NEW i \in rs, i \notin FirstSettings(rs) PROVE Cardinality(FirstSettings(rs)) >= GetUsersLimit
  <2> DEFINE N == {Cardinality(Below(rs, j)) : j \in rs \ FirstSettings(rs)}
  <2>1. N \subseteq Nat /\ N # {}
    BY <1>2, <1>5
  <2>2. PICK n \in N : \A m \in N : ~(<<m, n>> \in OpToRel(<, Nat))
    BY <2>1, WFMin, NatLessThanWellFounded, Zenon
  <2>3. \A m \in N : ~(m < n)
    BY <2>1, <2>2 DEF OpToRel
  <2>4. PICK k \in rs \ FirstSettings(rs) : n = Cardinality(Below(rs, k))
    OBVIOUS
  <2>5. \A j \in Below(rs, k) : j \in FirstSettings(rs)
    <3> SUFFICES ASSUME NEW j \in Below(rs, k), j \notin FirstSettings(rs) PROVE FALSE
      OBVIOUS
    <3>1. j \in rs /\ (settings[j].user < settings[k].user \/ (settings[j].user = settings[k].user /\ j < k))
      BY DEF Below
    <3>2. Cardinality(Below(rs, j)) < n /\ Cardinality(Below(rs, j)) \in N
      BY <1>3, <2>4, <3>1
    <3> QED BY <2>3, <3>2
  <2>6. FirstSettings(rs) \subseteq rs /\ IsFiniteSet(FirstSettings(rs)) /\ Cardinality(FirstSettings(rs)) \in Nat
    <3>1. FirstSettings(rs) \subseteq rs
      BY <1>1
    <3> QED BY <3>1, RowsFinite
  <2>7. Cardinality(Below(rs, k)) <= Cardinality(FirstSettings(rs))
    BY <2>5, <2>6, FS_Subset
  <2>8. Cardinality(Below(rs, k)) >= GetUsersLimit
    BY <1>1, <1>2, DigestAssumption
  <2> QED BY <1>2, <2>6, <2>7, <2>8, DigestAssumption
<1> QED BY <1>4, <1>5

(* A page of users holds every live one of them.                           *)
LEMMA PageIs ==
  ASSUME NEW S \in SUBSET User, NEW users \in GetByIds(S)
  PROVE  /\ users \in Seq(User) /\ \A u \in S \cap live : \E j \in 1 .. Len(users) : users[j] = u
         /\ users # <<>> => Len(users) \in Nat \ {0} /\ users[Len(users)] \in S \cap live
         /\ \A j \in 1 .. Len(users) : users[j] \in S \cap live
<1> DEFINE X == S \cap live
<1>1. IsFiniteSet(X) /\ Cardinality(X) \in Nat
  BY InboxAssumption, FS_Subset, FS_CardinalityType
<1>2. users \in [1 .. Cardinality(X) -> X] /\ \A i, j \in 1 .. Cardinality(X) : i # j => users[i] # users[j]
  BY DEF GetByIds, SetToSeqs
<1> HIDE DEF X
<1>3. users \in Injection(1 .. Cardinality(X), X)
  BY <1>2 DEF Injection, IsInjective
<1>4. Cardinality(1 .. Cardinality(X)) = Cardinality(X)
  BY <1>1, FS_Interval
<1>5. users \in Surjection(1 .. Cardinality(X), X)
  BY <1>1, <1>3, <1>4, FS_Injection
<1>6. \A u \in X : \E j \in 1 .. Cardinality(X) : users[j] = u
  BY <1>2, <1>5 DEF Surjection
<1>7. users \in Seq(X)
  BY <1>1, <1>2, SeqDef
<1>8. Len(users) = Cardinality(X)
  BY <1>1, <1>2, <1>7, LenProperties
<1>9. X \subseteq User
  BY DEF X
<1>10. users \in Seq(User)
  BY <1>7, <1>9, SeqMonotonic
<1>11. users # <<>> => Len(users) \in Nat \ {0}
  BY <1>7, EmptySeq
<1>12. \A j \in 1 .. Len(users) : users[j] \in X
  BY <1>2, <1>8
<1>13. users # <<>> => users[Len(users)] \in X
  <2>1. Len(users) \in Nat \ {0} => Len(users) \in 1 .. Len(users)
    OBVIOUS
  <2> QED BY <1>11, <1>12, <2>1
<1>14. \A u \in X : \E j \in 1 .. Len(users) : users[j] = u
  BY <1>6, <1>8
<1> QED BY <1>10, <1>11, <1>12, <1>13, <1>14 DEF X

(* A user who asks for mails has been counted, or is still to come, on the *)
(* page or behind it.  A batch is only over when a page had no user left,  *)
(* so that as many were deleted as a page has settings.                    *)
LastPage == pages[Len(pages)]
Reached(u) ==
  \/ u \in counted
  \/ job.at # "over" /\ u > job.last
  \/ job.at = "users" /\ \E j \in job.i .. Len(LastPage) : LastPage[j] = u
  \/ job.at = "over" /\ Cardinality(User \ live) >= GetUsersLimit
AllCounted ==
  ("digest" \in situation.ops /\ "setting" \notin situation.ops /\ lost = {}) =>
    \A i \in DOMAIN settings :
      (settings[i].interval = Interval /\ settings[i].user \in live \ Unverified) => Reached(settings[i].user)
BatchAsked == "digest" \notin situation.ops => job.at = "page"

DigestInv == DigestType /\ OnPage /\ SettingsApart /\ AllCounted /\ BatchAsked

(* Steps of requests leave the batch alone.                                *)
LEMMA BatchLeft ==
  ASSUME InboxType, DigestType, RequestsAbout, MessagesAbout, NotificationNext, ~JobMoves
  PROVE  /\ UNCHANGED <<situation, job, pages, digests, counted>> /\ live' \subseteq live /\ lost \subseteq lost'
         /\ Proc' = Proc
         /\ \/ UNCHANGED settings /\ \A pr \in Proc : request'[pr].at = "setting" => request'[pr] = request[pr]
            \/ \E pr \in Proc, u \in User : Setting(pr, u)
            \/ \E pr \in Proc, row \in SUBSET Nat, setting \in SettingRow : Set(pr, row, setting)
<1>0. Idle.at = "idle"
  BY DEF Idle
<1>1. ASSUME NEW pr \in Proc, NEW k, Wrote(pr, k)
      PROVE  /\ UNCHANGED <<situation, live, lost, digestVars>> /\ Proc' = Proc
             /\ \A qr \in Proc : request'[qr].at = "setting" => request'[qr] = request[qr]
  BY <1>1 DEF Wrote, Others
<1>2. ASSUME NEW pr \in Proc, NEW to, Stamped(pr, to)
      PROVE  /\ UNCHANGED <<situation, live, lost, digestVars>> /\ Proc' = Proc
             /\ \A qr \in Proc : request'[qr].at = "setting" => request'[qr] = request[qr]
  BY <1>2 DEF Stamped, Others
<1>3. ASSUME NEW pr \in Proc, Delivered(pr) \/ Ended(pr)
      PROVE  /\ UNCHANGED <<situation, live, digestVars>> /\ Proc' = Proc /\ lost \subseteq lost'
             /\ \A qr \in Proc : request'[qr].at = "setting" => request'[qr] = request[qr]
  BY <1>0, <1>3 DEF Delivered, Ended, Others
<1>4. ASSUME NEW pr \in Proc, NEW u \in User, NEW i, NEW stamp, Marking(pr, u, i) \/ Marked(pr, u, stamp)
      PROVE  /\ UNCHANGED <<situation, live, lost, digestVars>> /\ Proc' = Proc
             /\ \A qr \in Proc : request'[qr].at = "setting" => request'[qr] = request[qr]
  BY <1>0, <1>4 DEF Marking, Marked, Others
<1>5. ASSUME Deleted
      PROVE  /\ UNCHANGED <<situation, request, lost, digestVars>> /\ Proc' = Proc /\ live' \subseteq live
  BY <1>5 DEF Deleted, Proc
<1>6. ASSUME NEW pr \in Proc, NEW u \in User, Setting(pr, u)
      PROVE  UNCHANGED <<situation, live, lost, digestVars>> /\ Proc' = Proc
  BY <1>6 DEF Setting, Others, inboxVars
<1>7. ASSUME NEW pr \in Proc, NEW row, NEW setting, Set(pr, row, setting)
      PROVE  UNCHANGED <<situation, live, lost, job, pages, digests, counted>> /\ Proc' = Proc
  BY <1>7 DEF Set, Others, inboxVars
<1> QED BY <1>1, <1>2, <1>3, <1>4, <1>5, <1>6, <1>7, NotificationSteps DEF digestVars

LEMMA SetIs ==
  ASSUME DigestType, NEW pr \in Proc, NEW row \in SUBSET Nat, NEW setting \in SettingRow, Set(pr, row, setting)
  PROVE  /\ settings' \in Seq(SettingRow)
         /\ row = {} => /\ DOMAIN settings' = 1 .. (Len(settings) + 1) /\ settings'[Len(settings) + 1] = setting
                        /\ \A i \in DOMAIN settings : settings'[i] = settings[i]
         /\ row # {} => /\ DOMAIN settings' = DOMAIN settings
                        /\ \A i \in DOMAIN settings :
                             settings'[i] = IF i \in row THEN setting ELSE settings[i]
<1>1. settings \in Seq(SettingRow) /\ DOMAIN settings = 1 .. Len(settings) /\ Len(settings) \in Nat
  BY LenProperties DEF DigestType
<1>2. \A i \in DOMAIN settings : settings[i] \in SettingRow
  BY <1>1, ElementOfSeq
<1>3. CASE row = {}
  <2>1. settings' = Append(settings, setting)
    BY <1>3 DEF Set
  <2> QED BY <1>1, <1>3, <2>1
<1>4. CASE row # {}
  <2>1. settings' = [i \in DOMAIN settings |-> IF i \in row THEN setting ELSE settings[i]]
    BY <1>4 DEF Set
  <2>2. settings' \in [1 .. Len(settings) -> SettingRow]
    BY <1>1, <1>2, <2>1
  <2>3. settings' \in Seq(SettingRow)
    BY <1>1, <2>2, SeqDef
  <2> QED BY <1>1, <1>4, <2>1, <2>3
<1> QED BY <1>3, <1>4

LEMMA SettingsKept ==
  ASSUME InboxType, DigestType, RequestsAbout, MessagesAbout, SettingsApart, NotificationNext
  PROVE  settings' \in Seq(SettingRow) /\ SettingsApart'
<1>1. CASE JobMoves
  BY <1>1 DEF JobMoves, SettingsApart, DigestType, Alone, OneRowEach, SettingsOf, Proc
<1>2. CASE ~JobMoves
  <2>0. UNCHANGED situation /\ Proc' = Proc
    BY <1>2, BatchLeft
  <2>1. CASE UNCHANGED settings /\ \A pr \in Proc : request'[pr].at = "setting" => request'[pr] = request[pr]
    <3>1. settings' \in Seq(SettingRow) /\ (Alone' <=> Alone) /\ (OneRowEach' <=> OneRowEach)
      BY <2>0, <2>1 DEF DigestType, Alone, OneRowEach
    <3>2. ASSUME Alone, request'[1].at = "setting"
          PROVE  request'[1].row = {i \in DOMAIN settings' : settings'[i].user = request'[1].setting.user}
      <4>1. request'[1] = request[1]
        BY <2>1, <3>2, AloneIs
      <4> QED BY <2>1, <3>2, <4>1 DEF SettingsApart, SettingsOf
    <3>3. "setting" \notin situation.ops => \A pr \in Proc : request'[pr].at # "setting"
      BY <2>1 DEF SettingsApart
    <3> QED BY <2>0, <3>1, <3>2, <3>3 DEF SettingsApart, SettingsOf
  <2>2. ASSUME NEW pr \in Proc, NEW u \in User, Setting(pr, u) PROVE settings' \in Seq(SettingRow) /\ SettingsApart'
    <3>1. /\ UNCHANGED settings /\ "setting" \in situation.ops /\ request'[pr].row = SettingsOf(u)
          /\ request'[pr].setting.user = u
      BY <2>2 DEF Setting, digestVars
    <3>2. Alone => pr = 1
      BY AloneIs
    <3>3. ASSUME Alone
          PROVE  request'[1].row = {i \in DOMAIN settings' : settings'[i].user = request'[1].setting.user}
      BY <3>1, <3>2, <3>3 DEF SettingsOf
    <3>4. Alone' <=> Alone
      BY <2>0 DEF Alone
    <3>5. settings' \in Seq(SettingRow) /\ (Alone => OneRowEach')
      BY <3>1 DEF SettingsApart, DigestType, OneRowEach
    <3> QED BY <2>0, <3>1, <3>3, <3>4, <3>5 DEF SettingsApart, SettingsOf
  <2>3. ASSUME NEW pr \in Proc, NEW row \in SUBSET Nat, NEW setting \in SettingRow, Set(pr, row, setting)
        PROVE  settings' \in Seq(SettingRow) /\ SettingsApart'
    <3>1. request[pr].at = "setting" /\ request[pr].row = row /\ request[pr].setting = setting /\ request'[pr].at = "idle"
      BY <2>3 DEF Set, Idle
    <3>2. "setting" \in situation.ops
      BY <3>1 DEF SettingsApart
    <3>3. ASSUME Alone PROVE OneRowEach'
      <4>1. pr = 1 /\ row = SettingsOf(setting.user) /\ OneRowEach
        BY <3>1, <3>3, AloneIs DEF SettingsApart
      <4>2. CASE row = {}
        <5>1. \A i \in DOMAIN settings : settings[i].user # setting.user
          BY <4>1, <4>2 DEF SettingsOf
        <5>2. /\ DOMAIN settings' = 1 .. (Len(settings) + 1) /\ settings'[Len(settings) + 1] = setting
              /\ \A i \in DOMAIN settings : settings'[i] = settings[i]
          BY <2>3, <4>2, SetIs
        <5>4. settings \in Seq(SettingRow)
          BY DEF DigestType
        <5>5. DOMAIN settings = 1 .. Len(settings) /\ Len(settings) \in Nat
          BY <5>4, LenProperties
        <5>3. \A i \in DOMAIN settings' : i \in DOMAIN settings \/ i = Len(settings) + 1
          BY <5>2, <5>5
        <5> QED BY <4>1, <5>1, <5>2, <5>3 DEF OneRowEach
      <4>3. CASE row # {}
        <5>1. /\ DOMAIN settings' = DOMAIN settings
              /\ \A i \in DOMAIN settings : settings'[i] = IF i \in row THEN setting ELSE settings[i]
          BY <2>3, <4>3, SetIs
        <5>2. \A i \in DOMAIN settings : settings'[i].user = settings[i].user
          BY <4>1, <5>1 DEF SettingsOf
        <5> QED BY <4>1, <5>1, <5>2 DEF OneRowEach
      <4> QED BY <4>2, <4>3
    <3>4. Alone => request'[1].at # "setting"
      BY <3>1, AloneIs
    <3>5. settings' \in Seq(SettingRow)
      BY <2>3, SetIs
    <3> QED BY <2>0, <3>2, <3>3, <3>4, <3>5 DEF SettingsApart, Alone
  <2> QED BY <1>2, <2>1, <2>2, <2>3, BatchLeft
<1> QED BY <1>1, <1>2

LEMMA RowsOfOne ==
  ASSUME OneRowEach, NEW u \in User
  PROVE  Cardinality(SettingsOf(u)) =< 1
<1>1. \A i, j \in SettingsOf(u) : i = j
  BY DEF SettingsOf, OneRowEach
<1>2. CASE SettingsOf(u) = {}
  <2>1. Cardinality(SettingsOf(u)) = 0
    BY <1>2, FS_EmptySet
  <2> QED BY <2>1
<1>3. CASE SettingsOf(u) # {}
  <2>1. PICK i : SettingsOf(u) = {i}
    BY <1>1, <1>3
  <2>2. Cardinality(SettingsOf(u)) = 1
    BY <2>1, FS_Singleton
  <2> QED BY <2>2
<1> QED BY <1>2, <1>3

LEMMA OneSettingIs == DigestInv => OneSettingPerUser
BY RowsOfOne DEF OneSettingPerUser, DigestInv, SettingsApart

LEMMA Appended ==
  ASSUME NEW T, NEW s \in Seq(T), NEW e \in T, NEW t, t = Append(s, e)
  PROVE  /\ t \in Seq(T) /\ Len(t) = Len(s) + 1 /\ t[Len(t)] = e /\ t # <<>>
         /\ DOMAIN s \subseteq DOMAIN t /\ \A n \in DOMAIN s : t[n] = s[n]
         /\ \A n \in DOMAIN t : n \in DOMAIN s \/ n = Len(t)
         /\ Len(t) \in DOMAIN t
OBVIOUS

LEMMA PagesAre ==
  ASSUME DigestType, OnPage
  PROVE  /\ Len(pages) \in Nat /\ DOMAIN pages = 1 .. Len(pages)
         /\ \A n \in DOMAIN pages : pages[n] \in Seq(User) /\ Len(pages[n]) \in Nat \ {0}
                                    /\ \A j \in 1 .. Len(pages[n]) : pages[n][j] \in User
         /\ pages # <<>> => /\ Len(pages) \in DOMAIN pages /\ job.i \in 1 .. Len(LastPage) /\ Len(LastPage) \in Nat
                            /\ Current = LastPage[job.i] /\ Current \in User
<1>1. pages \in Seq(Seq(User))
  BY DEF DigestType
<1>2. Len(pages) \in Nat /\ DOMAIN pages = 1 .. Len(pages)
  BY <1>1, LenProperties
<1>3. ASSUME NEW n \in DOMAIN pages
      PROVE  /\ pages[n] \in Seq(User) /\ Len(pages[n]) \in Nat \ {0}
             /\ \A j \in 1 .. Len(pages[n]) : pages[n][j] \in User
  <2>1. pages[n] \in Seq(User)
    BY <1>1, <1>2, ElementOfSeq
  <2>2. pages[n] # <<>>
    BY DEF OnPage
  <2> QED BY <2>1, <2>2, EmptySeq, ElementOfSeq
<1>4. ASSUME pages # <<>>
      PROVE  /\ Len(pages) \in DOMAIN pages /\ job.i \in 1 .. Len(LastPage) /\ Len(LastPage) \in Nat
             /\ Current = LastPage[job.i] /\ Current \in User
  <2>1. Len(pages) \in Nat \ {0}
    BY <1>1, <1>4, EmptySeq
  <2>2. Len(pages) \in DOMAIN pages
    BY <1>2, <2>1
  <2>3. job.i \in 1 .. Len(LastPage)
    BY <1>4 DEF OnPage, LastPage
  <2> QED BY <1>3, <2>2, <2>3 DEF LastPage, Current
<1> QED BY <1>2, <1>3, <1>4

LEMMA NextIs ==
  ASSUME DigestType, OnPage, job.at = "users", job' = NextUser
  PROVE  /\ job' \in [at : {"page", "users", "over"}, last : Nat, i : Nat, since : [User -> Nat]]
         /\ job'.last = job.last /\ job'.at \in {"page", "users"}
         /\ job.i < Len(LastPage) => job'.at = "users" /\ job'.i = job.i + 1
         /\ job.i >= Len(LastPage) => job'.at = "page" /\ job'.i = job.i
<1>1. job \in [at : {"page", "users", "over"}, last : Nat, i : Nat, since : [User -> Nat]]
  BY DEF DigestType
<1>2. job.i \in Nat /\ Len(LastPage) \in Nat
  BY <1>1, PagesAre DEF OnPage
<1>3. CASE job.i < Len(LastPage)
  <2>1. job' = [job EXCEPT !.i = @ + 1]
    BY <1>3 DEF NextUser, LastPage
  <2> QED BY <1>1, <1>2, <1>3, <2>1
<1>4. CASE ~(job.i < Len(LastPage))
  <2>1. job' = [job EXCEPT !.at = "page"]
    BY <1>4 DEF NextUser, LastPage
  <2> QED BY <1>1, <1>2, <1>4, <2>1
<1> QED BY <1>3, <1>4

(* What a page that is read adds.                                          *)
PageFrom(users) ==
  /\ users = <<>> => UNCHANGED pages /\ job' = [job EXCEPT !.at = "over"]
  /\ users # <<>> => /\ pages' \in Seq(Seq(User)) /\ Len(pages') = Len(pages) + 1
                     /\ DOMAIN pages \subseteq DOMAIN pages' /\ \A n \in DOMAIN pages : pages'[n] = pages[n]
                     /\ \A n \in DOMAIN pages' : n \in DOMAIN pages \/ n = Len(pages')
                     /\ pages'[Len(pages')] = users /\ pages' # <<>>
                     /\ job' = [at |-> "users", last |-> users[Len(users)], i |-> 1, since |-> lastViewed]

LEMMA PageReads ==
  ASSUME InboxType, DigestType, OnPage, ReadPage
  PROVE  \E S \in SUBSET User : \E users \in GetByIds(S) :
           /\ S = {settings[i].user : i \in FirstSettings(SettingsBehind(job.last))}
           /\ PageFrom(users)
<1>1. PICK S : S = {settings[i].user : i \in FirstSettings(SettingsBehind(job.last))}
  OBVIOUS
<1>2. S \in SUBSET User
  <2>1. \A i \in FirstSettings(SettingsBehind(job.last)) : i \in DOMAIN settings
    BY DEF FirstSettings, SettingsBehind
  <2> QED BY <1>1, <2>1, RowIs DEF DigestType
<1>3. PICK users \in GetByIds(S) :
        IF users = <<>>
        THEN job' = [job EXCEPT !.at = "over"] /\ UNCHANGED pages
        ELSE /\ job' = [at |-> "users", last |-> users[Len(users)], i |-> 1, since |-> lastViewed]
             /\ pages' = Append(pages, users)
  BY <1>1 DEF ReadPage, GetByInboxInterval
<1>4. users \in Seq(User) /\ pages \in Seq(Seq(User))
  BY <1>2, <1>3, PageIs DEF DigestType
<1>5. ASSUME users # <<>>
      PROVE  /\ pages' \in Seq(Seq(User)) /\ Len(pages') = Len(pages) + 1
             /\ DOMAIN pages \subseteq DOMAIN pages' /\ \A n \in DOMAIN pages : pages'[n] = pages[n]
             /\ \A n \in DOMAIN pages' : n \in DOMAIN pages \/ n = Len(pages')
             /\ pages'[Len(pages')] = users /\ pages' # <<>>
  <2>1. pages' = Append(pages, users)
    BY <1>3, <1>5
  <2> QED BY <1>4, <2>1, Appended
<1> QED BY <1>1, <1>2, <1>3, <1>5 DEF PageFrom

JobRow == [at : {"page", "users", "over"}, last : Nat, i : Nat, since : [User -> Nat]]
DigestRow == [user : User, page : Nat, to : Nat]

LEMMA BatchTypeKept ==
  ASSUME InboxType, DigestType, OnPage, JobMoves
  PROVE  DigestType' /\ OnPage'
<1>1. settings' \in Seq(SettingRow) /\ job \in JobRow /\ counted \subseteq User /\ digests \in Seq(DigestRow)
      /\ pages \in Seq(Seq(User))
  BY DEF JobMoves, DigestType, JobRow, DigestRow
<1>2. ASSUME job' \in JobRow, pages' \in Seq(Seq(User)), counted' \subseteq User, digests' \in Seq(DigestRow)
      PROVE  DigestType'
  BY <1>1, <1>2 DEF DigestType, JobRow, DigestRow
<1>3. \A u \in User : u \in Nat
  BY InboxAssumption
<1>4. CASE ReadPage
  <2> PICK S \in SUBSET User : \E users \in GetByIds(S) : PageFrom(users)
    BY <1>4, PageReads DEF PageFrom
  <2> PICK users \in GetByIds(S) : PageFrom(users)
    OBVIOUS
  <2>1. /\ users = <<>> => UNCHANGED pages /\ job' = [job EXCEPT !.at = "over"]
        /\ users # <<>> => /\ pages' \in Seq(Seq(User)) /\ Len(pages') = Len(pages) + 1
                           /\ DOMAIN pages \subseteq DOMAIN pages' /\ \A n \in DOMAIN pages : pages'[n] = pages[n]
                           /\ \A n \in DOMAIN pages' : n \in DOMAIN pages \/ n = Len(pages')
                           /\ pages'[Len(pages')] = users /\ pages' # <<>>
                           /\ job' = [at |-> "users", last |-> users[Len(users)], i |-> 1, since |-> lastViewed]
    BY DEF PageFrom
  <2>2. UNCHANGED <<digests, counted>>
    BY <1>4 DEF ReadPage
  <2>3. CASE users = <<>>
    <3>1. job' \in JobRow /\ job'.at = "over" /\ job'.i = job.i /\ UNCHANGED pages
      BY <1>1, <2>1, <2>3 DEF JobRow
    <3> QED BY <1>1, <1>2, <2>2, <3>1 DEF OnPage
  <2>4. CASE users # <<>>
    <3>1. Len(users) \in Nat \ {0} /\ users[Len(users)] \in User
      BY <2>4, PageIs
    <3>2. job' \in JobRow /\ job'.i = 1 /\ job'.at = "users"
      BY <1>3, <2>1, <2>4, <3>1 DEF JobRow, InboxType
    <3>3. 1 \in 1 .. Len(users)
      BY <3>1
    <3>4. /\ pages'[Len(pages')] = users /\ pages' # <<>> /\ DOMAIN pages \subseteq DOMAIN pages'
          /\ \A n \in DOMAIN pages : pages'[n] = pages[n]
          /\ \A n \in DOMAIN pages' : n \in DOMAIN pages \/ n = Len(pages')
      BY <2>1, <2>4
    <3>5. OnPage'
      BY <2>2, <2>4, <3>2, <3>3, <3>4 DEF OnPage
    <3> QED BY <1>1, <1>2, <2>1, <2>2, <2>4, <3>2, <3>5
  <2> QED BY <2>3, <2>4
<1>5. CASE CountUnread
  <2>0. job.at = "users" /\ job' = NextUser /\ UNCHANGED pages /\ pages # <<>>
    BY <1>5 DEF CountUnread, OnPage
  <2>1. /\ job' \in JobRow /\ job'.at \in {"page", "users"}
        /\ job.i < Len(LastPage) => job'.at = "users" /\ job'.i = job.i + 1
        /\ job.i >= Len(LastPage) => job'.at = "page" /\ job'.i = job.i
    BY <2>0, NextIs DEF JobRow
  <2>2. job.i \in 1 .. Len(LastPage) /\ Len(LastPage) \in Nat /\ Current \in User /\ Len(pages) \in DOMAIN pages
        /\ Len(pages) \in Nat
    BY <2>0, PagesAre
  <2>3. job'.i \in 1 .. Len(LastPage)
    BY <2>1, <2>2
  <2>4. counted' \subseteq User
    BY <1>1, <1>5, <2>2 DEF CountUnread
  <2>5. digests' \in Seq(DigestRow) /\ \A k \in DOMAIN digests' : digests'[k].page \in DOMAIN pages /\ digests'[k].to \in User \cup {0}
    <3>1. PICK row : row = [user |-> Current, page |-> Len(pages), to |-> 0]
      OBVIOUS
    <3>2. row \in DigestRow /\ row.page = Len(pages) /\ row.to = 0
      BY <2>2, <3>1 DEF DigestRow
    <3>3. CASE digests' = digests
      BY <1>1, <3>3 DEF OnPage
    <3>4. CASE digests' = Append(digests, row)
      <4>1. /\ digests' \in Seq(DigestRow) /\ digests'[Len(digests')] = row
            /\ \A n \in DOMAIN digests : digests'[n] = digests[n]
            /\ \A n \in DOMAIN digests' : n \in DOMAIN digests \/ n = Len(digests')
        BY <1>1, <3>2, <3>4, Appended
      <4> QED BY <2>2, <3>2, <4>1 DEF OnPage
    <3> QED BY <1>5, <3>1, <3>3, <3>4 DEF CountUnread
  <2>6. OnPage'
    BY <2>0, <2>1, <2>3, <2>5 DEF OnPage, LastPage
  <2> QED BY <1>1, <1>2, <2>0, <2>1, <2>4, <2>5, <2>6
<1>6. CASE JobFails
  <2>0. UNCHANGED <<pages, digests, counted>>
    BY <1>6 DEF JobFails
  <2>1. CASE job.at = "page" /\ job' = [job EXCEPT !.at = "over"]
    <3>1. job' \in JobRow /\ job'.at = "over" /\ job'.i = job.i
      BY <1>1, <2>1 DEF JobRow
    <3> QED BY <1>1, <1>2, <2>0, <3>1 DEF OnPage
  <2>2. CASE job.at = "users" /\ job' = NextUser
    <3>1. /\ job' \in JobRow /\ job'.at \in {"page", "users"}
          /\ job.i < Len(LastPage) => job'.at = "users" /\ job'.i = job.i + 1
          /\ job.i >= Len(LastPage) => job'.at = "page" /\ job'.i = job.i
      BY <2>2, NextIs DEF JobRow
    <3>2. pages # <<>> /\ job.i \in 1 .. Len(LastPage) /\ Len(LastPage) \in Nat
      BY <2>2, PagesAre DEF OnPage
    <3>3. job'.i \in 1 .. Len(LastPage)
      BY <3>1, <3>2
    <3> QED BY <1>1, <1>2, <2>0, <3>1, <3>2, <3>3 DEF OnPage, LastPage
  <2> QED BY <1>6, <2>1, <2>2 DEF JobFails
<1>7. ASSUME NEW k \in DOMAIN digests, SendInboxMessagesDigestEmail(k) PROVE DigestType' /\ OnPage'
  <2>0. UNCHANGED <<job, pages, counted>> /\ digests' = [digests EXCEPT ![k].to = LoopUser(digests[k].page)]
    BY <1>7 DEF SendInboxMessagesDigestEmail
  <2>1. digests[k].page \in DOMAIN pages
    BY DEF OnPage
  <2>2. pages # <<>>
    BY <2>1
  <2>3. LoopUser(digests[k].page) \in User
    <3>1. PICK n \in DOMAIN pages : n = digests[k].page
      BY <2>1
    <3>2. Len(pages[n]) \in 1 .. Len(pages[n])
      BY PagesAre
    <3>3. pages[n][Len(pages[n])] \in User /\ Current \in User
      BY <2>2, <3>2, PagesAre
    <3> QED BY <3>1, <3>3 DEF LoopUser
  <2>4. PICK row : row = [digests[k] EXCEPT !.to = LoopUser(digests[k].page)]
    OBVIOUS
  <2>5. digests[k] \in DigestRow /\ DOMAIN digests = 1 .. Len(digests)
    BY <1>1, ElementOfSeq, LenProperties
  <2>6. row \in DigestRow /\ row.to \in User /\ row.page = digests[k].page
    BY <1>3, <2>3, <2>4, <2>5 DEF DigestRow
  <2>7. digests' = [digests EXCEPT ![k] = row]
    BY <2>0, <2>4
  <2>8. /\ digests' \in Seq(DigestRow) /\ DOMAIN digests' = DOMAIN digests
        /\ \A j \in DOMAIN digests : digests'[j] = IF j = k THEN row ELSE digests[j]
    BY <1>1, <2>5, <2>6, <2>7, ExceptSeq, LenProperties
  <2>9. OnPage'
    BY <2>0, <2>1, <2>6, <2>8 DEF OnPage
  <2> QED BY <1>1, <1>2, <2>0, <2>8, <2>9
<1> QED BY <1>4, <1>5, <1>6, <1>7 DEF JobMoves, Batch

LEMMA DeletedMore ==
  ASSUME InboxType, NEW alive \in SUBSET live
  PROVE  /\ IsFiniteSet(User \ alive) /\ Cardinality(User \ alive) \in Nat
         /\ Cardinality(User \ live) =< Cardinality(User \ alive)
<1>1. IsFiniteSet(User \ alive) /\ Cardinality(User \ alive) \in Nat
  BY InboxAssumption, FS_Subset, FS_CardinalityType
<1>2. User \ live \in SUBSET (User \ alive)
  OBVIOUS
<1> QED BY <1>1, <1>2, FS_Subset

(* When a page has no user left, its settings are of deleted users.        *)
LEMMA PageEmpty ==
  ASSUME InboxType, DigestType, OneRowEach, NEW rs \in SUBSET DOMAIN settings,
         NEW i \in rs, i \notin FirstSettings(rs),
         \A j \in FirstSettings(rs) : settings[j].user \notin live
  PROVE  Cardinality(User \ live) >= GetUsersLimit
<1>1. settings \in Seq(SettingRow)
  BY DEF DigestType
<1>2. Cardinality(FirstSettings(rs)) >= GetUsersLimit /\ FirstSettings(rs) \subseteq rs
  BY <1>1, FirstRows DEF FirstSettings
<1>3. PICK f : f = [j \in FirstSettings(rs) |-> settings[j].user]
  OBVIOUS
<1>4. \A j \in FirstSettings(rs) : settings[j].user \in User \ live
  BY <1>1, <1>2, RowIs
<1>5. f \in Injection(FirstSettings(rs), User \ live)
  <2>1. f \in [FirstSettings(rs) -> User \ live]
    BY <1>3, <1>4
  <2>2. \A j, k \in FirstSettings(rs) : f[j] = f[k] => j = k
    BY <1>2, <1>3 DEF OneRowEach
  <2>3. DOMAIN f = FirstSettings(rs)
    BY <1>3
  <2> QED BY <2>1, <2>2, <2>3 DEF Injection, IsInjective
<1>6. IsFiniteSet(User \ live) /\ Cardinality(User \ live) \in Nat
  BY DeletedMore
<1>7. Cardinality(FirstSettings(rs)) <= Cardinality(User \ live)
  BY <1>5, <1>6, FS_Injection
<1>8. Cardinality(FirstSettings(rs)) \in Nat
  BY <1>1, <1>2, RowsFinite
<1> QED BY <1>2, <1>6, <1>7, <1>8, DigestAssumption

LEMMA PageReaches ==
  ASSUME InboxType, DigestType, OnPage, OneRowEach, ReadPage,
         NEW i \in DOMAIN settings, settings[i].interval = Interval, settings[i].user \in live,
         settings[i].user \in counted \/ settings[i].user > job.last
  PROVE  Reached(settings[i].user)'
<1> DEFINE rs == SettingsBehind(job.last)
<1>1. PICK u \in User : u = settings[i].user
  BY RowIs DEF DigestType
<1>2. UNCHANGED <<counted, live, settings>>
  BY DEF ReadPage, JobStep, inboxVars
<1>3. CASE u \in counted
  BY <1>1, <1>2, <1>3 DEF Reached
<1>4. CASE u > job.last
  <2>1. rs \in SUBSET DOMAIN settings /\ i \in rs
    BY <1>1, <1>4 DEF SettingsBehind
  <2>2. PICK S \in SUBSET User : /\ S = {settings[j].user : j \in FirstSettings(rs)}
                                 /\ \E users \in GetByIds(S) : PageFrom(users)
    BY PageReads
  <2>3. PICK users \in GetByIds(S) : PageFrom(users)
    BY <2>2
  <2>4. CASE users = <<>>
    <3>1. job'.at = "over"
      BY <2>3, <2>4 DEF PageFrom, DigestType
    <3>2. S \cap live = {}
      <4>1. Len(users) = 0
        BY <2>4
      <4> QED BY <4>1, PageIs
    <3>3. \A j \in FirstSettings(rs) : settings[j].user \notin live
      BY <2>2, <3>2
    <3>4. i \notin FirstSettings(rs)
      BY <3>3
    <3>5. Cardinality(User \ live) >= GetUsersLimit
      BY <2>1, <3>3, <3>4, PageEmpty
    <3> QED BY <1>1, <1>2, <3>1, <3>5 DEF Reached
  <2>5. CASE users # <<>>
    <3>1. /\ job' = [at |-> "users", last |-> users[Len(users)], i |-> 1, since |-> lastViewed]
          /\ pages'[Len(pages')] = users
      BY <2>3, <2>5 DEF PageFrom
    <3>2. PICK last \in S : last = users[Len(users)]
      BY <2>5, PageIs
    <3>3. job'.at = "users" /\ job'.last = last /\ job'.i = 1 /\ LastPage' = users
      BY <3>1, <3>2 DEF LastPage
    <3>4. PICK k \in FirstSettings(rs) : last = settings[k].user
      BY <2>2, <3>2
    <3>5. \A j \in FirstSettings(rs) : j \in DOMAIN settings
      BY <2>1 DEF FirstSettings
    <3>6. u \in Nat /\ last \in Nat
      BY <1>1, <3>2, InboxAssumption
    <3>7. CASE u > last
      BY <1>1, <1>2, <3>3, <3>7 DEF Reached
    <3>8. CASE u = last
      <4>1. i = k
        BY <1>1, <3>4, <3>5, <3>8 DEF OneRowEach
      <4>2. u \in S \cap live
        BY <1>1, <3>2, <3>8
      <4>3. \E j \in 1 .. Len(users) : users[j] = u
        BY <4>2, PageIs
      <4> QED BY <1>1, <1>2, <3>3, <4>3 DEF Reached
    <3>9. CASE u < last
      <4>1. i \in FirstSettings(rs)
        BY <1>1, <2>1, <3>4, <3>9, FirstRows DEF DigestType
      <4>2. u \in S \cap live
        BY <1>1, <2>2, <4>1
      <4>3. \E j \in 1 .. Len(users) : users[j] = u
        BY <4>2, PageIs
      <4> QED BY <1>1, <1>2, <3>3, <4>3 DEF Reached
    <3> QED BY <3>6, <3>7, <3>8, <3>9
  <2> QED BY <2>4, <2>5
<1> QED BY <1>1, <1>3, <1>4

LEMMA CountReaches ==
  ASSUME InboxType, DigestType, OnPage, CountUnread, NEW u \in User \ Unverified, u \in live, Reached(u)
  PROVE  Reached(u)'
<1>1. job.at = "users" /\ job' = NextUser /\ pages # <<>> /\ UNCHANGED pages
      /\ counted' = IF Current \in Unverified THEN counted ELSE counted \cup {Current}
  BY DEF CountUnread, OnPage
<1>2. /\ job'.last = job.last /\ job'.at \in {"page", "users"}
      /\ job.i < Len(LastPage) => job'.at = "users" /\ job'.i = job.i + 1
  BY <1>1, NextIs
<1>3. job.i \in Nat /\ job.i \in 1 .. Len(LastPage) /\ Len(LastPage) \in Nat /\ Current = LastPage[job.i]
  BY <1>1, PagesAre
<1>4. LastPage' = LastPage
  BY <1>1 DEF LastPage
<1>5. CASE u \in counted \/ u > job.last
  BY <1>1, <1>2, <1>5 DEF Reached
<1>6. ASSUME NEW j \in job.i .. Len(LastPage), LastPage[j] = u PROVE Reached(u)'
  <2>1. CASE j = job.i
    BY <1>1, <1>3, <1>6, <2>1 DEF Reached
  <2>2. CASE j # job.i
    <3>1. job'.at = "users" /\ job'.i = job.i + 1 /\ j \in job.i + 1 .. Len(LastPage)
      BY <1>2, <1>3, <2>2
    <3> QED BY <1>4, <1>6, <3>1 DEF Reached
  <2> QED BY <2>1, <2>2
<1> QED BY <1>1, <1>5, <1>6 DEF Reached

LEMMA CountedKept ==
  ASSUME InboxType, RequestsAbout, MessagesAbout, DigestInv, NotificationNext
  PROVE  AllCounted' /\ BatchAsked'
<1> USE DEF DigestInv
<1>1. CASE JobMoves
  <2>1. "digest" \in situation.ops /\ UNCHANGED <<situation, live, settings>> /\ lost \subseteq lost'
    BY <1>1 DEF JobMoves, inboxVars
  <2> SUFFICES ASSUME "setting" \notin situation.ops, lost' = {}, NEW i \in DOMAIN settings,
                      settings[i].interval = Interval, settings[i].user \in live \ Unverified
               PROVE  Reached(settings[i].user)'
    BY <2>1 DEF AllCounted, BatchAsked
  <2>2. PICK u \in User : u = settings[i].user
    BY RowIs DEF DigestType
  <2>3. Reached(u) /\ OneRowEach /\ lost = {}
    BY <2>1, <2>2 DEF AllCounted, SettingsApart
  <2>4. CASE ReadPage
    <3>1. job.at = "page"
      BY <2>4 DEF ReadPage
    <3>2. u \in counted \/ u > job.last
      BY <2>3, <3>1 DEF Reached
    <3> QED BY <2>2, <2>3, <2>4, <3>2, PageReaches
  <2>5. CASE CountUnread
    <3>1. Reached(u)'
      BY <2>2, <2>3, <2>5, CountReaches
    <3> QED BY <2>2, <3>1, <2>1
  <2>6. CASE \E k \in DOMAIN digests : SendInboxMessagesDigestEmail(k)
    BY <2>1, <2>2, <2>3, <2>6 DEF SendInboxMessagesDigestEmail, Reached, LastPage
  <2>7. ~JobFails
    BY DEF JobFails
  <2> QED BY <1>1, <2>4, <2>5, <2>6, <2>7 DEF JobMoves, Batch
<1>2. CASE ~JobMoves
  <2>1. UNCHANGED <<situation, job, pages, counted>> /\ live' \subseteq live /\ lost \subseteq lost'
    BY <1>2, BatchLeft
  <2>2. "setting" \notin situation.ops => UNCHANGED settings
    BY <1>2, BatchLeft DEF Setting, Set, SettingsApart
  <2>3. Cardinality(User \ live) \in Nat /\ Cardinality(User \ live') \in Nat
        /\ Cardinality(User \ live) =< Cardinality(User \ live')
    BY <2>1, DeletedMore
  <2>4. \A u : Reached(u) => Reached(u)'
    BY <2>1, <2>3, DigestAssumption DEF Reached, LastPage
  <2>5. AllCounted'
    BY <2>1, <2>2, <2>4 DEF AllCounted
  <2> QED BY <2>1, <2>5 DEF BatchAsked
<1> QED BY <1>1, <1>2

LEMMA EveryoneIs == InboxType /\ DigestInv => ("setting" \notin situation.ops \/ "digest" \notin situation.ops => EveryoneCounted)
<1> SUFFICES ASSUME InboxType, DigestInv, "setting" \notin situation.ops \/ "digest" \notin situation.ops,
                    job.at = "over", lost = {}, Cardinality(User \ live) < GetUsersLimit,
                    NEW i \in DOMAIN settings, settings[i].interval = Interval, settings[i].user \in live \ Unverified
             PROVE  settings[i].user \in counted
  BY DEF EveryoneCounted
<1>1. Reached(settings[i].user)
  BY DEF DigestInv, AllCounted, BatchAsked
<1>2. Cardinality(User \ live) \in Nat
  BY DeletedMore
<1> QED BY <1>1, <1>2, DigestAssumption DEF Reached

(***************************************************************************)
(* The invariant of what readers are told.                                 *)
(***************************************************************************)
InboxInv == InboxType /\ ToldInv /\ (Alone => ViewedLast) /\ DigestInv

LEMMA InboxKept == InboxInv /\ NotificationNext => InboxInv'
<1> SUFFICES ASSUME InboxInv, NotificationNext PROVE InboxInv'
  OBVIOUS
<1>1. InboxType /\ RequestsAbout /\ MessagesAbout /\ StampsApart /\ RightlyTold /\ DigestInv /\ DigestType /\ OnPage
      /\ SettingsApart /\ ToldInv
  BY DEF InboxInv, ToldInv, DigestInv
<1>2. InboxType'
  BY <1>1, InboxTypeKept
<1>3. RequestsAbout' /\ MessagesAbout'
  BY <1>1, AboutKept
<1>4. StampsApart' /\ RightlyTold'
  BY <1>1, StampsKept, ToldKept
<1>5. UNCHANGED situation
  <2>1. CASE JobMoves
    BY <2>1 DEF JobMoves
  <2> QED BY <1>1, <2>1, BatchLeft
<1>6. Alone' => ViewedLast'
  BY <1>1, <1>5, ViewedKept DEF InboxInv, Alone
<1>7. settings' \in Seq(SettingRow) /\ SettingsApart'
  BY <1>1, SettingsKept
<1>8. DigestType' /\ OnPage'
  <2>1. CASE JobMoves
    BY <1>1, <2>1, BatchTypeKept
  <2>2. CASE ~JobMoves
    <3>1. UNCHANGED <<job, pages, digests, counted>>
      BY <1>1, <2>2, BatchLeft
    <3> QED BY <1>1, <1>7, <3>1 DEF DigestType, OnPage
  <2> QED BY <2>1, <2>2
<1>9. AllCounted' /\ BatchAsked'
  BY <1>1, CountedKept
<1> QED BY <1>2, <1>3, <1>4, <1>6, <1>7, <1>8, <1>9 DEF InboxInv, ToldInv, DigestInv

LEMMA InboxBegins == RequestsInit /\ NotificationInit => InboxInv
<1> SUFFICES ASSUME RequestsInit, NotificationInit PROVE InboxInv
  OBVIOUS
<1>1. /\ situation \in Situations /\ served = 0 /\ lost = {}
      /\ live = User /\ posts = <<>> /\ messages = [u \in User |-> <<>>] /\ lastViewed = [u \in User |-> 0]
      /\ clock = 0 /\ marks = [u \in User |-> {}] /\ told = {}
      /\ settings = situation.settings /\ job = [at |-> "page", last |-> 0, i |-> 1, since |-> lastViewed]
      /\ pages = <<>> /\ digests = <<>> /\ counted = {}
  BY DEF RequestsInit, NotificationInit, InboxInit
<1>2. request = [pr \in Proc |-> Idle] /\ Idle \in InboxRequest /\ Idle.at = "idle"
  BY DEF RequestsInit, InboxRequest, Idle
<1>3. \A pr \in Proc : request[pr].at = "idle"
  BY <1>2
<1>4. Alone => 1 \in Proc
  BY AloneIs
<1>5. InboxType
  <2>1. request \in [Proc -> InboxRequest]
    BY <1>2
  <2> QED BY <1>1, <2>1 DEF InboxType
<1>6. Comments = {} /\ \A u \in User : DOMAIN messages[u] = {}
  BY <1>1 DEF Comments
<1>7. RequestsAbout /\ MessagesAbout /\ StampsApart
  BY <1>1, <1>3, <1>6 DEF RequestsAbout, MessagesAbout, StampsApart
<1>8. RightlyTold
  BY <1>1, <1>3, <1>6 DEF RightlyTold
<1>9. Alone => ViewedLast
  BY <1>1, <1>3, <1>4 DEF ViewedLast
<1>10. settings \in Seq(SettingRow) /\ OneRowEach
  BY <1>1, SettingsAssumption DEF OneRowEach
<1>11. DigestType
  <2>1. job \in [at : {"page", "users", "over"}, last : Nat, i : Nat, since : [User -> Nat]]
    BY <1>1
  <2> QED BY <1>1, <1>10, <2>1 DEF DigestType
<1>12. OnPage /\ BatchAsked
  BY <1>1 DEF OnPage, BatchAsked
<1>13. SettingsApart
  BY <1>3, <1>4, <1>10 DEF SettingsApart
<1>14. AllCounted
  <2> SUFFICES ASSUME NEW i \in DOMAIN settings PROVE Reached(settings[i].user)
    BY DEF AllCounted
  <2>1. PICK u \in User : u = settings[i].user
    BY <1>10, RowIs
  <2>2. u > 0
    BY InboxAssumption
  <2> QED BY <1>1, <2>1, <2>2 DEF Reached
<1> QED BY <1>5, <1>7, <1>8, <1>9, <1>11, <1>12, <1>13, <1>14 DEF InboxInv, ToldInv, DigestInv

LEMMA InboxIs ==
  InboxInv => /\ ReadIfMarked /\ ToldOnce /\ OneSettingPerUser
              /\ "setting" \notin situation.ops \/ "digest" \notin situation.ops => EveryoneCounted
BY ReadIs, ToldOnceIs, OneSettingIs, EveryoneIs DEF InboxInv
(***************************************************************************)
(* The end of a server.                                                    *)
(*                                                                         *)
(* The number that Shutdown waits for is exactly the number of goroutines  *)
(* that run.  Once the HTTP server has stopped and left no handler behind, *)
(* only a goroutine that runs can start another one: when that number is   *)
(* 0 it stays 0.                                                           *)
(***************************************************************************)
RunningSet == {g \in Goroutines : Running(g)}

ShutdownType ==
  /\ goroutine \in [Goroutines -> {"new", "running", "signalling", "done"}]
  /\ main \in {"serving", "stopping", "counting", "receiving", "waited", "closed"}
  /\ handlers \in Nat /\ exitSignals \in 0 .. Capacity

CountIsExact == goroutineCount = Cardinality(RunningSet)

Drained ==
  (main \in {"counting", "receiving", "waited", "closed"} /\ ~outlived) => handlers = 0

ShutdownInv == ShutdownType /\ CountIsExact /\ Drained /\ StoreOutlivesGoroutines

LEMMA RunningIsFinite == IsFiniteSet(RunningSet)
<1>1. RunningSet \in SUBSET Goroutines
  BY DEF RunningSet
<1> QED BY <1>1, FS_Subset, ShutdownAssumption

(* One more, one less, and as many goroutines as before.                   *)
LEMMA OneMoreRuns ==
  ASSUME ShutdownType, NEW g \in Goroutines, ~Running(g),
         goroutine' = [goroutine EXCEPT ![g] = "running"]
  PROVE  Cardinality(RunningSet') = Cardinality(RunningSet) + 1
<1>1. RunningSet' = RunningSet \cup {g} /\ g \notin RunningSet
  BY DEF RunningSet, Running, ShutdownType
<1> QED BY <1>1, RunningIsFinite, FS_AddElement

LEMMA OneLessRuns ==
  ASSUME ShutdownType, NEW g \in Goroutines, Running(g),
         goroutine' = [goroutine EXCEPT ![g] = "signalling"]
  PROVE  Cardinality(RunningSet') = Cardinality(RunningSet) - 1
<1>1. RunningSet' = RunningSet \ {g} /\ g \in RunningSet
  BY DEF RunningSet, Running, ShutdownType
<1> QED BY <1>1, RunningIsFinite, FS_RemoveElement

LEMMA AsMany ==
  ASSUME ShutdownType,
         \/ UNCHANGED goroutine
         \/ \E g \in Goroutines : ~Running(g) /\ goroutine' = [goroutine EXCEPT ![g] = "done"]
  PROVE  RunningSet' = RunningSet
BY DEF RunningSet, Running, ShutdownType

(* Nobody is counted just when nobody runs.                                *)
LEMMA CountedOut ==
  ASSUME CountIsExact
  PROVE  goroutineCount = 0 <=> \A g \in Goroutines : ~Running(g)
<1>1. Cardinality(RunningSet) = 0 <=> RunningSet = {}
  BY RunningIsFinite, FS_EmptySet
<1> QED BY <1>1 DEF CountIsExact, RunningSet

LEMMA InitShutdown == ShutdownInit => ShutdownInv
<1> SUFFICES ASSUME ShutdownInit PROVE ShutdownInv
  OBVIOUS
<1>1. ShutdownType /\ Drained /\ StoreOutlivesGoroutines
  BY DEF ShutdownInit, ShutdownType, Drained, StoreOutlivesGoroutines, Capacity
<1>2. RunningSet = {}
  BY DEF ShutdownInit, RunningSet, Running
<1> QED BY <1>1, <1>2, FS_EmptySet DEF ShutdownInit, ShutdownInv, CountIsExact

(* One step at a time.                                                     *)
LEMMA NextShutdown == ShutdownInv /\ [ShutdownNext]_shutdownVars => ShutdownInv'
<1> SUFFICES ASSUME ShutdownInv, [ShutdownNext]_shutdownVars PROVE ShutdownInv'
  OBVIOUS
<1> USE DEF ShutdownInv
<1>1. CASE handleRequest
  <2>1. CountIsExact'
    BY <1>1, AsMany DEF handleRequest, CountIsExact
  <2> QED BY <1>1, <2>1 DEF handleRequest, ShutdownType, Drained, StoreOutlivesGoroutines, Running
<1>2. CASE FinishRequest
  <2>1. CountIsExact'
    BY <1>2, AsMany DEF FinishRequest, CountIsExact
  <2> QED BY <1>2, <2>1 DEF FinishRequest, ShutdownType, Drained, StoreOutlivesGoroutines, Running
<1>3. ASSUME NEW g \in Goroutines, Go(g) PROVE ShutdownInv'
  <2>1. CountIsExact'
    BY <1>3, OneMoreRuns DEF Go, CountIsExact, Running
  <2>2. StoreOutlivesGoroutines'
    \* Without handlers g was started by one that runs: nobody has waited yet.
    BY <1>3 DEF Go, Drained, StoreOutlivesGoroutines, ShutdownType, Running
  <2> QED BY <1>3, <2>1, <2>2 DEF Go, ShutdownType, Drained
<1>4. ASSUME NEW g \in Goroutines, CountDown(g) PROVE ShutdownInv'
  <2>1. CountIsExact'
    BY <1>4, OneLessRuns DEF CountDown, CountIsExact
  <2> QED BY <1>4, <2>1 DEF CountDown, ShutdownType, Drained, StoreOutlivesGoroutines, Running
<1>5. ASSUME NEW g \in Goroutines, SignalExit(g) PROVE ShutdownInv'
  <2>1. CountIsExact'
    <3>1. ~Running(g)
      BY <1>5 DEF SignalExit, Running
    <3> QED BY <1>5, <3>1, AsMany DEF SignalExit, CountIsExact
  <2>2. ShutdownType'
    BY <1>5 DEF SignalExit, ShutdownType, Capacity
  <2> QED BY <1>5, <2>1, <2>2 DEF SignalExit, ShutdownType, Drained, StoreOutlivesGoroutines, Running
<1>6. CASE StopServer
  <2>1. CountIsExact'
    BY <1>6, AsMany DEF StopServer, CountIsExact
  <2> QED BY <1>6, <2>1 DEF StopServer, ShutdownType, Drained, StoreOutlivesGoroutines, Running
<1>7. CASE StopHTTPServer
  <2>1. CountIsExact'
    BY <1>7, AsMany DEF StopHTTPServer, CountIsExact
  <2>2. handlers \in Nat /\ handlers' = handlers
    BY <1>7 DEF StopHTTPServer, ShutdownType
  <2>3. ~(handlers > 0) => handlers = 0
    BY <2>2
  <2>4. ~outlived' => ~(handlers > 0)
    BY <1>7, Zenon DEF StopHTTPServer
  <2>5. Drained'
    BY <2>2, <2>3, <2>4 DEF Drained
  <2>6. ShutdownType' /\ StoreOutlivesGoroutines'
    BY <1>7 DEF StopHTTPServer, ShutdownType, StoreOutlivesGoroutines
  <2> QED BY <2>1, <2>5, <2>6
<1>8. CASE LoadCount
  <2>1. CountIsExact'
    BY <1>8, AsMany DEF LoadCount, CountIsExact
  <2>2. StoreOutlivesGoroutines'
    BY <1>8, CountedOut DEF LoadCount, StoreOutlivesGoroutines, Running
  <2> QED BY <1>8, <2>1, <2>2 DEF LoadCount, ShutdownType, Drained
<1>9. CASE ReceiveSignal
  <2>1. CountIsExact'
    BY <1>9, AsMany DEF ReceiveSignal, CountIsExact
  <2> QED BY <1>9, <2>1 DEF ReceiveSignal, ShutdownType, Drained, StoreOutlivesGoroutines, Capacity
<1>10. CASE CloseStore
  <2>1. CountIsExact'
    BY <1>10, AsMany DEF CloseStore, CountIsExact
  <2> QED BY <1>10, <2>1 DEF CloseStore, ShutdownType, Drained, StoreOutlivesGoroutines, Running
<1>11. CASE UNCHANGED shutdownVars
  <2>1. CountIsExact'
    BY <1>11, AsMany DEF shutdownVars, CountIsExact
  <2> QED BY <1>11, <2>1 DEF shutdownVars, ShutdownType, Drained, StoreOutlivesGoroutines, Running
<1> QED
  BY <1>1, <1>2, <1>3, <1>4, <1>5, <1>6, <1>7, <1>8, <1>9, <1>10, <1>11
  DEF ShutdownNext, Main, Exit

(* For any number of goroutines and of requests, the store of a server is  *)
(* closed only when no goroutine is left that might use it, unless a       *)
(* handler outlived the HTTP server (Shutdown, app/server.go:291).         *)
THEOREM StoreIsClosedLast == ShutdownSpec => []StoreOutlivesGoroutines
<1>1. ShutdownInv => StoreOutlivesGoroutines
  BY DEF ShutdownInv
<1> QED BY <1>1, InitShutdown, NextShutdown, PTL DEF ShutdownSpec

(***************************************************************************)
(* All that follows a post.                                                *)
(*                                                                         *)
(* The part a behaviour is about keeps its invariant; the others stay as   *)
(* they began.                                                             *)
(***************************************************************************)
ServedInv == situation \in Situations /\ served \in 0 .. situation.requests
Only(part, inv, init) == IF situation.part = part THEN inv ELSE init
PartsInv ==
  /\ Only("inbox", InboxInv, NotificationInit) /\ Only("webhooks", HooksInv, WebhooksInit)
  /\ Only("counts", CountsInv, CachedCountsInit) /\ Only("search", SearchInv, SearchInit)
FollowUpsInv == ServedInv /\ PartsInv /\ LRUInv /\ ShutdownInv

(* A step serves one request at most.                                      *)
Serves ==
  /\ UNCHANGED situation
  /\ UNCHANGED served \/ (served < situation.requests /\ served' = served + 1)

LEMMA RequestServes ==
  /\ \A pr, op : Accept(pr, op) => Serves
  /\ \A op : Counted(op) => Serves
  /\ \A pr, phase : At(pr, phase) => Serves
  /\ \A pr : Fault(pr) => Serves
  /\ UNCHANGED requestVars => Serves
  /\ UNCHANGED <<situation, served>> => Serves
BY DEF Accept, Counted, At, Fault, requestVars, Serves

LEMMA InboxServes == NotificationNext => Serves
<1> SUFFICES ASSUME NotificationNext PROVE Serves
  OBVIOUS
<1>1. ASSUME InboxNext PROVE Serves
  <2>1. ASSUME NEW pr, NEW u,
               CreateQuestion(pr, u) \/ CreateAnswer(pr, u) \/ \E text \in Texts : CreateComment(pr, u, text)
        PROVE  Serves
    BY <2>1, RequestServes DEF CreateQuestion, CreateAnswer, CreateComment, SavePost
  <2>2. ASSUME NEW pr, \E u, i : setInboxMessageRead(pr, u, i) PROVE Serves
    BY <2>2, RequestServes DEF setInboxMessageRead
  <2>3. ASSUME NEW pr, \E k, text : UpdateComment(pr, k, text) PROVE Serves
    BY <2>3, RequestServes DEF UpdateComment
  <2>4. ASSUME NEW pr,
               AskGroup(pr) \/ InformQuestioner(pr) \/ saveInboxMessagesForComment(pr)
                 \/ SaveMultipleInboxMessages(pr) \/ PublishInboxMessages(pr) \/ UpdateLastInboxMessageViewed(pr)
        PROVE  Serves
    BY <2>4, RequestServes
    DEF AskGroup, InformQuestioner, saveInboxMessagesForComment, SaveMultipleInboxMessages,
        PublishInboxMessages, UpdateLastInboxMessageViewed
  <2>5. ASSUME NEW u, DeleteUser(u) PROVE Serves
    BY <2>5, RequestServes DEF DeleteUser
  <2> QED BY <1>1, <2>1, <2>2, <2>3, <2>4, <2>5, RequestServes DEF InboxNext
<1>2. ASSUME NEW pr, SaveSetting(pr) \/ \E u, interval : updateNotificationSetting(pr, u, interval) PROVE Serves
  BY <1>2, RequestServes DEF SaveSetting, updateNotificationSetting
<1>3. ASSUME Batch \/ JobFails \/ \E k : SendInboxMessagesDigestEmail(k) PROVE Serves
  BY <1>3, RequestServes DEF Batch, ReadPage, CountUnread, JobFails, SendInboxMessagesDigestEmail, JobStep
<1> QED BY <1>1, <1>2, <1>3 DEF NotificationNext

LEMMA HooksServe == WebhooksNext => Serves
BY RequestServes
DEF WebhooksNext, createHook, UpdateWebhook, RegenWebhookToken, deleteHook, SaveHook, UpdateHook,
    DeleteHook, tryWebhook, handleWebhookEvents, TriggerWebhook, doWebhookRequest, Crash, Goroutine

LEMMA CountsServe == CachedCountsNext => Serves
BY RequestServes
DEF CachedCountsNext, viewPost, favoritePost, cancelFavoritePost, ExistsKey, AddViewKey, ReadCounter,
    StartCounter, ResetCounter, incrementBy, ViewPost, SavePostViewsHistory, SaveFavorite,
    DeleteFavorite, InvalidateFavoriteCount, GetCountByPostId, CacheFavoriteCount, RedisFails,
    ExpireViewKey, ExpireCounter, Passing

LEMMA SearchServes == SearchNext => Serves
BY RequestServes
DEF SearchNext, SaveIndexed, UpdateIndexed, DeleteIndexed, WriteRow, IndexPost, CallElasticsearch, CallFails

LEMMA LRUServes == LRUNext => Serves
BY RequestServes DEF LRUNext, LRUPurge, Get, RemoveItem, ExpireItem, SetWithExpiry, Alongside

LEMMA ShutdownServes == ShutdownNext => Serves
BY RequestServes
DEF ShutdownNext, handleRequest, FinishRequest, StopServer, Main, StopHTTPServer, LoadCount,
    ReceiveSignal, CloseStore, Go, Exit, CountDown, SignalExit, Step

LEMMA ServedIsBounded == ServedInv /\ Serves => ServedInv'
BY RequestsAssumption DEF ServedInv, Serves

(* Nothing changes where nothing is done.                                  *)
LEMMA InboxRests ==
  ASSUME UNCHANGED <<situation, notificationVars>>
  PROVE  NotificationInit => NotificationInit'
BY DEF notificationVars, inboxVars, digestVars, NotificationInit, InboxInit
LEMMA HooksRest == UNCHANGED webhookVars /\ WebhooksInit => WebhooksInit'
BY DEF webhookVars, WebhooksInit
LEMMA CountsRest == UNCHANGED cachedVars /\ CachedCountsInit => CachedCountsInit'
BY DEF cachedVars, viewTables, favoriteTables, CachedCountsInit
LEMMA SearchRests == UNCHANGED searchVars /\ SearchInit => SearchInit'
BY DEF searchVars, SearchInit

(* Nor does anything where nothing happens.                                *)
LEMMA SearchStill == UNCHANGED <<requestVars, searchVars>> /\ SearchInv => SearchInv'
<1> SUFFICES ASSUME UNCHANGED <<requestVars, searchVars>>, SearchInv PROVE SearchInv'
  OBVIOUS
<1>1. UNCHANGED <<situation, request, served, lost, rows, esCalls, index, overtaken>>
  BY DEF requestVars, searchVars
<1>2. SearchType' /\ UNCHANGED Alone
  BY <1>1 DEF SearchInv, SearchType, Proc, Alone
<1>3. \A d : DocFollows(d) => DocFollows(d)'
  BY <1>1 DEF DocFollows, CallsAbout, Busy, Fits
<1> QED BY <1>1, <1>2, <1>3 DEF SearchInv

LEMMA HooksStill == UNCHANGED <<requestVars, webhookVars>> /\ HooksInv => HooksInv'
<1> SUFFICES ASSUME UNCHANGED <<requestVars, webhookVars>>, HooksInv PROVE HooksInv'
  OBVIOUS
<1>1. UNCHANGED <<situation, request, served, lost, hooks, tokens, teamPosts, payloads, calls, withdrawn>>
  BY DEF requestVars, webhookVars
<1>2. HooksType' /\ TokensGiven' /\ UNCHANGED Alone
  BY <1>1 DEF HooksInv, HooksType, TokensGiven, Proc, Alone, GetByTeam, Given
<1>3. /\ HookThere => HookThere'
      /\ UrlsApart => UrlsApart'
  BY <1>1 DEF HookThere, UrlsApart, GetByTeam, Intersects
<1>4. TokensApart => TokensApart'
  BY <1>1 DEF TokensApart, GetByTeam
<1>5. VoidUnused => VoidUnused'
  BY <1>1 DEF VoidUnused
<1> QED BY <1>2, <1>3, <1>4, <1>5 DEF HooksInv

LEMMA CountsStill == UNCHANGED <<requestVars, cachedVars>> /\ CountsInv => CountsInv'
<1> SUFFICES ASSUME UNCHANGED <<requestVars, cachedVars>>, CountsInv PROVE CountsInv'
  OBVIOUS
<1>1. UNCHANGED <<situation, request, served, lost, viewKeys, counter, views, viewsHistory, viewed,
                  windows, favorites, favoriteKey>>
  BY DEF requestVars, cachedVars, viewTables, favoriteTables
<1>2. CountsType' /\ UNCHANGED <<Alone, Value>>
  BY <1>1 DEF CountsInv, CountsType, Proc, Alone, Value
<1>3. \A P : Number(P)' = Number(P)
  BY <1>1 DEF Number, Doing, Proc
<1>4. Number(Coming)' = Number(Coming) /\ Number(Resetting)' = Number(Resetting)
      /\ Number(Saving)' = Number(Saving) /\ Number(Logging)' = Number(Logging)
  BY <1>1 DEF Number, Doing, Proc, Coming, Resetting, Saving, Logging
<1>5. Logged' /\ Funded'
  BY <1>1, <1>2, <1>4 DEF CountsInv, Logged, Funded
<1>6. FavoritesFollow'
  BY <1>1, <1>2 DEF CountsInv, FavoritesFollow
<1> QED BY <1>2, <1>5, <1>6 DEF CountsInv

LEMMA InboxStill == UNCHANGED <<requestVars, notificationVars>> /\ InboxInv => InboxInv'
<1> SUFFICES ASSUME UNCHANGED <<requestVars, notificationVars>>, InboxInv PROVE InboxInv'
  OBVIOUS
<1>1. UNCHANGED <<situation, request, served, lost, live, posts, messages, events, lastViewed, clock,
                  marks, told, settings, job, pages, digests, counted>>
  BY DEF requestVars, notificationVars, inboxVars, digestVars
<1>2. InboxType' /\ UNCHANGED Alone
  BY <1>1 DEF InboxInv, InboxType, Proc, Alone
<1>3. RequestsAbout'
  BY <1>1 DEF InboxInv, ToldInv, RequestsAbout, About, Proc
<1>4. MessagesAbout'
  BY <1>1 DEF InboxInv, ToldInv, MessagesAbout, Comments
<1>5. StampsApart'
  BY <1>1 DEF InboxInv, ToldInv, StampsApart, Proc
<1>6. RightlyTold'
  BY <1>1 DEF InboxInv, ToldInv, RightlyTold, Readers, Comments, Concerned, MayTell, Proc
<1>7. ViewedLast => ViewedLast'
  BY <1>1 DEF ViewedLast
<1>8. DigestType' /\ OnPage' /\ BatchAsked'
  BY <1>1 DEF InboxInv, DigestInv, DigestType, OnPage, BatchAsked
<1>9. SettingsApart'
  BY <1>1, <1>2 DEF InboxInv, DigestInv, SettingsApart, OneRowEach, SettingsOf, Proc
<1>10. \A u : Reached(u) => Reached(u)'
  BY <1>1 DEF Reached, LastPage
<1>11. AllCounted'
  BY <1>1, <1>10 DEF InboxInv, DigestInv, AllCounted
<1> QED BY <1>2, <1>3, <1>4, <1>5, <1>6, <1>7, <1>8, <1>9, <1>11 DEF InboxInv, ToldInv, DigestInv

LEMMA PartsStill == UNCHANGED vars /\ PartsInv => PartsInv'
<1> SUFFICES ASSUME UNCHANGED vars, PartsInv PROVE PartsInv'
  OBVIOUS
<1>1. UNCHANGED <<requestVars, notificationVars, webhookVars, cachedVars, searchVars>> /\ UNCHANGED situation
  BY DEF vars, requestVars
<1> QED BY <1>1, InboxStill, HooksStill, CountsStill, SearchStill, InboxRests, HooksRest, CountsRest, SearchRests
        DEF PartsInv, Only

LEMMA Stutters == UNCHANGED vars => Serves /\ UNCHANGED lruVars /\ UNCHANGED shutdownVars
BY RequestServes DEF vars

(* One part at a time.                                                     *)
LEMMA FollowUpsKept == FollowUpsInv /\ [Next]_vars => FollowUpsInv'
<1> SUFFICES ASSUME FollowUpsInv, [Next]_vars PROVE FollowUpsInv'
  OBVIOUS
<1>1. ServedInv /\ PartsInv /\ LRUInv /\ ShutdownInv
  BY DEF FollowUpsInv
<1>2. Serves
  BY InboxServes, HooksServe, CountsServe, SearchServes, LRUServes, ShutdownServes, Stutters
  DEF Next, Notifying, Calling, Counting, Searching, Remembering, Stopping
<1>3. ServedInv'
  BY <1>1, <1>2, ServedIsBounded
<1>4. [LRUNext]_lruVars /\ [ShutdownNext]_shutdownVars
  BY Stutters DEF Next, Notifying, Calling, Counting, Searching, Remembering, Stopping
<1>5. LRUInv' /\ ShutdownInv'
  BY <1>1, <1>4, NextLRU, NextShutdown
<1>6. PartsInv'
  <2> USE <1>1, <1>2 DEF Serves
  <2>1. CASE Notifying
    <3>1. situation.part = "inbox" /\ NotificationNext /\ UNCHANGED <<webhookVars, cachedVars, searchVars>>
      BY <2>1 DEF Notifying
    <3> QED BY <3>1, InboxKept, HooksRest, CountsRest, SearchRests DEF PartsInv, Only
  <2>2. CASE Calling
    <3>1. situation.part = "webhooks" /\ WebhooksNext /\ UNCHANGED <<notificationVars, cachedVars, searchVars>>
      BY <2>2 DEF Calling
    <3> QED BY <3>1, HooksKept, InboxRests, CountsRest, SearchRests DEF PartsInv, Only
  <2>3. CASE Counting
    <3>1. situation.part = "counts" /\ CachedCountsNext /\ UNCHANGED <<notificationVars, webhookVars, searchVars>>
      BY <2>3 DEF Counting
    <3> QED BY <3>1, CountsKept, InboxRests, HooksRest, SearchRests DEF PartsInv, Only
  <2>4. CASE Searching
    <3>1. situation.part = "search" /\ SearchNext /\ UNCHANGED <<notificationVars, webhookVars, cachedVars>>
      BY <2>4 DEF Searching
    <3> QED BY <3>1, SearchKept, InboxRests, HooksRest, CountsRest DEF PartsInv, Only
  <2>5. CASE Remembering \/ Stopping
    <3>1. situation.part \in {"lru", "shutdown"}
          /\ UNCHANGED <<notificationVars, webhookVars, cachedVars, searchVars>>
      BY <2>5 DEF Remembering, Stopping
    <3> QED BY <3>1, InboxRests, HooksRest, CountsRest, SearchRests DEF PartsInv, Only
  <2>6. CASE UNCHANGED vars
    BY <2>6, PartsStill
  <2> QED BY <2>1, <2>2, <2>3, <2>4, <2>5, <2>6 DEF Next
<1> QED BY <1>3, <1>5, <1>6 DEF FollowUpsInv

LEMMA FollowUpsBegin == Init => FollowUpsInv
<1> SUFFICES ASSUME Init PROVE FollowUpsInv
  OBVIOUS
<1>1. ServedInv
  BY RequestsAssumption DEF Init, RequestsInit, ServedInv
<1>2. PartsInv
  BY InboxBegins, HooksBegin, CountsBegin, SearchBegins DEF Init, PartsInv, Only
<1> QED BY <1>1, <1>2, InitLRU, InitShutdown DEF Init, FollowUpsInv

----------------------------------------------------------------------------
(* What the invariant says of each part, and of one that never begins.     *)
InboxTypes ==
  /\ live \subseteq User /\ told \subseteq DOMAIN posts
  /\ \A u \in User : \A i \in DOMAIN messages[u] :
       messages[u][i].post \in DOMAIN posts /\ messages[u][i].at \in 1 .. clock
  /\ lastViewed \in [User -> 0 .. clock]
  /\ \A i \in DOMAIN settings : settings[i].user \in User
  /\ job.at \in {"page", "users", "over"} /\ counted \subseteq User
  /\ \A k \in DOMAIN digests : digests[k].to \in User \cup {0}

LEMMA InboxTyped == InboxInv => InboxTypes
<1> SUFFICES ASSUME InboxInv PROVE InboxTypes
  OBVIOUS
<1>1. InboxType /\ MessagesAbout /\ DigestType /\ OnPage
  BY DEF InboxInv, ToldInv, DigestInv
<1>2. lastViewed \in [User -> 0 .. clock]
  BY <1>1 DEF InboxType, MessagesAbout
<1>3. \A i \in DOMAIN settings : settings[i].user \in User
  <2>1. settings \in Seq(SettingRow)
    BY <1>1 DEF DigestType
  <2> QED BY <2>1, RowIs
<1>4. job.at \in {"page", "users", "over"}
  BY <1>1 DEF DigestType
<1> QED BY <1>1, <1>2, <1>3, <1>4 DEF InboxTypes, InboxType, MessagesAbout, DigestType, OnPage

LEMMA InboxUntouched ==
  situation \in Situations /\ NotificationInit =>
    InboxTypes /\ ReadIfMarked /\ ToldOnce /\ OneSettingPerUser /\ EveryoneCounted
<1> SUFFICES ASSUME situation \in Situations, NotificationInit
             PROVE  InboxTypes /\ ReadIfMarked /\ ToldOnce /\ OneSettingPerUser /\ EveryoneCounted
  OBVIOUS
<1>1. /\ live = User /\ posts = <<>> /\ messages = [u \in User |-> <<>>] /\ lastViewed = [u \in User |-> 0]
      /\ clock = 0 /\ told = {} /\ marks = [u \in User |-> {}]
      /\ settings = situation.settings /\ job = [at |-> "page", last |-> 0, i |-> 1, since |-> lastViewed]
      /\ digests = <<>> /\ counted = {}
  BY DEF NotificationInit, InboxInit
<1>2. settings \in Seq(SettingRow) /\ OneRowEach
  BY <1>1, SettingsAssumption DEF OneRowEach
<1>3. \A i \in DOMAIN settings : settings[i].user \in User
  BY <1>2, RowIs
<1>4. Comments = {} /\ \A u \in User : DOMAIN messages[u] = {}
  BY <1>1 DEF Comments
<1>5. InboxTypes
  BY <1>1, <1>3, <1>4 DEF InboxTypes
<1>6. ReadIfMarked /\ ToldOnce
  BY <1>1, <1>4 DEF ReadIfMarked, ToldOnce
<1>7. EveryoneCounted
  BY <1>1 DEF EveryoneCounted
<1> QED BY <1>2, <1>5, <1>6, <1>7, RowsOfOne DEF OneSettingPerUser

HooksTypes ==
  /\ hooks \in [Hook -> HookRow] /\ tokens \in Nat
  /\ \A c \in calls : c.hook \in Hook /\ c.url \in URL /\ c.token \in 1 .. tokens

LEMMA HooksTyped == HooksInv => HooksTypes
BY DEF HooksInv, HooksType, TokensGiven, HookCall, Given, HooksTypes

LEMMA HooksUntouched == WebhooksInit => HooksTypes /\ NoSharedUrl /\ WithdrawnTokensUnused
<1> SUFFICES ASSUME WebhooksInit PROVE HooksTypes /\ NoSharedUrl /\ WithdrawnTokensUnused
  OBVIOUS
<1>1. HooksTypes
  BY DEF WebhooksInit, HooksTypes, HookRow, NoHook
<1>2. GetByTeam = {} /\ calls = {}
  BY DEF WebhooksInit, GetByTeam, NoHook
<1> QED BY <1>1, <1>2 DEF NoSharedUrl, WithdrawnTokensUnused

CountsTypes ==
  /\ viewKeys \subseteq Viewer /\ favorites \subseteq Viewer
  /\ {counter, favoriteKey} \subseteq Nat \cup {NoKey}
  /\ viewsHistory =< views

LEMMA CountsTyped == CountsInv => CountsTypes
BY CountsAre DEF CountsInv, CountsType, CountsTypes

LEMMA CountsUntouched ==
  situation \in Situations /\ CachedCountsInit => CountsTypes /\ ViewsNotOverstated /\ FavoritesCached
<1> SUFFICES ASSUME situation \in Situations, CachedCountsInit
             PROVE  CountsTypes /\ ViewsNotOverstated /\ FavoritesCached
  OBVIOUS
<1>1. CountsTypes /\ FavoritesCached
  BY DEF CachedCountsInit, CountsTypes, FavoritesCached
<1>2. situation.slots * 0 = 0
  BY RequestsAssumption
<1> QED BY <1>1, <1>2 DEF CachedCountsInit, ViewsNotOverstated

SearchTypes ==
  /\ rows \in [Doc -> {"unsaved", "live", "deleted"}] /\ index \subseteq Doc
  /\ \A c \in esCalls : rows[c.doc] # "unsaved"

LEMMA SearchTyped == SearchInv => SearchTypes
BY DEF SearchInv, SearchType, SearchTypes

LEMMA SearchUntouched == SearchInit => SearchTypes /\ SearchFollowsPosts
BY DEF SearchInit, SearchTypes, SearchFollowsPosts

(* The invariant of each part, or its beginning, is enough.                *)
LEMMA PartsAre ==
  FollowUpsInv =>
    /\ InboxTypes /\ HooksTypes /\ CountsTypes /\ SearchTypes
    /\ ReadIfMarked /\ ToldOnce /\ OneSettingPerUser
    /\ "setting" \notin situation.ops \/ "digest" \notin situation.ops => EveryoneCounted
    /\ NoSharedUrl /\ WithdrawnTokensUnused
    /\ ViewsNotOverstated /\ FavoritesCached /\ SearchFollowsPosts
BY InboxTyped, InboxUntouched, InboxIs, HooksTyped, HooksUntouched, HooksAre, CountsTyped,
   CountsUntouched, CountsAre, SearchTyped, SearchUntouched, SearchIs
DEF FollowUpsInv, ServedInv, PartsInv, Only

LEMMA FollowUpsTyped == FollowUpsInv => TypeOK
<1> SUFFICES ASSUME FollowUpsInv PROVE TypeOK
  OBVIOUS
<1>1. served \in 0 .. situation.requests /\ LRUType /\ ListFits
  BY DEF FollowUpsInv, ServedInv, LRUInv
<1>2. ShutdownType /\ goroutineCount \in Nat
  BY RunningIsFinite, FS_CardinalityType DEF FollowUpsInv, ShutdownInv, CountIsExact
<1> QED
  BY <1>1, <1>2, PartsAre
  DEF TypeOK, InboxTypes, HooksTypes, CountsTypes, SearchTypes, LRUType, ListFits, ShutdownType

(* In every reachable state, whatever the situation it started in, the     *)
(* requests made in it, their order and their failures.                    *)
LEMMA FollowUpsInvariant == Spec => []FollowUpsInv
BY FollowUpsBegin, FollowUpsKept, PTL DEF Spec

(* For any users, hooks and situations, the tables hold rows of their      *)
(* kind, a user has one row of settings and no two hooks of a team call    *)
(* one URL, though no key of a table sees to it, if requests come one at a *)
(* time (app/webhook.go:145, store/sqlstore/notification_setting_store.go:44). *)
THEOREM TablesDoAgree == Spec => []TablesAgree
<1>1. FollowUpsInv => TablesAgree
  BY FollowUpsTyped, PartsAre DEF TablesAgree
<1> QED BY <1>1, FollowUpsInvariant, PTL

(* For any users, texts, settings and number of requests, a message is     *)
(* read just when it was marked, everybody is told once of what concerns   *)
(* him and nobody else is, and a batch counts for all who ask for it, if   *)
(* nobody changes settings while it runs: one who asks for mails when the  *)
(* batch is past him has to wait for the next (app/post.go:292,            *)
(* app/email_batching.go:84).                                              *)
THEOREM ReadersGetTold ==
  ASSUME \A s \in Situations : "setting" \notin s.ops \/ "digest" \notin s.ops
  PROVE  Spec => []ReadersAreTold
<1>1. FollowUpsInv => ReadersAreTold
  BY PartsAre DEF ReadersAreTold, FollowUpsInv, ServedInv
<1> QED BY <1>1, FollowUpsInvariant, PTL

(* For any number of hooks, posts and changes that come one at a time, no  *)
(* call about a post has a token that was withdrawn before it, however     *)
(* late the goroutine that makes it and whatever failed                    *)
(* (RegenWebhookToken and DeleteWebhook, app/webhook.go:192).              *)
THEOREM WithdrawnTokensRest == Spec => []WithdrawnTokensUnused
<1>1. FollowUpsInv => WithdrawnTokensUnused
  BY PartsAre
<1> QED BY <1>1, FollowUpsInvariant, PTL

(* For any number of viewers, requests at once and limit of the counter,   *)
(* the views are no more than so many times those that were counted as     *)
(* there are requests at once, if no command fails; the cached count of    *)
(* favourites, with one at a time, and the length of the LRU are right     *)
(* (ViewPost, store/cachelayer/post_layer.go:21).                          *)
THEOREM CountsDoHold == Spec => []CountsHold
<1>1. FollowUpsInv => CountsHold
  BY PartsAre DEF CountsHold, FollowUpsInv, LRUInv
<1> QED BY <1>1, FollowUpsInvariant, PTL

(* For any number of posts and writes that come one at a time and do not   *)
(* fail, the index holds just the questions and answers that are live, but *)
(* for those about which two goroutines ran at once (SearchPostStore,      *)
(* store/searchlayer/post_layer.go:22).                                    *)
THEOREM IndexFollowsPosts == Spec => []SearchFollowsPosts
<1>1. FollowUpsInv => SearchFollowsPosts
  BY PartsAre
<1> QED BY <1>1, FollowUpsInvariant, PTL

(* The store is closed when no goroutine is left that might use it, beside *)
(* all else that follows a post (Shutdown, app/server.go:304).             *)
THEOREM StoreOutlives == Spec => []StoreOutlivesGoroutines
<1>1. FollowUpsInv => StoreOutlivesGoroutines
  BY DEF FollowUpsInv, ShutdownInv
<1> QED BY <1>1, FollowUpsInvariant, PTL

(* The LRU is the cache that RecentCache promises, beside all else that    *)
(* follows a post (Purge, services/l1cache/lru.go:50).                     *)
THEOREM RecentIsKept == Spec => RecentSpec
<1>1. Init => LRUInit
  BY DEF Init
<1>2. [Next]_vars => [LRUNext]_lruVars
  BY Stutters DEF Next, Notifying, Calling, Counting, Searching, Remembering, Stopping
<1> QED BY <1>1, <1>2, ImplementsRecentCache, PTL DEF Spec, LRUSpec
=============================================================================
