---------------------------- MODULE SearchIndex ----------------------------
(***************************************************************************)
(* The index of posts in Elasticsearch, which goroutines keep up with the  *)
(* database, one for each write and without an order.                      *)
(*                                                                         *)
(* The index is asked to create a document, which it refuses for one it    *)
(* has: no edit ever reaches it, and which documents there are is all that *)
(* is to be said of it.                                                    *)
(***************************************************************************)
EXTENDS Requests

CONSTANTS
  Doc,        \* the ids of posts
  CommentDoc  \* those of comments

ASSUME SearchIndexAssumption == IsFiniteSet(Doc) /\ CommentDoc \subseteq Doc

VARIABLES
  rows,       \* the rows of Posts: "unsaved", "live" or "deleted"
  esCalls,    \* the goroutines that have yet to call Elasticsearch
  index,      \* the posts with a document in the index
  overtaken   \* history: the posts with two goroutines at once

searchVars == <<rows, esCalls, index, overtaken>>

CallsAbout(d) == {c \in esCalls : c.doc = d}

(* The request writes the row, and then starts the goroutine if it is one  *)
(* the search layer knows of: SaveComment and DeleteComment are not.       *)
WriteRow(pr, op, d, from, to) ==
  /\ Accept(pr, op) /\ rows[d] = from
  /\ rows' = [rows EXCEPT ![d] = to]
  /\ UNCHANGED <<esCalls, index, overtaken>>
ToIndex(d) == [at |-> "es_start", call |-> "create", doc |-> d]
ToRemove(d) == [at |-> "es_start", call |-> "delete", doc |-> d]
Unless(comment, r) == IF comment THEN Idle ELSE r

SaveIndexed(pr, d) ==
  /\ WriteRow(pr, "es_save", d, "unsaved", "live")
  /\ Become(pr, Unless(d \in CommentDoc, ToIndex(d)))
UpdateIndexed(pr, d) ==
  WriteRow(pr, "es_update", d, "live", "live") /\ Become(pr, ToIndex(d))

(* Mutant: the deleted row is indexed, with its DeleteAt.                  *)
DeleteByIndexing(pr, d) ==
  /\ WriteRow(pr, "es_delete", d, "live", "deleted")
  /\ Become(pr, Unless(d \in CommentDoc, ToIndex(d)))

DeleteIndexed(pr, d) ==
  /\ WriteRow(pr, "es_delete", d, "live", "deleted")
  /\ Become(pr, Unless(d \in CommentDoc, ToRemove(d)))

IndexPost(pr) ==
  LET r == request[pr]
  IN /\ At(pr, "es_start") /\ Finish(pr)
     /\ esCalls' = esCalls \cup {[doc |-> r.doc, call |-> r.call, nr |-> served]}
     /\ overtaken' = IF CallsAbout(r.doc) = {} THEN overtaken ELSE overtaken \cup {r.doc}
     /\ UNCHANGED <<rows, index>>

(* Neither the answer nor an error of a call is looked at.                 *)
CallElasticsearch(c) ==
  /\ UNCHANGED <<requestVars, rows, overtaken>>
  /\ esCalls' = esCalls \ {c}
  /\ index' = IF c.call = "create" THEN index \cup {c.doc} ELSE index \ {c.doc}

(* A call that fails is not made again; a crash loses all that are left.   *)
CallFails ==
  /\ MayFail /\ esCalls # {} /\ lost' = lost \cup {"es"}
  /\ \/ \E c \in esCalls : esCalls' = esCalls \ {c} /\ UNCHANGED request
     \/ esCalls' = {} /\ request' = [pr \in Proc |-> Idle]
  /\ UNCHANGED <<situation, served, rows, index, overtaken>>

----------------------------------------------------------------------------
SearchInit ==
  rows = [d \in Doc |-> "unsaved"] /\ esCalls = {} /\ index = {} /\ overtaken = {}

SearchNext ==
  \/ \E pr \in Proc :
       \/ \E d \in Doc : SaveIndexed(pr, d) \/ UpdateIndexed(pr, d) \/ DeleteIndexed(pr, d)
       \/ IndexPost(pr)
       \/ Fault(pr) /\ UNCHANGED searchVars
  \/ \E c \in esCalls : CallElasticsearch(c)
  \/ CallFails
=============================================================================
