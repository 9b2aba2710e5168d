------------------------------ MODULE Requests ------------------------------
(***************************************************************************)
(* The requests that what follows a post is made of: inbox messages,       *)
(* digests, webhooks and the counts kept in Redis.                         *)
(*                                                                         *)
(* A handler reads what it decides by when it is accepted and then writes  *)
(* in separate statements and Redis commands, each of them a step, with no *)
(* transaction around them.  A statement may fail, or the server crash,    *)
(* before any of them.  A request refused for its parameters or            *)
(* permissions writes nothing: it is a request that is never made.         *)
(***************************************************************************)
EXTENDS Integers, Sequences, FiniteSets

CONSTANTS
  Situations,  \* the situations a behaviour may start in
  Faulty       \* may statements and commands fail and servers crash?

(* A situation: the part of the system it is about, the operations clients *)
(* ask for, how many requests at once, and the model's bound on requests.  *)
ASSUME RequestsAssumption ==
  /\ \A s \in Situations : s.slots \in Nat \ {0} /\ s.requests \in Nat
  /\ Faulty \in BOOLEAN

VARIABLES
  situation,   \* the situation this behaviour started in
  request,     \* request[pr]: what the request in slot pr is doing
  served,      \* the number of requests accepted so far
  lost         \* history: what failures kept from being done

requestVars == <<situation, request, served, lost>>

Proc == 1 .. situation.slots
Alone == situation.slots = 1

(* What a request carries depends on its phase; an idle slot carries       *)
(* nothing.                                                                *)
Idle == [at |-> "idle"]

At(pr, phase) == request[pr].at = phase /\ UNCHANGED <<situation, served, lost>>
Become(pr, r) == request' = [request EXCEPT ![pr] = r]
Goto(pr, phase) == Become(pr, [request[pr] EXCEPT !.at = phase])
Finish(pr) == Become(pr, Idle)

Counted(op) ==
  /\ op \in situation.ops /\ served < situation.requests
  /\ served' = served + 1 /\ UNCHANGED <<situation, lost>>
Accept(pr, op) == request[pr] = Idle /\ Counted(op)

(* The model's bound on failures: there is one in a behaviour.             *)
MayFail == Faulty /\ lost = {}

(* A request ends before its end, and with it what it had yet to do.       *)
Fault(pr) ==
  /\ MayFail /\ request[pr] # Idle
  /\ lost' = lost \cup {request[pr].at} /\ Finish(pr)
  /\ UNCHANGED <<situation, served>>

RequestsInit ==
  /\ situation \in Situations
  /\ request = [pr \in Proc |-> Idle]
  /\ served = 0 /\ lost = {}
=============================================================================
