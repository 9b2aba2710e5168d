---------------------------- MODULE WebHubProofs ----------------------------
(***************************************************************************)
(* Proofs about WebHub, for any connections, capacities, audiences and     *)
(* number of requests, with panics of the hub and without: what the index  *)
(* holds can be sent to, events are written in order and after the hello,  *)
(* and none is lost silently.                                              *)
(***************************************************************************)
EXTENDS WebHub, TLAPS

(* Until its pump starts, a connection has nothing and the hub does not    *)
(* know it.                                                                *)
Unstarted == {"absent", "registering"}
Fresh == \A c \in Conn : pump[c] \in Unstarted =>
    /\ send[c] = << >> /\ written[c] = << >> /\ writer[c] = "none"
    /\ open[c] /\ c \notin registered

(* A broadcast goes through connections that the event is for and that the *)
(* index still holds.                                                      *)
SweepsRegistered == hub.at = "sweep" => hub.todo \subseteq registered \cap Audience[hub.msg]

IndexInv == IndexIsUsable /\ Fresh /\ SweepsRegistered

(* What waits in h.broadcast comes in the order of its numbers, after the  *)
(* event being sent, and while no publisher has given up it is the latest  *)
(* events with none left out.                                              *)
Queued ==
    /\ \A i, j \in DOMAIN broadcast : i < j => broadcast[i] < broadcast[j]
    /\ \A i \in DOMAIN broadcast :
           /\ broadcast[i] <= published
           /\ hub.at = "sweep" => hub.msg < broadcast[i]
           /\ ~stopping => broadcast[i] = (published - Len(broadcast)) + i
    /\ hub.at = "sweep" => hub.msg <= published

(* What a connection has got is older than what it is still to get.        *)
Sent(c) == EventsIn(written[c]) \cup EventsIn(send[c])
Behind == \A c \in Conn : \A n \in Sent(c) :
    /\ n <= published
    /\ \A i \in DOMAIN broadcast : n < broadcast[i]
    /\ hub.at = "sweep" /\ c \in hub.todo => n < hub.msg

InOrder == \A c \in Conn :
    /\ Ordered(written[c]) /\ Ordered(send[c])
    /\ \A m \in EventsIn(written[c]), n \in EventsIn(send[c]) : m < n

(* The hello leads: the first message a writer has written or has yet to   *)
(* take, on every connection that has events or can be sent one.           *)
Leads(c) == IF written[c] = << >> THEN send[c] # << >> /\ send[c][1].kind = "hello"
                                  ELSE written[c][1].kind = "hello"
HelloLeads == \A c \in Conn :
    /\ writer[c] = "running" /\ (Sent(c) # {} \/ (c \in registered /\ token[c])) => Leads(c)
    /\ EventsIn(written[c]) # {} => written[c] # << >> /\ written[c][1].kind = "hello"

OwedSince == \A c \in registered : since[c] <= published + 1

FlowInv == Queued /\ Behind /\ InOrder /\ HelloLeads /\ OwedSince /\ NoSilentGap

-----------------------------------------------------------------------------
(* The events of a sequence that grows at its end or is taken from.        *)
EventOf(m) == {n \in Event : m = EventMsg(n)}

LEMMA EventMsgs ==
    ASSUME NEW m \in Event, NEW n \in Event
    PROVE  /\ EventMsg(n) \in Message /\ EventMsg(n).kind = "event"
           /\ EventMsg(m) = EventMsg(n) => m = n
           /\ EventOf(EventMsg(n)) = {n}
BY DEF EventMsg, Message, EventOf

LEMMA EventsAreNumbers == MaxEvents \in Nat /\ Event \subseteq Nat
BY WebHubAssumption DEF Event, MaxEvents

LEMMA OtherMsgs ==
    ASSUME NEW m, m = [kind |-> "hello"] \/ m = [kind |-> "reply"]
    PROVE  m \in Message /\ EventOf(m) = {}
BY DEF EventMsg, Message, EventOf

LEMMA NoEvents == EventsIn(<< >>) = {} /\ Ordered(<< >>)
BY DEF EventsIn, Ordered

LEMMA AppendEvents ==
    ASSUME NEW s \in Seq(Message), NEW m \in Message
    PROVE  /\ EventsIn(Append(s, m)) = EventsIn(s) \cup EventOf(m)
           /\ Ordered(s) /\ (\A j \in EventsIn(s), n \in EventOf(m) : j < n)
                => Ordered(Append(s, m))
<1> DEFINE t == Append(s, m)
<1>1. /\ Len(t) = Len(s) + 1 /\ DOMAIN t = 1..Len(s) + 1 /\ DOMAIN s = 1..Len(s)
      /\ Len(s) \in Nat
      /\ t[Len(s) + 1] = m /\ \A k \in 1..Len(s) : t[k] = s[k]
  OBVIOUS
<1> HIDE DEF t
<1>2. EventsIn(t) = EventsIn(s) \cup EventOf(m)
  BY <1>1 DEF EventsIn, EventOf
<1>3. ASSUME Ordered(s), \A j \in EventsIn(s), n \in EventOf(m) : j < n
      PROVE  Ordered(t)
  <2> SUFFICES ASSUME NEW j \in DOMAIN t, NEW k \in DOMAIN t, NEW p \in Event, NEW n \in Event,
                      j < k, t[j] = EventMsg(p), t[k] = EventMsg(n)
               PROVE  p < n
    BY DEF Ordered
  <2>1. j \in 1..Len(s) /\ s[j] = EventMsg(p)
    BY <1>1
  <2>2. CASE k \in 1..Len(s)
    BY <1>1, <1>3, <2>1, <2>2 DEF Ordered
  <2>3. CASE k = Len(s) + 1
    <3>1. p \in EventsIn(s)
      BY <1>1, <2>1 DEF EventsIn
    <3>2. n \in EventOf(m)
      BY <1>1, <2>3 DEF EventOf
    <3> QED BY <1>3, <3>1, <3>2
  <2> QED BY <1>1, <2>2, <2>3
<1> QED BY <1>2, <1>3 DEF t

LEMMA TakenEvents ==
    ASSUME NEW s \in Seq(Message), s # << >>
    PROVE  /\ Head(s) \in Message /\ Head(s) = s[1] /\ Tail(s) \in Seq(Message)
           /\ Len(Tail(s)) = Len(s) - 1
           /\ EventsIn(s) = EventOf(Head(s)) \cup EventsIn(Tail(s))
           /\ Ordered(s) => /\ Ordered(Tail(s))
                            /\ \A m \in EventOf(Head(s)), n \in EventsIn(Tail(s)) : m < n
<1> DEFINE t == Tail(s)
<1>1. /\ Head(s) \in Message /\ Head(s) = s[1] /\ t \in Seq(Message)
      /\ Len(s) \in Nat /\ Len(s) > 0 /\ Len(t) = Len(s) - 1
      /\ DOMAIN s = 1..Len(s) /\ DOMAIN t = 1..(Len(s) - 1)
      /\ \A k \in 1..(Len(s) - 1) : t[k] = s[k + 1]
  OBVIOUS
<1> HIDE DEF t
<1>2. EventsIn(s) = EventOf(Head(s)) \cup EventsIn(t)
  <2>1. ASSUME NEW n \in EventsIn(s) PROVE n \in EventOf(Head(s)) \cup EventsIn(t)
    <3>1. PICK k \in 1..Len(s) : s[k] = EventMsg(n)
      BY <1>1 DEF EventsIn
    <3>2. CASE k = 1
      BY <1>1, <3>1, <3>2 DEF EventsIn, EventOf
    <3>3. CASE k # 1
      <4>1. k - 1 \in DOMAIN t /\ t[k - 1] = EventMsg(n)
        BY <1>1, <3>1, <3>3
      <4> QED BY <4>1 DEF EventsIn
    <3> QED BY <3>2, <3>3
  <2>2. EventOf(Head(s)) \cup EventsIn(t) \subseteq EventsIn(s)
    BY <1>1 DEF EventsIn, EventOf
  <2> QED BY <2>1, <2>2
<1>3. ASSUME Ordered(s) PROVE Ordered(t)
  BY SMTT(30), <1>1, <1>3 DEF Ordered
<1>4. ASSUME Ordered(s), NEW m \in EventOf(Head(s)), NEW n \in EventsIn(t) PROVE m < n
  <2>1. PICK k \in 1..(Len(s) - 1) : t[k] = EventMsg(n)
    BY <1>1 DEF EventsIn
  <2>2. s[k + 1] = EventMsg(n) /\ s[1] = EventMsg(m) /\ 1 < k + 1 /\ k + 1 \in DOMAIN s /\ 1 \in DOMAIN s
    BY <1>1, <2>1 DEF EventOf
  <2> QED BY <1>4, <2>2 DEF Ordered, EventOf, EventsIn
<1> QED BY <1>1, <1>2, <1>3, <1>4 DEF t

(* The order of two queues, one after the other.                           *)
LEMMA OrderedTogether ==
    ASSUME NEW s \in Seq(Message), NEW t \in Seq(Message), Ordered(s), Ordered(t),
           \A m \in EventsIn(s), n \in EventsIn(t) : m < n
    PROVE  Ordered(s \o t)
<1> DEFINE u == s \o t
<1>1. /\ Len(s) \in Nat /\ Len(t) \in Nat /\ DOMAIN s = 1..Len(s) /\ DOMAIN t = 1..Len(t)
      /\ DOMAIN u = 1..(Len(s) + Len(t))
      /\ \A k \in 1..Len(s) : u[k] = s[k]
      /\ \A k \in (Len(s) + 1)..(Len(s) + Len(t)) : u[k] = t[k - Len(s)]
  OBVIOUS
<1> HIDE DEF u
<1> SUFFICES ASSUME NEW j \in DOMAIN u, NEW k \in DOMAIN u, NEW m \in Event, NEW n \in Event,
                    j < k, u[j] = EventMsg(m), u[k] = EventMsg(n)
             PROVE  m < n
  BY DEF Ordered, u
<1>2. CASE k <= Len(s)
  BY <1>1, <1>2 DEF Ordered
<1>3. CASE Len(s) < j
  <2>1. j - Len(s) \in DOMAIN t /\ k - Len(s) \in DOMAIN t /\ j - Len(s) < k - Len(s)
    BY <1>1, <1>3
  <2>2. t[j - Len(s)] = EventMsg(m) /\ t[k - Len(s)] = EventMsg(n)
    BY <1>1, <1>3
  <2> QED BY <2>1, <2>2 DEF Ordered
<1>4. CASE j <= Len(s) /\ Len(s) < k
  <2>1. j \in DOMAIN s /\ s[j] = EventMsg(m)
    BY <1>1, <1>4
  <2>2. k - Len(s) \in DOMAIN t /\ t[k - Len(s)] = EventMsg(n)
    BY <1>1, <1>4
  <2> QED BY <2>1, <2>2 DEF EventsIn
<1> QED BY <1>1, <1>2, <1>3, <1>4

-----------------------------------------------------------------------------
(* The index can be used, step by step.                                    *)
LEMMA InitIndex == Init => IndexInv
<1> SUFFICES ASSUME Init PROVE IndexInv
  OBVIOUS
<1> USE WebHubAssumption
<1>1. TypeOK
  <2>1. << >> \in Seq(Event) /\ << >> \in Seq(Message) /\ Len(<< >>) = 0
    OBVIOUS
  <2>2. MaxEvents \in Nat
    BY DEF MaxEvents
  <2>3. /\ hub \in {Selecting, [at |-> "stopped"]} /\ registered \subseteq Conn
        /\ broadcast \in Seq(Event) /\ Len(broadcast) <= BroadcastQueueSize
        /\ stopping \in BOOLEAN /\ published \in 0..MaxEvents /\ requests \in 0..MaxRequests
    <3>1. broadcast = << >> /\ published = 0 /\ requests = 0 /\ stopping = FALSE
          /\ registered = {} /\ hub = Selecting
      BY DEF Init
    <3>2. broadcast \in Seq(Event) /\ Len(broadcast) <= BroadcastQueueSize
      BY <2>1, <3>1
    <3>3. published \in 0..MaxEvents /\ requests \in 0..MaxRequests
      BY <2>2, <3>1
    <3> QED BY <3>1, <3>2, <3>3
  <2>4. /\ send \in [Conn -> Seq(Message)] /\ \A c \in Conn : Len(send[c]) <= SendQueueSize
        /\ written \in [Conn -> Seq(Message)]
    BY <2>1 DEF Init
  <2>5. /\ pump \in [Conn -> {"absent", "registering", "reading", "serving",
                              "joining", "unregistering", "finished"}]
        /\ writer \in [Conn -> {"none", "running", "done"}]
        /\ {open, socket, token, skipped} \subseteq [Conn -> BOOLEAN]
        /\ since \in [Conn -> Nat]
    BY DEF Init
  <2> QED BY <2>3, <2>4, <2>5 DEF TypeOK
<1>2. ClosedIsForgotten /\ FinishedIsForgotten /\ Fresh /\ SweepsRegistered
  BY DEF Init, ClosedIsForgotten, FinishedIsForgotten, Fresh, SweepsRegistered, Selecting
<1> QED BY <1>1, <1>2 DEF IndexInv, IndexIsUsable

(* Where the hub can be.                                                   *)
LEMMA HubIsAt ==
    ASSUME TypeOK
    PROVE  /\ hub.at \in {"select", "stopped", "sweep", "closing"}
           /\ hub.at = "select" => hub = Selecting
           /\ hub.at = "sweep" => /\ hub.msg \in Event /\ hub.todo \subseteq Conn
                                 /\ hub = [at |-> "sweep", msg |-> hub.msg, todo |-> hub.todo]
           /\ hub.at = "closing" => /\ hub.on \in Conn \cup {NoConn} /\ hub.todo \subseteq Conn
                                   /\ hub = [at |-> "closing", on |-> hub.on, todo |-> hub.todo]
<1>1. CASE hub \in {Selecting, [at |-> "stopped"]}
  BY <1>1 DEF Selecting
<1>2. CASE hub \in [at : {"sweep"}, msg : Event, todo : SUBSET Conn]
  BY <1>2
<1>3. CASE hub \in [at : {"closing"}, on : Conn \cup {NoConn}, todo : SUBSET Conn]
  BY <1>3
<1> QED BY <1>1, <1>2, <1>3 DEF TypeOK

(* What a send that does not block does to one connection's channel.       *)
LEMMA SendTyped ==
    ASSUME TypeOK, NEW c \in Conn, NEW msg \in Message, SendOrDrop(c, msg)
    PROVE  /\ send' \in [Conn -> Seq(Message)] /\ \A d \in Conn : Len(send'[d]) <= SendQueueSize
           /\ open' \in [Conn -> BOOLEAN] /\ registered' \subseteq registered
           /\ \A d \in Conn : d # c => send'[d] = send[d] /\ open'[d] = open[d]
           /\ \A d \in registered : d # c => d \in registered'
           /\ \/ /\ send'[c] = Append(send[c], msg) /\ open' = open /\ registered' = registered
              \/ /\ send' = send /\ c \notin registered'
<1> USE WebHubAssumption DEF TypeOK
<1>1. CASE Len(send[c]) < SendQueueSize
  <2>1. send' = [send EXCEPT ![c] = Append(@, msg)] /\ UNCHANGED <<registered, open>>
    BY <1>1 DEF SendOrDrop
  <2>2. Append(send[c], msg) \in Seq(Message) /\ Len(Append(send[c], msg)) <= SendQueueSize
    BY <1>1
  <2> QED BY <2>1, <2>2
<1>2. CASE ~(Len(send[c]) < SendQueueSize)
  BY <1>2 DEF SendOrDrop
<1> QED BY <1>1, <1>2

LEMMA HubKeepsIndex ==
    ASSUME IndexInv, \/ HubTakes \/ HubStops \/ HubIsStopped \/ HubPanics
                     \/ \E c \in Conn : HubActs(c)
    PROVE  IndexInv'
<1> USE WebHubAssumption
    DEF IndexInv, IndexIsUsable, ClosedIsForgotten, FinishedIsForgotten, Fresh, SweepsRegistered,
        Unstarted, Selecting, Selects
<1> USE DEF hubVars, connVars, envVars, history
<1>1. CASE HubTakes
  <2>1. Head(broadcast) \in Event /\ Tail(broadcast) \in Seq(Event)
        /\ Len(Tail(broadcast)) <= BroadcastQueueSize
    BY <1>1 DEF HubTakes, TypeOK
  <2>2. \/ hub' = Selecting
        \/ hub' = [at |-> "sweep", msg |-> Head(broadcast),
                   todo |-> Audience[Head(broadcast)] \cap registered]
    BY <1>1 DEF HubTakes
  <2>3. UNCHANGED <<registered, connVars, envVars, history>> /\ broadcast' = Tail(broadcast)
    BY <1>1 DEF HubTakes
  <2>4. TypeOK'
    BY SMTT(30), <2>1, <2>2, <2>3 DEF TypeOK
  <2> QED BY <2>2, <2>3, <2>4
<1>2. CASE HubStops
  BY <1>2 DEF HubStops, TypeOK
<1>3. CASE HubIsStopped
  BY <1>3 DEF HubIsStopped, TypeOK
<1>4. CASE HubPanics
  BY <1>4 DEF HubPanics, TypeOK
<1>5. ASSUME NEW c \in Conn, HubRegisters(c) PROVE IndexInv'
  <2>1. /\ hub' = hub /\ hub.at = "select" /\ pump[c] = "registering"
        /\ pump' = [pump EXCEPT ![c] = "reading"]
        /\ writer' = [writer EXCEPT ![c] = "running"]
        /\ UNCHANGED <<broadcast, open, socket, written, envVars, skipped>>
    BY <1>5 DEF HubRegisters, StartPump
  <2>2. since' \in [Conn -> Nat]
    <3>1. (IF broadcast = << >> THEN published + 1 ELSE Head(broadcast)) \in Nat
      <4>1. CASE broadcast = << >>
        BY <4>1 DEF TypeOK
      <4>2. CASE broadcast # << >>
        <5>1. Head(broadcast) \in Event
          BY <4>2 DEF TypeOK
        <5> QED BY <4>2, <5>1 DEF Event
      <4> QED BY <4>1, <4>2
    <3>2. since \in [Conn -> Nat]
      BY DEF TypeOK
    <3>3. since' = [since EXCEPT ![c] = IF broadcast = << >> THEN published + 1 ELSE Head(broadcast)]
      BY <1>5 DEF HubRegisters
    <3> QED BY <3>1, <3>2, <3>3
  <2>3. registered' \subseteq registered \cup {c} /\ token' \in [Conn -> BOOLEAN]
    BY <1>5 DEF HubRegisters, TypeOK
  <2>4. /\ send' \in [Conn -> Seq(Message)]
        /\ \A d \in Conn : Len(send'[d]) <= SendQueueSize
        /\ \A d \in Conn : d # c => send'[d] = send[d]
    <3>1. [kind |-> "hello"] \in Message
      BY DEF Message
    <3>2. CASE UNCHANGED send
      BY <3>2 DEF TypeOK
    <3>3. CASE /\ Len(send[c]) < SendQueueSize
               /\ send' = [send EXCEPT ![c] = Append(@, [kind |-> "hello"])]
      <4>1. send[c] \in Seq(Message) /\ send \in [Conn -> Seq(Message)]
        BY DEF TypeOK
      <4>2. Append(send[c], [kind |-> "hello"]) \in Seq(Message)
            /\ Len(Append(send[c], [kind |-> "hello"])) = Len(send[c]) + 1
        BY <3>1, <4>1
      <4>3. Len(Append(send[c], [kind |-> "hello"])) <= SendQueueSize
        BY <3>3, <4>1, <4>2
      <4> HIDE <4>1
      <4>4. /\ send' = [send EXCEPT ![c] = Append(send[c], [kind |-> "hello"])]
            /\ \A d \in Conn : Len(send[d]) <= SendQueueSize
        BY <3>3 DEF TypeOK
      <4> QED BY <4>1, <4>2, <4>3, <4>4
    <3> QED BY <1>5, <3>2, <3>3 DEF HubRegisters
  <2>5. TypeOK'
    <3>1. hub' \in {Selecting, [at |-> "stopped"]}
      BY <2>1, HubIsAt
    <3>2. /\ pump' \in [Conn -> {"absent", "registering", "reading", "serving",
                                 "joining", "unregistering", "finished"}]
          /\ writer' \in [Conn -> {"none", "running", "done"}]
          /\ registered' \subseteq Conn
      BY <2>1, <2>3 DEF TypeOK
    <3>3. {open', socket', token', skipped'} \subseteq [Conn -> BOOLEAN]
      BY ZenonT(60), <2>1, <2>3 DEF TypeOK
    <3> QED BY <2>1, <2>2, <2>4, <3>1, <3>2, <3>3 DEF TypeOK
  <2>6. \A d \in registered' : open[d] /\ (~stopping => pump'[d] # "finished")
    BY <2>1, <2>3 DEF TypeOK
  <2> QED BY SMTT(30), <2>1, <2>3, <2>4, <2>5, <2>6 DEF TypeOK
<1>6. ASSUME NEW c \in Conn, HubUnregisters(c) PROVE IndexInv'
  BY <1>6 DEF HubUnregisters, TypeOK
<1>7. ASSUME NEW c \in Conn, HubAnswers(c) PROVE IndexInv'
  <2>1. /\ hub' = hub /\ hub.at = "select" /\ pump[c] = "serving"
        /\ pump' = [pump EXCEPT ![c] = "reading"]
        /\ UNCHANGED <<broadcast, writer, socket, token, written, envVars, history>>
    BY <1>7 DEF HubAnswers
  <2>2. CASE c \notin registered
    BY SMTT(30), <1>7, <2>2 DEF HubAnswers, TypeOK
  <2>3. CASE c \in registered
    <3>1. [kind |-> "reply"] \in Message
      BY DEF Message
    <3>2. SendOrDrop(c, [kind |-> "reply"])
      BY <1>7, <2>3 DEF HubAnswers
    <3> HIDE DEF Selects
    <3>3. TypeOK'
      <4>1. /\ pump' \in [Conn -> {"absent", "registering", "reading", "serving",
                                   "joining", "unregistering", "finished"}]
            /\ hub' \in {Selecting, [at |-> "stopped"]}
        BY <2>1, HubIsAt DEF TypeOK
      <4>2. /\ send' \in [Conn -> Seq(Message)] /\ \A d \in Conn : Len(send'[d]) <= SendQueueSize
            /\ open' \in [Conn -> BOOLEAN] /\ registered' \subseteq Conn
        BY <3>1, <3>2, SendTyped DEF TypeOK
      <4> QED BY SMTT(30), <2>1, <4>1, <4>2 DEF TypeOK
    <3>4. /\ registered' \subseteq registered
          /\ \A d \in Conn : d # c => send'[d] = send[d] /\ open'[d] = open[d]
          /\ open'[c] = open[c] \/ c \notin registered'
      BY <3>1, <3>2, SendTyped
    <3> QED BY SMTT(30), <2>1, <3>3, <3>4 DEF TypeOK
  <2> QED BY <2>2, <2>3
<1>8. ASSUME NEW c \in Conn, HubOffers(c) PROVE IndexInv'
  <2>1. /\ hub.at = "sweep" /\ c \in hub.todo /\ hub.todo \subseteq Conn /\ hub.msg \in Event
        /\ \/ hub' = Selecting
           \/ hub' = [at |-> "sweep", msg |-> hub.msg, todo |-> hub.todo \ {c}]
        /\ UNCHANGED <<broadcast, pump, writer, socket, written, envVars, history>>
    BY <1>8, HubIsAt DEF HubOffers, SweptTo
  <2>2. token' \in [Conn -> BOOLEAN]
    BY <1>8 DEF HubOffers, TypeOK
  <2>3. CASE UNCHANGED <<registered, send, open>>
    <3>1. TypeOK'
      BY SMTT(30), <2>1, <2>2, <2>3 DEF TypeOK
    <3> QED BY <2>1, <2>3, <3>1
  <2>4. CASE SendOrDrop(c, EventMsg(hub.msg))
    <3>1. EventMsg(hub.msg) \in Message
      BY <2>1, EventMsgs
    <3>2. TypeOK'
      <4>1. /\ send' \in [Conn -> Seq(Message)] /\ \A d \in Conn : Len(send'[d]) <= SendQueueSize
            /\ open' \in [Conn -> BOOLEAN] /\ registered' \subseteq Conn
        BY <2>4, <3>1, SendTyped DEF TypeOK
      <4>2. hub' \in {Selecting} \cup [at : {"sweep"}, msg : Event, todo : SUBSET Conn]
        BY <2>1
      <4> QED BY SMTT(30), <2>1, <2>2, <4>1, <4>2 DEF TypeOK
    <3>3. /\ registered' \subseteq registered
          /\ \A d \in registered : d # c => d \in registered'
          /\ \A d \in Conn : d # c => send'[d] = send[d] /\ open'[d] = open[d]
          /\ open'[c] = open[c] \/ c \notin registered'
      BY <2>4, <3>1, SendTyped
    <3>4. c \in registered /\ pump[c] \notin Unstarted
      BY <2>1
    <3>5. SweepsRegistered'
      BY <2>1, <3>3
    <3> QED BY SMTT(30), <2>1, <3>2, <3>3, <3>4, <3>5 DEF TypeOK
  <2> QED BY <1>8, <2>3, <2>4 DEF HubOffers
<1>9. ASSUME NEW c \in Conn, HubCloses(c) PROVE IndexInv'
  <2>1. hub' = [at |-> "closing", on |-> c, todo |-> hub.todo] /\ hub.todo \subseteq Conn
    BY <1>9, HubIsAt DEF HubCloses
  <2>2. hub' \in [at : {"closing"}, on : Conn \cup {NoConn}, todo : SUBSET Conn]
    BY <2>1
  <2>3. socket' \in [Conn -> BOOLEAN]
        /\ UNCHANGED <<registered, broadcast, pump, writer, send, open, token, written, envVars, history>>
    BY <1>9 DEF HubCloses, CloseSocket, TypeOK
  <2>4. TypeOK'
    <3>1. {open', socket', token', skipped'} \subseteq [Conn -> BOOLEAN]
      BY <2>3 DEF TypeOK
    <3> QED BY <2>2, <2>3, <3>1 DEF TypeOK
  <2> QED BY <2>1, <2>3, <2>4
<1>10. ASSUME NEW c \in Conn, HubHasClosed(c) PROVE IndexInv'
  <2>1. hub' = [at |-> "closing", on |-> NoConn, todo |-> hub.todo \ {c}] /\ hub.todo \subseteq Conn
    BY <1>10, HubIsAt DEF HubHasClosed
  <2>2. hub' \in [at : {"closing"}, on : Conn \cup {NoConn}, todo : SUBSET Conn]
    BY <2>1
  <2>3. UNCHANGED <<registered, broadcast, connVars, envVars, history>>
    BY <1>10 DEF HubHasClosed
  <2> QED BY <2>1, <2>2, <2>3 DEF TypeOK
<1> QED BY <1>1, <1>2, <1>3, <1>4, <1>5, <1>6, <1>7, <1>8, <1>9, <1>10 DEF HubActs

LEMMA OthersKeepIndex ==
    ASSUME IndexInv, Publish \/ Stop \/ UNCHANGED vars \/ \E c \in Conn : ConnActs(c)
    PROVE  IndexInv'
<1> USE WebHubAssumption
    DEF IndexInv, IndexIsUsable, ClosedIsForgotten, FinishedIsForgotten, Fresh, SweepsRegistered,
        Unstarted, TypeOK
<1> USE DEF hubVars, connVars, envVars, history
<1>1. CASE Publish
  <2>1. published + 1 \in Event /\ published' = published + 1 /\ published' \in 0..MaxEvents
    BY SMTT(30), <1>1 DEF Publish, Event, MaxEvents
  <2>2. broadcast' \in Seq(Event) /\ Len(broadcast') <= BroadcastQueueSize
    <3>1. CASE UNCHANGED broadcast
      BY <3>1
    <3>2. CASE /\ Len(broadcast) < BroadcastQueueSize
               /\ broadcast' = Append(broadcast, published + 1)
      <4>1. broadcast \in Seq(Event) /\ Len(broadcast) \in Nat
        OBVIOUS
      <4> QED BY <2>1, <3>2, <4>1
    <3> QED BY <1>1, <3>1, <3>2 DEF Publish
  <2>3. UNCHANGED <<hub, registered, connVars, stopping, requests, history>>
    BY <1>1 DEF Publish
  <2> QED BY <2>1, <2>2, <2>3
<1>2. CASE Stop
  BY <1>2 DEF Stop
<1>3. CASE UNCHANGED vars
  BY <1>3 DEF vars
<1>4. ASSUME NEW c \in Conn, Connect(c) PROVE IndexInv'
  BY <1>4 DEF Connect
<1>5. ASSUME NEW c \in Conn, RegisterGivesUp(c) PROVE IndexInv'
  BY <1>5 DEF RegisterGivesUp, StartPump
<1>6. ASSUME NEW c \in Conn, UnregisterGivesUp(c) \/ AnswerGivesUp(c) PROVE IndexInv'
  <2>1. /\ stopping /\ pump[c] \in {"unregistering", "serving"}
        /\ \E at \in {"finished", "reading"} : pump' = [pump EXCEPT ![c] = at]
        /\ UNCHANGED <<hubVars, writer, send, open, socket, token, written, envVars, history>>
    BY <1>6 DEF UnregisterGivesUp, AnswerGivesUp
  <2>2. pump' \in [Conn -> {"absent", "registering", "reading", "serving",
                           "joining", "unregistering", "finished"}]
        /\ pump'[c] \notin Unstarted /\ \A d \in Conn : d # c => pump'[d] = pump[d]
    BY <2>1
  <2> QED BY <2>1, <2>2
<1>7. ASSUME NEW c \in Conn, Request(c) PROVE IndexInv'
  <2>1. /\ pump[c] = "reading" /\ pump' = [pump EXCEPT ![c] = "serving"]
        /\ UNCHANGED <<hubVars, writer, send, open, socket, written, stopping, published, history>>
    BY <1>7 DEF Request
  <2>2. token' \in [Conn -> BOOLEAN] /\ requests' \in 0..MaxRequests
    <3>1. token' \in [Conn -> BOOLEAN]
      BY <1>7 DEF Request
    <3>2. requests < MaxRequests /\ requests' = requests + 1
      BY <1>7 DEF Request
    <3> QED BY <3>1, <3>2
  <2>3. TypeOK'
    BY ZenonT(60), <2>1, <2>2
  <2> QED BY SMTT(30), <2>1, <2>3
<1>8. ASSUME NEW c \in Conn, ReadFails(c) \/ PumpJoins(c) PROVE IndexInv'
  <2>1. /\ pump[c] \in {"reading", "joining"}
        /\ \E at \in {"joining", "unregistering"} : pump' = [pump EXCEPT ![c] = at]
        /\ UNCHANGED <<hubVars, writer, send, open, token, written, envVars, history>>
    BY <1>8 DEF ReadFails, PumpJoins
  <2>2. socket' \in [Conn -> BOOLEAN]
    BY <1>8 DEF ReadFails, PumpJoins, CloseSocket
  <2>3. pump' \in [Conn -> {"absent", "registering", "reading", "serving",
                           "joining", "unregistering", "finished"}]
        /\ pump'[c] \notin Unstarted \cup {"finished"}
        /\ \A d \in Conn : d # c => pump'[d] = pump[d]
    BY <2>1
  <2> QED BY <2>1, <2>2, <2>3
<1>9. ASSUME NEW c \in Conn, WriterTakes(c) PROVE IndexInv'
  <2>1. /\ writer[c] = "running" /\ send[c] # << >> /\ send' = [send EXCEPT ![c] = Tail(@)]
        /\ UNCHANGED <<hubVars, pump, open, token, envVars, since>>
    BY <1>9 DEF WriterTakes
  <2>2. /\ Head(send[c]) \in Message /\ Tail(send[c]) \in Seq(Message)
        /\ Len(Tail(send[c])) <= SendQueueSize
    BY <2>1, TakenEvents
  <2>3. /\ writer' \in [Conn -> {"none", "running", "done"}]
        /\ {socket', skipped'} \subseteq [Conn -> BOOLEAN]
        /\ written' \in [Conn -> Seq(Message)]
        /\ \A d \in Conn : d # c => writer'[d] = writer[d] /\ written'[d] = written[d]
    <3>1. CASE UNCHANGED <<writer, socket, written>> /\ skipped' = [skipped EXCEPT ![c] = TRUE]
      BY <3>1
    <3>2. CASE /\ UNCHANGED <<writer, socket, skipped>>
               /\ written' = [written EXCEPT ![c] = Append(@, Head(send[c]))]
      BY <2>2, <3>2
    <3>3. CASE WriterReturns(c) /\ UNCHANGED <<written, skipped>>
      BY <3>3 DEF WriterReturns, CloseSocket
    <3> QED BY <1>9, <3>1, <3>2, <3>3 DEF WriterTakes
  <2>4. send' \in [Conn -> Seq(Message)] /\ \A d \in Conn : Len(send'[d]) <= SendQueueSize
    BY <2>1, <2>2
  <2>5. \A d \in Conn : d # c => send'[d] = send[d]
    BY <2>1
  <2>6. TypeOK'
    BY SMTT(30), <2>1, <2>3, <2>4
  <2>7. \A d \in Conn : pump[d] \in Unstarted =>
            send'[d] = send[d] /\ written'[d] = written[d] /\ writer'[d] = writer[d]
    BY <2>1, <2>3, <2>5
  <2> QED BY SMTT(30), <2>1, <2>6, <2>7
<1>10. ASSUME NEW c \in Conn, WriterStops(c) PROVE IndexInv'
  BY SMTT(30), <1>10 DEF WriterStops, WriterReturns, CloseSocket
<1> QED BY <1>1, <1>2, <1>3, <1>4, <1>5, <1>6, <1>7, <1>8, <1>9, <1>10 DEF ConnActs

-----------------------------------------------------------------------------
(* The order of events and what is on its way.  Most steps leave all queues *)
(* alone.                                                                  *)
LEMMA Waiting ==
    ASSUME TypeOK
    PROVE  /\ Len(broadcast) \in Nat /\ DOMAIN broadcast = 1..Len(broadcast)
           /\ \A i \in DOMAIN broadcast : broadcast[i] \in Event /\ broadcast[i] \in Nat
<1>1. broadcast \in Seq(Event)
  BY DEF TypeOK
<1>2. /\ Len(broadcast) \in Nat /\ DOMAIN broadcast = 1..Len(broadcast)
      /\ \A i \in DOMAIN broadcast : broadcast[i] \in Event
  BY <1>1
<1> QED BY <1>2, EventsAreNumbers

LEMMA QuietSteps ==
    ASSUME TypeOK, FlowInv,
           UNCHANGED <<broadcast, send, written, published, since, skipped>>,
           stopping => stopping', registered' \subseteq registered,
           \/ hub' = hub
           \/ hub'.at # "sweep" /\ (hub.at = "sweep" => registered' = {}),
           \A d \in Conn : token'[d] => token[d],
           \A d \in Conn : writer'[d] = "running" =>
               writer[d] = "running" \/ (Sent(d) = {} /\ d \notin registered)
    PROVE  FlowInv'
<1>1. \A d \in Conn : Sent(d)' = Sent(d) /\ EventsIn(written[d])' = EventsIn(written[d])
                      /\ EventsIn(send[d])' = EventsIn(send[d]) /\ Leads(d)' = Leads(d)
  BY DEF Sent, EventsIn, Leads
<1>2. Queued'
  BY DEF FlowInv, Queued
<1>3. Behind'
  BY <1>1 DEF FlowInv, Behind
<1>4. InOrder'
  BY <1>1 DEF FlowInv, InOrder
<1>5. HelloLeads'
  BY <1>1 DEF FlowInv, HelloLeads
<1>6. OwedSince'
  BY DEF FlowInv, OwedSince
<1>7. NoSilentGap'
  <2> SUFFICES ASSUME NEW d \in registered',
                      token'[d] /\ ~skipped'[d] /\ writer'[d] = "running" /\ ~stopping'
               PROVE  OnItsWay(d)' = {n \in since'[d]..published' : d \in Audience[n]}
    BY DEF NoSilentGap
  <2>1. d \in registered /\ d \in Conn
        /\ (hub' = hub \/ (hub'.at # "sweep" /\ hub.at # "sweep"))
    BY DEF TypeOK
  <2>2. OnItsWay(d)' = OnItsWay(d)
    BY <1>1, <2>1 DEF OnItsWay
  <2>3. OnItsWay(d) = {n \in since[d]..published : d \in Audience[n]}
    BY <2>1 DEF FlowInv, NoSilentGap
  <2> QED BY <2>2, <2>3
<1> QED BY <1>2, <1>3, <1>4, <1>5, <1>6, <1>7 DEF FlowInv

LEMMA QuietActions ==
    ASSUME IndexInv, FlowInv,
           \/ Stop \/ HubStops \/ HubIsStopped \/ HubPanics \/ UNCHANGED vars
           \/ \E c \in Conn :
                  \/ HubUnregisters(c) \/ HubCloses(c) \/ HubHasClosed(c)
                  \/ Connect(c) \/ RegisterGivesUp(c) \/ UnregisterGivesUp(c) \/ AnswerGivesUp(c)
                  \/ Request(c) \/ ReadFails(c) \/ PumpJoins(c) \/ WriterStops(c)
    PROVE  FlowInv'
<1> USE DEF hubVars, connVars, envVars, history, IndexInv, IndexIsUsable, Selecting, Selects
<1>1. CASE Stop
  BY <1>1, QuietSteps DEF Stop
<1>2. CASE HubStops
  BY <1>2, QuietSteps DEF HubStops
<1>3. CASE HubIsStopped
  BY <1>3, QuietSteps DEF HubIsStopped
<1>4. CASE HubPanics
  BY <1>4, QuietSteps DEF HubPanics
<1>5. CASE UNCHANGED vars
  BY <1>5, QuietSteps DEF vars
<1>6. ASSUME NEW c \in Conn, HubUnregisters(c) PROVE FlowInv'
  BY <1>6, QuietSteps DEF HubUnregisters
<1>7. ASSUME NEW c \in Conn, HubCloses(c) PROVE FlowInv'
  <2>1. hub.at # "sweep" /\ hub'.at # "sweep"
    BY <1>7, HubIsAt DEF HubCloses
  <2> QED BY <1>7, <2>1, QuietSteps DEF HubCloses
<1>8. ASSUME NEW c \in Conn, HubHasClosed(c) PROVE FlowInv'
  <2>1. hub.at # "sweep" /\ hub'.at # "sweep"
    BY <1>8, HubIsAt DEF HubHasClosed
  <2> QED BY <1>8, <2>1, QuietSteps DEF HubHasClosed
<1>9. ASSUME NEW c \in Conn, Connect(c) \/ UnregisterGivesUp(c) \/ AnswerGivesUp(c) PROVE FlowInv'
  <2>1. UNCHANGED <<hubVars, writer, send, open, socket, token, written, envVars, history>>
    BY <1>9 DEF Connect, UnregisterGivesUp, AnswerGivesUp
  <2> QED BY <2>1, QuietSteps
<1>10. ASSUME NEW c \in Conn, RegisterGivesUp(c) PROVE FlowInv'
  <2>1. c \notin registered /\ Sent(c) = {}
    BY <1>10, NoEvents DEF RegisterGivesUp, Fresh, Unstarted, Sent
  <2>2. /\ writer' = [writer EXCEPT ![c] = "running"]
        /\ UNCHANGED <<hubVars, send, open, socket, token, written, envVars, history>>
    BY <1>10 DEF RegisterGivesUp, StartPump
  <2>3. \A d \in Conn : d # c => writer'[d] = writer[d]
    BY <2>2 DEF TypeOK
  <2> QED BY <2>1, <2>2, <2>3, QuietSteps
<1>11. ASSUME NEW c \in Conn, Request(c) PROVE FlowInv'
  <2>1. \A d \in Conn : token'[d] => token[d]
    BY <1>11 DEF Request, TypeOK
  <2>2. UNCHANGED <<hubVars, writer, send, open, socket, written, stopping, published, history>>
    BY <1>11 DEF Request
  <2> QED BY <2>1, <2>2, QuietSteps
<1>12. ASSUME NEW c \in Conn, ReadFails(c) \/ PumpJoins(c) PROVE FlowInv'
  <2>1. UNCHANGED <<hubVars, writer, send, open, token, written, envVars, history>>
    BY <1>12 DEF ReadFails, PumpJoins
  <2> QED BY <2>1, QuietSteps
<1>13. ASSUME NEW c \in Conn, WriterStops(c) PROVE FlowInv'
  <2>1. \A d \in Conn : writer'[d] = "running" => writer[d] = "running"
    BY <1>13 DEF WriterStops, WriterReturns, TypeOK
  <2>2. UNCHANGED <<hubVars, pump, send, open, token, written, envVars, history>>
    BY <1>13 DEF WriterStops
  <2> QED BY <2>1, <2>2, QuietSteps
<1> QED BY <1>1, <1>2, <1>3, <1>4, <1>5, <1>6, <1>7, <1>8, <1>9, <1>10, <1>11, <1>12, <1>13

LEMMA InitFlow == Init => FlowInv
<1> SUFFICES ASSUME Init PROVE FlowInv
  OBVIOUS
<1>1. \A c \in Conn : send[c] = << >> /\ written[c] = << >> /\ Sent(c) = {} /\ writer[c] = "none"
  BY NoEvents DEF Init, Sent
<1>2. broadcast = << >> /\ registered = {} /\ DOMAIN broadcast = {} /\ hub.at # "sweep"
  BY DEF Init, Selecting
<1>3. Queued /\ OwedSince /\ NoSilentGap
  BY <1>2 DEF Queued, OwedSince, NoSilentGap
<1>4. Behind /\ InOrder /\ HelloLeads
  BY <1>1, NoEvents DEF Behind, InOrder, HelloLeads
<1> QED BY <1>3, <1>4 DEF FlowInv

(* An event is published: the latest of all, at the end of the queue.      *)
LEMMA PublishFlow == ASSUME IndexInv, FlowInv, Publish PROVE FlowInv'
<1> USE WebHubAssumption DEF IndexInv, IndexIsUsable
<1>1. /\ published \in Nat /\ published + 1 \in Event /\ published' = published + 1
      /\ UNCHANGED <<hub, registered, connVars, stopping, history>>
  <2>1. MaxEvents \in Nat /\ published \in 0..MaxEvents
    BY DEF MaxEvents, TypeOK
  <2>2. /\ published < MaxEvents /\ published' = published + 1
        /\ UNCHANGED <<hub, registered, connVars, stopping, history>>
    BY DEF Publish
  <2> QED BY <2>1, <2>2 DEF Event
<1>2. \A d \in Conn : Sent(d)' = Sent(d) /\ EventsIn(written[d])' = EventsIn(written[d])
                      /\ EventsIn(send[d])' = EventsIn(send[d]) /\ Leads(d)' = Leads(d)
                      /\ Sent(d) \subseteq Event
  BY <1>1 DEF Sent, EventsIn, Leads, connVars
<1>3. InOrder' /\ HelloLeads'
  BY <1>1, <1>2 DEF FlowInv, InOrder, HelloLeads, connVars
<1>4. OwedSince'
  BY <1>1 DEF FlowInv, OwedSince, history, TypeOK
<1>5. CASE UNCHANGED broadcast /\ stopping
  <2>1. Queued'
    <3>1. broadcast' = broadcast /\ hub' = hub /\ stopping'
      BY <1>1, <1>5
    <3>2. \A i \in DOMAIN broadcast : broadcast[i] \in Nat
      BY Waiting
    <3>3. \A i \in DOMAIN broadcast : broadcast[i] <= published + 1
      BY <1>1, <3>2 DEF FlowInv, Queued
    <3>4. hub.at = "sweep" => hub.msg <= published + 1
      BY <1>1, HubIsAt DEF FlowInv, Queued, Event
    <3> QED BY <1>1, <3>1, <3>3, <3>4 DEF FlowInv, Queued
  <2>2. Behind'
    BY <1>1, <1>2, <1>5 DEF FlowInv, Behind, Event
  <2>3. NoSilentGap'
    BY <1>1, <1>5 DEF NoSilentGap
  <2> QED BY <1>3, <1>4, <2>1, <2>2, <2>3 DEF FlowInv
<1>6. CASE broadcast' = Append(broadcast, published + 1)
  <2>1. /\ Len(broadcast) \in Nat /\ Len(broadcast') = Len(broadcast) + 1
        /\ DOMAIN broadcast = 1..Len(broadcast) /\ DOMAIN broadcast' = 1..(Len(broadcast) + 1)
        /\ broadcast'[Len(broadcast) + 1] = published + 1
        /\ \A i \in 1..Len(broadcast) : broadcast'[i] = broadcast[i] /\ broadcast[i] \in Nat
    <3>1. broadcast \in Seq(Event)
      BY DEF TypeOK
    <3>2. \A i \in 1..Len(broadcast) : broadcast[i] \in Nat
      BY Waiting
    <3> QED BY <1>1, <1>6, <3>1, <3>2
  <2>2. hub.at = "sweep" => hub.msg \in Nat /\ hub.msg <= published
    BY HubIsAt DEF FlowInv, Queued, Event
  <2>3. Queued'
    <3>1. ASSUME NEW i \in DOMAIN broadcast', NEW j \in DOMAIN broadcast', i < j
          PROVE  broadcast'[i] < broadcast'[j]
      BY <1>1, <2>1, <3>1 DEF FlowInv, Queued
    <3>2. ASSUME NEW i \in DOMAIN broadcast'
          PROVE  /\ broadcast'[i] <= published + 1
                 /\ hub.at = "sweep" => hub.msg < broadcast'[i]
                 /\ ~stopping => broadcast'[i] = ((published + 1) - Len(broadcast')) + i
      <4>1. CASE i = Len(broadcast) + 1
        BY <1>1, <2>1, <2>2, <4>1
      <4>2. CASE i \in 1..Len(broadcast)
        <5>1. /\ broadcast[i] <= published
              /\ hub.at = "sweep" => hub.msg < broadcast[i]
              /\ ~stopping => broadcast[i] = (published - Len(broadcast)) + i
          BY <2>1, <4>2 DEF FlowInv, Queued
        <5> QED BY <1>1, <2>1, <4>2, <5>1
      <4> QED BY <2>1, <4>1, <4>2
    <3>3. hub.at = "sweep" => hub.msg <= published + 1
      BY <1>1, <2>2
    <3> QED BY <1>1, <3>1, <3>2, <3>3 DEF Queued
  <2>4. Behind'
    BY <1>1, <1>2, <2>1 DEF FlowInv, Behind, Event
  <2>5. NoSilentGap'
    <3> SUFFICES ASSUME NEW d \in registered,
                        token[d] /\ ~skipped[d] /\ writer[d] = "running" /\ ~stopping
                 PROVE  OnItsWay(d)' = {n \in since[d]..(published + 1) : d \in Audience[n]}
      BY <1>1 DEF NoSilentGap, connVars, history
    <3>1. OnItsWay(d) = {n \in since[d]..published : d \in Audience[n]}
      BY DEF FlowInv, NoSilentGap
    <3>2. since[d] \in Nat /\ since[d] <= published + 1
      BY DEF FlowInv, OwedSince, TypeOK
    <3>3. ASSUME NEW n \in Event
          PROVE  (\E k \in DOMAIN broadcast' : broadcast'[k] = n)
                 <=> (\E k \in DOMAIN broadcast : broadcast[k] = n) \/ n = published + 1
      BY <2>1
    <3>4. d \in Conn
      BY DEF TypeOK
    <3>5. OnItsWay(d)' = OnItsWay(d) \cup {n \in {published + 1} : d \in Audience[n]}
      BY <1>1, <1>2, <3>3, <3>4 DEF OnItsWay
    <3> QED BY <1>1, <3>1, <3>2, <3>5
  <2> QED BY <1>3, <1>4, <2>3, <2>4, <2>5 DEF FlowInv
<1> QED BY <1>5, <1>6 DEF Publish

(* The hub takes an event: from the head of the queue into the broadcast.  *)
LEMMA TakesFlow == ASSUME IndexInv, FlowInv, HubTakes PROVE FlowInv'
<1> USE DEF IndexInv, IndexIsUsable
<1> DEFINE msg == Head(broadcast)
<1>1. /\ hub.at = "select" /\ Len(broadcast) > 0 /\ broadcast' = Tail(broadcast)
      /\ \/ hub' = Selecting /\ Audience[msg] \cap registered = {}
         \/ hub' = [at |-> "sweep", msg |-> msg, todo |-> Audience[msg] \cap registered]
      /\ UNCHANGED <<registered, connVars, envVars, history>>
  BY DEF HubTakes, Selects, TypeOK
<1>2. /\ Len(broadcast) \in Nat /\ DOMAIN broadcast = 1..Len(broadcast)
      /\ Len(broadcast') = Len(broadcast) - 1 /\ DOMAIN broadcast' = 1..(Len(broadcast) - 1)
      /\ msg = broadcast[1] /\ msg \in Event /\ msg \in Nat
      /\ \A i \in DOMAIN broadcast' : broadcast'[i] = broadcast[i + 1] /\ broadcast'[i] \in Nat
  <2>1. Len(broadcast) \in Nat /\ DOMAIN broadcast = 1..Len(broadcast)
        /\ \A i \in DOMAIN broadcast : broadcast[i] \in Event /\ broadcast[i] \in Nat
    BY Waiting
  <2>2. /\ Len(broadcast') = Len(broadcast) - 1 /\ DOMAIN broadcast' = 1..(Len(broadcast) - 1)
        /\ msg = broadcast[1]
        /\ \A i \in 1..(Len(broadcast) - 1) : broadcast'[i] = broadcast[i + 1]
    BY <1>1 DEF TypeOK
  <2> QED BY <1>1, <2>1, <2>2
<1> HIDE DEF msg
<1>3. published \in Nat
  BY DEF TypeOK
<1>4. \A d \in Conn : Sent(d)' = Sent(d) /\ EventsIn(written[d])' = EventsIn(written[d])
                      /\ EventsIn(send[d])' = EventsIn(send[d]) /\ Leads(d)' = Leads(d)
                      /\ Sent(d) \subseteq Event
  BY <1>1 DEF Sent, EventsIn, Leads, connVars
<1>5. Queued'
  <2>1. \A i \in DOMAIN broadcast' : msg < broadcast'[i]
    BY <1>1, <1>2 DEF FlowInv, Queued
  <2>2. \A i \in DOMAIN broadcast' :
            /\ broadcast'[i] <= published
            /\ ~stopping => broadcast'[i] = (published - Len(broadcast')) + i
    <3> SUFFICES ASSUME NEW i \in DOMAIN broadcast'
                 PROVE  /\ broadcast'[i] <= published
                        /\ ~stopping => broadcast'[i] = (published - Len(broadcast')) + i
      OBVIOUS
    <3>1. /\ i + 1 \in DOMAIN broadcast /\ broadcast'[i] = broadcast[i + 1]
          /\ Len(broadcast') = Len(broadcast) - 1 /\ i \in Nat
      BY <1>2
    <3>2. /\ broadcast[i + 1] <= published
          /\ ~stopping => broadcast[i + 1] = (published - Len(broadcast)) + (i + 1)
      BY <3>1 DEF FlowInv, Queued
    <3> QED BY <1>2, <1>3, <3>1, <3>2
  <2>3. \A i, j \in DOMAIN broadcast' : i < j => broadcast'[i] < broadcast'[j]
    BY <1>1, <1>2 DEF FlowInv, Queued
  <2>4. msg <= published
    BY <1>1, <1>2 DEF FlowInv, Queued
  <2>5. hub'.at = "sweep" => hub'.msg = msg
    BY <1>1 DEF Selecting
  <2>6. UNCHANGED <<stopping, published>>
    BY <1>1 DEF envVars
  <2>7. hub'.at = "sweep" => hub'.msg <= published'
    BY <2>4, <2>5, <2>6
  <2>8. \A i \in DOMAIN broadcast' :
            /\ broadcast'[i] <= published'
            /\ hub'.at = "sweep" => hub'.msg < broadcast'[i]
            /\ ~stopping' => broadcast'[i] = (published' - Len(broadcast')) + i
    BY <2>1, <2>2, <2>5, <2>6
  <2> QED BY <2>3, <2>7, <2>8 DEF Queued
<1>6. Behind'
  <2>1. \A d \in Conn : \A n \in Sent(d) : n < msg /\ \A i \in DOMAIN broadcast' : n < broadcast'[i]
    BY <1>1, <1>2 DEF FlowInv, Behind
  <2> QED BY <1>1, <1>4, <2>1 DEF FlowInv, Behind, envVars, Selecting
<1>7. InOrder' /\ HelloLeads' /\ OwedSince'
  BY <1>1, <1>4 DEF FlowInv, InOrder, HelloLeads, OwedSince, connVars, envVars, history
<1>8. NoSilentGap'
  <2> SUFFICES ASSUME NEW d \in registered,
                      token[d] /\ ~skipped[d] /\ writer[d] = "running" /\ ~stopping
               PROVE  OnItsWay(d)' = {n \in since[d]..published : d \in Audience[n]}
    BY <1>1 DEF NoSilentGap, connVars, envVars, history
  <2>1. OnItsWay(d) = {n \in since[d]..published : d \in Audience[n]}
    BY DEF FlowInv, NoSilentGap
  <2>2. ASSUME NEW n \in Event
        PROVE  (\E k \in DOMAIN broadcast : broadcast[k] = n)
               <=> (\E k \in DOMAIN broadcast' : broadcast'[k] = n) \/ n = msg
    <3>1. ASSUME NEW k \in DOMAIN broadcast, broadcast[k] = n, n # msg
          PROVE  \E i \in DOMAIN broadcast' : broadcast'[i] = n
      <4>1. k - 1 \in DOMAIN broadcast' /\ (k - 1) + 1 = k
        BY <1>2, <3>1
      <4> QED BY <1>2, <3>1, <4>1
    <3> QED BY <1>1, <1>2, <3>1
  <2>3. d \in Conn
    BY DEF TypeOK
  <2>4. ASSUME NEW n \in Event, d \in Audience[n]
        PROVE  (hub'.at = "sweep" /\ d \in hub'.todo /\ hub'.msg = n) <=> n = msg
    BY <1>1, <2>4 DEF Selecting
  <2>5. OnItsWay(d)' = OnItsWay(d)
    BY <1>1, <1>4, <2>2, <2>3, <2>4 DEF OnItsWay
  <2> QED BY <2>1, <2>5
<1> QED BY <1>5, <1>6, <1>7, <1>8 DEF FlowInv

(* A connection registers, with an empty channel: the hello is the first   *)
(* thing in it, and all it is owed waits in h.broadcast or is to come.     *)
LEMMA RegistersFlow == ASSUME IndexInv, FlowInv, NEW c \in Conn, HubRegisters(c) PROVE FlowInv'
<1> USE DEF IndexInv, IndexIsUsable
<1> DEFINE hello == [kind |-> "hello"]
<1>1. /\ hub.at = "select" /\ pump[c] = "registering"
      /\ writer' = [writer EXCEPT ![c] = "running"]
      /\ since' = [since EXCEPT ![c] = IF broadcast = << >> THEN published + 1 ELSE Head(broadcast)]
      /\ \/ /\ send' = [send EXCEPT ![c] = Append(@, hello)]
            /\ registered' = registered \cup {c} /\ UNCHANGED token
         \/ /\ token' = [token EXCEPT ![c] = FALSE]
            /\ registered' = registered \cup {c} /\ UNCHANGED send
         \/ registered' = {} /\ UNCHANGED <<send, token>>
      /\ UNCHANGED <<hub, broadcast, written, stopping, published, skipped>>
  BY DEF HubRegisters, Selects, StartPump, envVars
<1>2. send[c] = << >> /\ written[c] = << >> /\ c \notin registered
      /\ EventsIn(send[c]) = {} /\ EventsIn(written[c]) = {}
  BY <1>1, NoEvents DEF Fresh, Unstarted
<1>3. /\ EventsIn(send'[c]) = {} /\ Ordered(send'[c])
      /\ \/ send'[c] # << >> /\ send'[c][1].kind = "hello"
         \/ ~token'[c]
         \/ c \notin registered'
      /\ \A d \in Conn : d # c => send'[d] = send[d]
      /\ \A d \in Conn : token'[d] => token[d]
  <2>1. hello \in Message /\ EventOf(hello) = {}
    BY OtherMsgs
  <2>2. CASE /\ UNCHANGED send
             /\ \/ registered' = {} /\ UNCHANGED token
                \/ token' = [token EXCEPT ![c] = FALSE]
    <3>1. \A d \in Conn : token'[d] => token[d]
      BY <2>2 DEF TypeOK
    <3>2. ~token'[c] \/ c \notin registered'
      BY <2>2 DEF TypeOK
    <3> QED BY <1>2, <2>2, <3>1, <3>2, NoEvents
  <2>3. CASE send' = [send EXCEPT ![c] = Append(@, hello)] /\ UNCHANGED token
    <3>1. send'[c] = Append(<< >>, hello) /\ << >> \in Seq(Message)
          /\ \A d \in Conn : d # c => send'[d] = send[d]
      BY <1>2, <2>3 DEF TypeOK
    <3>2. EventsIn(send'[c]) = {} /\ Ordered(send'[c])
      BY <2>1, <3>1, NoEvents, AppendEvents
    <3>3. send'[c] # << >> /\ send'[c][1] = hello
      BY <3>1
    <3> QED BY <2>3, <3>1, <3>2, <3>3
  <2> QED BY <1>1, <2>2, <2>3
<1>4. \A d \in Conn : /\ EventsIn(written[d])' = EventsIn(written[d])
                      /\ EventsIn(send[d])' = EventsIn(send[d]) /\ Sent(d)' = Sent(d)
                      /\ d # c => Leads(d)' = Leads(d)
  <2>1. \A d \in Conn : EventsIn(send'[d]) = EventsIn(send[d])
    BY <1>2, <1>3
  <2>2. \A d \in Conn : EventsIn(written[d])' = EventsIn(written[d])
                        /\ EventsIn(send[d])' = EventsIn(send[d])
    BY <1>1, <2>1 DEF EventsIn
  <2> QED BY <1>1, <1>3, <2>2 DEF Sent, Leads
<1>5. Queued' /\ Behind'
  BY <1>1, <1>4 DEF FlowInv, Queued, Behind
<1>6. InOrder'
  <2>1. \A d \in Conn : Ordered(send'[d]) /\ Ordered(written'[d])
    BY <1>1, <1>3 DEF FlowInv, InOrder
  <2> QED BY <1>4, <2>1 DEF FlowInv, InOrder, Ordered
<1>7. HelloLeads'
  <2> SUFFICES ASSUME NEW d \in Conn
               PROVE  /\ writer'[d] = "running" /\ (Sent(d)' # {} \/ (d \in registered' /\ token'[d]))
                             => Leads(d)'
                      /\ EventsIn(written[d])' # {} => written'[d] # << >> /\ written'[d][1].kind = "hello"
    BY DEF HelloLeads
  <2>1. CASE d = c
    <3>1. Sent(c)' = {} /\ written'[c] = << >>
      BY <1>1, <1>2, <1>4 DEF Sent
    <3> QED BY <1>2, <1>3, <1>4, <2>1, <3>1 DEF Leads
  <2>2. CASE d # c
    <3>1. writer'[d] = writer[d] /\ (d \in registered' => d \in registered)
      BY <1>1, <2>2 DEF TypeOK
    <3> QED BY <1>1, <1>3, <1>4, <2>2, <3>1 DEF FlowInv, HelloLeads
  <2> QED BY <2>1, <2>2
<1>8. /\ c \in registered' => since'[c] = IF broadcast = << >> THEN published + 1 ELSE broadcast[1]
      /\ \A d \in registered' : d # c => d \in registered /\ since'[d] = since[d] /\ writer'[d] = writer[d]
      /\ registered' \subseteq Conn
  <2>1. broadcast # << >> => Head(broadcast) = broadcast[1]
    OBVIOUS
  <2> QED BY <1>1, <2>1 DEF TypeOK
<1>9. broadcast # << >> => 1 \in DOMAIN broadcast
  BY Waiting DEF TypeOK
<1>10. published \in Nat
  BY DEF TypeOK
<1>11. OwedSince'
  <2>1. broadcast # << >> => broadcast[1] <= published /\ broadcast[1] \in Nat
    BY <1>9, Waiting DEF FlowInv, Queued
  <2> QED BY <1>1, <1>8, <1>10, <2>1 DEF FlowInv, OwedSince
<1>12. NoSilentGap'
  <2> SUFFICES ASSUME NEW d \in registered',
                      token'[d] /\ ~skipped'[d] /\ writer'[d] = "running" /\ ~stopping
               PROVE  OnItsWay(d)' = {n \in since'[d]..published : d \in Audience[n]}
    BY <1>1 DEF NoSilentGap
  <2>1. d \in Conn
    BY <1>8
  <2>2. CASE d # c
    <3>1. OnItsWay(d)' = OnItsWay(d)
      BY <1>1, <1>4, <2>1 DEF OnItsWay
    <3>2. d \in registered /\ since'[d] = since[d] /\ writer'[d] = writer[d] /\ token[d] /\ ~skipped[d]
      BY <1>1, <1>3, <1>8, <2>1, <2>2
    <3> QED BY <3>1, <3>2 DEF FlowInv, NoSilentGap
  <2>3. CASE d = c
    <3>1. OnItsWay(c)' = {n \in Event : c \in Audience[n] /\ \E k \in DOMAIN broadcast : broadcast[k] = n}
      BY <1>1, <1>2, <1>4 DEF OnItsWay
    <3>2. ASSUME NEW n \in Event PROVE (\E k \in DOMAIN broadcast : broadcast[k] = n) <=> n \in since'[c]..published
      <4>0. n \in Nat
        BY EventsAreNumbers
      <4>1. CASE broadcast = << >>
        BY <1>8, <1>10, <2>3, <4>0, <4>1
      <4>2. CASE broadcast # << >>
        <5>1. /\ Len(broadcast) \in Nat /\ Len(broadcast) > 0 /\ DOMAIN broadcast = 1..Len(broadcast)
              /\ \A k \in DOMAIN broadcast : broadcast[k] = (published - Len(broadcast)) + k
          BY SMTT(30), <4>2, Waiting DEF FlowInv, Queued, TypeOK
        <5>2. since'[c] = (published - Len(broadcast)) + 1
          BY <1>8, <2>3, <4>2, <5>1
        <5>3. ASSUME n \in since'[c]..published PROVE \E k \in DOMAIN broadcast : broadcast[k] = n
          <6>1. n - (published - Len(broadcast)) \in DOMAIN broadcast
            BY <1>10, <4>0, <5>1, <5>2, <5>3
          <6>2. broadcast[n - (published - Len(broadcast))]
                    = (published - Len(broadcast)) + (n - (published - Len(broadcast)))
            BY <5>1, <6>1
          <6>3. broadcast[n - (published - Len(broadcast))] = n
            BY <1>10, <4>0, <5>1, <6>2
          <6> QED BY <6>1, <6>3
        <5>4. ASSUME NEW k \in DOMAIN broadcast, broadcast[k] = n PROVE n \in since'[c]..published
          BY <1>10, <4>0, <5>1, <5>2, <5>4
        <5> QED BY <5>3, <5>4
      <4> QED BY <4>1, <4>2
    <3>3. \A n \in since'[c]..published : n \in Event
      <4>1. broadcast # << >> => broadcast[1] \in Event
        BY <1>9, Waiting
      <4>2. published <= MaxEvents
        BY DEF TypeOK
      <4> QED BY <1>8, <1>10, <2>3, <4>1, <4>2, EventsAreNumbers DEF Event
    <3> QED BY <2>3, <3>1, <3>2, <3>3
  <2> QED BY <2>2, <2>3
<1> QED BY <1>5, <1>6, <1>7, <1>11, <1>12 DEF FlowInv

(* A message is put into the channel of c, or c is dropped: an answer, or  *)
(* the event of the broadcast.                                             *)
LEMMA SentInto ==
    ASSUME TypeOK, NEW c \in Conn, NEW msg \in Message, SendOrDrop(c, msg), UNCHANGED written
    PROVE  /\ \A d \in Conn : d # c => /\ Sent(d)' = Sent(d) /\ EventsIn(send[d])' = EventsIn(send[d])
                                       /\ Leads(d)' = Leads(d) /\ send'[d] = send[d]
           /\ \A d \in Conn : EventsIn(written[d])' = EventsIn(written[d])
           /\ Leads(c) => Leads(c)'
           /\ EventsIn(send[c]) \subseteq EventsIn(send[c])'
           /\ EventsIn(send[c])' \subseteq EventsIn(send[c]) \cup EventOf(msg)
           /\ Sent(c) \subseteq Sent(c)' /\ Sent(c)' \subseteq Sent(c) \cup EventOf(msg)
           /\ c \in registered' => EventsIn(send[c])' = EventsIn(send[c]) \cup EventOf(msg)
           /\ Ordered(send[c]) /\ (\A m \in EventsIn(send[c]), n \in EventOf(msg) : m < n)
                  => Ordered(send'[c])
<1>1. /\ \A d \in Conn : d # c => send'[d] = send[d]
      /\ \/ send'[c] = Append(send[c], msg)
         \/ send' = send /\ c \notin registered'
  BY SendTyped
<1>2. \A d \in Conn : EventsIn(written[d])' = EventsIn(written[d])
  BY DEF EventsIn
<1>3. \A d \in Conn : d # c => /\ Sent(d)' = Sent(d) /\ EventsIn(send[d])' = EventsIn(send[d])
                               /\ Leads(d)' = Leads(d)
  BY <1>1, <1>2 DEF Sent, EventsIn, Leads
<1>4. EventsIn(send[c])' = EventsIn(send'[c])
  BY DEF EventsIn
<1>5. CASE send' = send /\ c \notin registered'
  BY <1>1, <1>2, <1>3, <1>4, <1>5 DEF Sent, Leads
<1>6. CASE send'[c] = Append(send[c], msg)
  <2>1. send[c] \in Seq(Message)
    BY DEF TypeOK
  <2>2. /\ EventsIn(send'[c]) = EventsIn(send[c]) \cup EventOf(msg)
        /\ Ordered(send[c]) /\ (\A m \in EventsIn(send[c]), n \in EventOf(msg) : m < n)
                  => Ordered(send'[c])
    BY <1>6, <2>1, AppendEvents
  <2>3. send[c] # << >> => send'[c] # << >> /\ send'[c][1] = send[c][1]
    BY <1>6, <2>1
  <2> QED BY <1>1, <1>2, <1>3, <1>4, <2>2, <2>3 DEF Sent, Leads
<1> QED BY <1>1, <1>5, <1>6

LEMMA AnswersFlow == ASSUME IndexInv, FlowInv, NEW c \in Conn, HubAnswers(c) PROVE FlowInv'
<1> USE DEF IndexInv, IndexIsUsable
<1>1. /\ hub.at = "select"
      /\ UNCHANGED <<hub, broadcast, writer, token, written, stopping, published, since, skipped>>
  BY DEF HubAnswers, Selects, envVars, history
<1>2. CASE c \notin registered
  <2>1. UNCHANGED <<registered, send>>
    BY <1>2 DEF HubAnswers
  <2> QED BY <1>1, <2>1, QuietSteps
<1>3. CASE c \in registered
  <2> DEFINE reply == [kind |-> "reply"]
  <2>1. SendOrDrop(c, reply) /\ reply \in Message /\ EventOf(reply) = {} /\ UNCHANGED written
    BY <1>1, <1>3, OtherMsgs DEF HubAnswers
  <2>2. registered' \subseteq registered
    BY <2>1, SendTyped
  <2> HIDE DEF reply
  <2>3. \A d \in Conn : /\ Sent(d)' = Sent(d) /\ EventsIn(send[d])' = EventsIn(send[d])
                        /\ EventsIn(written[d])' = EventsIn(written[d])
                        /\ Leads(d) => Leads(d)'
    BY <2>1, SentInto
  <2>4. Queued' /\ Behind' /\ HelloLeads' /\ OwedSince'
    BY <1>1, <2>2, <2>3 DEF FlowInv, Queued, Behind, HelloLeads, OwedSince
  <2>5. InOrder'
    <3>1. \A d \in Conn : Ordered(send'[d]) /\ Ordered(written'[d])
      BY <1>1, <2>1, SentInto DEF FlowInv, InOrder
    <3> QED BY <2>3, <3>1 DEF FlowInv, InOrder, Ordered
  <2>6. NoSilentGap'
    <3>1. \A d \in Conn : OnItsWay(d)' = OnItsWay(d)
      BY <1>1, <2>3 DEF OnItsWay
    <3>2. registered' \subseteq Conn
      BY <2>2 DEF TypeOK
    <3> QED BY <1>1, <2>2, <3>1, <3>2 DEF FlowInv, NoSilentGap
  <2> QED BY <2>4, <2>5, <2>6 DEF FlowInv
<1> QED BY <1>2, <1>3

(* One connection of a broadcast gets the event, which is later than all   *)
(* it has, or is no longer owed anything.                                  *)
LEMMA OffersFlow == ASSUME IndexInv, FlowInv, NEW c \in Conn, HubOffers(c) PROVE FlowInv'
<1> USE DEF IndexInv, IndexIsUsable
<1>1. /\ hub.at = "sweep" /\ c \in hub.todo /\ hub.msg \in Event /\ c \in registered
      /\ \/ hub' = Selecting /\ hub.todo = {c}
         \/ hub' = [at |-> "sweep", msg |-> hub.msg, todo |-> hub.todo \ {c}]
      /\ UNCHANGED <<broadcast, pump, writer, socket, written, envVars, history>>
  BY HubIsAt DEF HubOffers, SweptTo, SweepsRegistered
<1>2. CASE token[c] /\ SendOrDrop(c, EventMsg(hub.msg)) /\ UNCHANGED token
  <2>1. /\ EventMsg(hub.msg) \in Message /\ EventOf(EventMsg(hub.msg)) = {hub.msg}
        /\ UNCHANGED written
    BY <1>1, EventMsgs
  <2>2. registered' \subseteq registered
    BY <1>2, <2>1, SendTyped
  <2>3. /\ \A d \in Conn : d # c => /\ Sent(d)' = Sent(d) /\ EventsIn(send[d])' = EventsIn(send[d])
                                    /\ Leads(d)' = Leads(d) /\ send'[d] = send[d]
        /\ \A d \in Conn : EventsIn(written[d])' = EventsIn(written[d])
        /\ Leads(c) => Leads(c)'
        /\ EventsIn(send[c])' \subseteq EventsIn(send[c]) \cup {hub.msg}
        /\ Sent(c) \subseteq Sent(c)' /\ Sent(c)' \subseteq Sent(c) \cup {hub.msg}
        /\ c \in registered' => EventsIn(send[c])' = EventsIn(send[c]) \cup {hub.msg}
        /\ Ordered(send[c]) /\ (\A m \in EventsIn(send[c]) : m < hub.msg) => Ordered(send'[c])
    BY <1>2, <2>1, SentInto
  <2>4. \A m \in Sent(c) : m < hub.msg
    BY <1>1 DEF FlowInv, Behind
  <2>5. Queued'
    BY <1>1 DEF FlowInv, Queued, envVars, Selecting
  <2>6. Behind'
    <3> SUFFICES ASSUME NEW d \in Conn, NEW n \in Sent(d)'
                 PROVE  /\ n <= published
                        /\ \A i \in DOMAIN broadcast : n < broadcast[i]
                        /\ hub'.at = "sweep" /\ d \in hub'.todo => n < hub'.msg
      BY <1>1 DEF Behind, envVars
    <3>1. CASE n \in Sent(d)
      BY <1>1, <3>1 DEF FlowInv, Behind, Selecting
    <3>2. CASE d = c /\ n = hub.msg
      BY <1>1, <3>2 DEF FlowInv, Queued, Selecting
    <3> QED BY <2>3, <3>1, <3>2
  <2>7. InOrder'
    <3>1. \A d \in Conn : Ordered(send'[d])
      BY <2>3, <2>4 DEF FlowInv, InOrder, Sent
    <3>2. \A d \in Conn : \A m \in EventsIn(written[d])', n \in EventsIn(send[d])' : m < n
      BY <2>3, <2>4 DEF FlowInv, InOrder, Sent
    <3> QED BY <1>1, <3>1, <3>2 DEF FlowInv, InOrder, Ordered
  <2>8. HelloLeads'
    <3> SUFFICES ASSUME NEW d \in Conn
                 PROVE  /\ writer[d] = "running" /\ (Sent(d)' # {} \/ (d \in registered' /\ token[d]))
                               => Leads(d)'
                        /\ EventsIn(written[d])' # {} => written[d] # << >> /\ written[d][1].kind = "hello"
      BY <1>1, <1>2 DEF HelloLeads
    <3> QED BY <1>1, <1>2, <2>2, <2>3 DEF FlowInv, HelloLeads
  <2>9. OwedSince'
    BY <1>1, <2>2 DEF FlowInv, OwedSince, envVars, history
  <2>10. NoSilentGap'
    <3> SUFFICES ASSUME NEW d \in registered',
                        token[d] /\ ~skipped[d] /\ writer[d] = "running" /\ ~stopping
                 PROVE  OnItsWay(d)' = {n \in since[d]..published : d \in Audience[n]}
      BY <1>1, <1>2 DEF NoSilentGap, envVars, history
    <3>1. d \in registered /\ d \in Conn
      BY <2>2 DEF TypeOK
    <3>2. OnItsWay(d) = {n \in since[d]..published : d \in Audience[n]}
      BY <3>1 DEF FlowInv, NoSilentGap
    <3>3. CASE d # c
      <4>1. ASSUME NEW n \in Event
            PROVE  (hub'.at = "sweep" /\ d \in hub'.todo /\ hub'.msg = n)
                   <=> (hub.at = "sweep" /\ d \in hub.todo /\ hub.msg = n)
        BY <1>1, <3>3 DEF Selecting
      <4>2. OnItsWay(d)' = OnItsWay(d)
        BY <1>1, <2>3, <3>1, <3>3, <4>1 DEF OnItsWay
      <4> QED BY <3>2, <4>2
    <3>4. CASE d = c
      <4>1. ~(hub'.at = "sweep" /\ c \in hub'.todo)
        BY <1>1 DEF Selecting
      <4>2. c \in Audience[hub.msg]
        BY <1>1 DEF SweepsRegistered
      <4>3. OnItsWay(c)' = OnItsWay(c)
        BY <1>1, <2>3, <3>1, <3>4, <4>1, <4>2 DEF OnItsWay
      <4> QED BY <3>2, <3>4, <4>3
    <3> QED BY <3>3, <3>4
  <2> QED BY <2>5, <2>6, <2>7, <2>8, <2>9, <2>10 DEF FlowInv
<1>3. CASE token' = [token EXCEPT ![c] = FALSE] /\ UNCHANGED <<registered, send, open>>
  <2>1. \A d \in Conn : /\ Sent(d)' = Sent(d) /\ EventsIn(send[d])' = EventsIn(send[d])
                        /\ EventsIn(written[d])' = EventsIn(written[d]) /\ Leads(d)' = Leads(d)
    BY <1>1, <1>3 DEF Sent, EventsIn, Leads
  <2>2. ~token'[c] /\ \A d \in Conn : d # c => token'[d] = token[d]
    BY <1>3 DEF TypeOK
  <2>3. Queued'
    BY <1>1 DEF FlowInv, Queued, envVars, Selecting
  <2>4. Behind'
    BY <1>1, <2>1 DEF FlowInv, Behind, envVars, Selecting
  <2>5. InOrder' /\ OwedSince'
    BY <1>1, <1>3, <2>1 DEF FlowInv, InOrder, OwedSince, envVars, history
  <2>6. HelloLeads'
    BY <1>1, <1>3, <2>1, <2>2 DEF FlowInv, HelloLeads
  <2>7. NoSilentGap'
    <3> SUFFICES ASSUME NEW d \in registered,
                        token'[d] /\ ~skipped[d] /\ writer[d] = "running" /\ ~stopping
                 PROVE  OnItsWay(d)' = {n \in since[d]..published : d \in Audience[n]}
      BY <1>1, <1>3 DEF NoSilentGap, envVars, history
    <3>1. d \in Conn /\ d # c /\ token[d]
      BY <2>2 DEF TypeOK
    <3>2. ASSUME NEW n \in Event
          PROVE  (hub'.at = "sweep" /\ d \in hub'.todo /\ hub'.msg = n)
                 <=> (hub.at = "sweep" /\ d \in hub.todo /\ hub.msg = n)
      BY <1>1, <3>1 DEF Selecting
    <3>3. OnItsWay(d)' = OnItsWay(d)
      BY <1>1, <2>1, <3>1, <3>2 DEF OnItsWay
    <3> QED BY <3>1, <3>3 DEF FlowInv, NoSilentGap
  <2> QED BY <2>3, <2>4, <2>5, <2>6, <2>7 DEF FlowInv
<1> QED BY <1>2, <1>3 DEF HubOffers

(* A writer takes the first message: writes it, skips it, or ends.         *)
LEMMA WriterFlow == ASSUME IndexInv, FlowInv, NEW c \in Conn, WriterTakes(c) PROVE FlowInv'
<1> USE DEF IndexInv, IndexIsUsable
<1> DEFINE msg == Head(send[c])
<1>1. /\ writer[c] = "running" /\ send[c] # << >> /\ send'[c] = Tail(send[c])
      /\ \A d \in Conn : d # c => send'[d] = send[d]
      /\ UNCHANGED <<hub, registered, broadcast, token, stopping, published, since>>
  BY DEF WriterTakes, hubVars, envVars, TypeOK
<1>2. send[c] \in Seq(Message) /\ written[c] \in Seq(Message)
  BY DEF TypeOK
<1>3. /\ msg \in Message /\ msg = send[c][1]
      /\ EventsIn(send[c]) = EventOf(msg) \cup EventsIn(send'[c])
      /\ Ordered(send[c]) => /\ Ordered(send'[c])
                             /\ \A m \in EventOf(msg), n \in EventsIn(send'[c]) : m < n
  BY <1>1, <1>2, TakenEvents
<1> HIDE DEF msg
<1>4. \/ UNCHANGED <<writer, written>> /\ skipped' = [skipped EXCEPT ![c] = TRUE] /\ msg.kind = "event"
      \/ UNCHANGED <<writer, skipped>> /\ written' = [written EXCEPT ![c] = Append(@, msg)]
      \/ writer' = [writer EXCEPT ![c] = "done"] /\ UNCHANGED <<written, skipped>>
  BY DEF WriterTakes, WriterReturns, msg
<1>5. /\ \A d \in Conn : d # c => written'[d] = written[d]
      /\ written'[c] = written[c] \/ written'[c] = Append(written[c], msg)
      /\ \A d \in Conn : writer'[d] = "running" => writer[d] = "running"
      /\ \A d \in Conn : skipped[d] => skipped'[d]
  BY <1>4 DEF TypeOK
<1>6. /\ EventsIn(Append(written[c], msg)) = EventsIn(written[c]) \cup EventOf(msg)
      /\ Ordered(written[c]) /\ (\A j \in EventsIn(written[c]), n \in EventOf(msg) : j < n)
            => Ordered(Append(written[c], msg))
  BY <1>2, <1>3, AppendEvents
<1>7. /\ \A d \in Conn : /\ EventsIn(send[d])' = EventsIn(send'[d])
                         /\ EventsIn(written[d])' = EventsIn(written'[d])
      /\ \A d \in Conn : d # c => /\ EventsIn(send'[d]) = EventsIn(send[d])
                                  /\ EventsIn(written'[d]) = EventsIn(written[d])
                                  /\ Sent(d)' = Sent(d) /\ Leads(d)' = Leads(d)
  BY <1>1, <1>5 DEF EventsIn, Sent, Leads
<1>8. Sent(c)' \subseteq Sent(c)
      /\ (written'[c] = Append(written[c], msg) => Sent(c)' = Sent(c))
  BY <1>3, <1>5, <1>6, <1>7 DEF Sent
<1>9. \A d \in Conn : Sent(d)' \subseteq Sent(d)
  BY <1>7, <1>8
<1>10. Queued' /\ Behind' /\ OwedSince'
  BY <1>1, <1>9 DEF FlowInv, Queued, Behind, OwedSince
<1>11. InOrder'
  <2>1. Ordered(send[c]) /\ Ordered(written[c])
        /\ \A m \in EventsIn(written[c]), n \in EventsIn(send[c]) : m < n
    BY DEF FlowInv, InOrder
  <2>2. Ordered(send'[c]) /\ Ordered(written'[c])
        /\ \A m \in EventsIn(written'[c]), n \in EventsIn(send'[c]) : m < n
    BY <1>3, <1>5, <1>6, <2>1
  <2>3. \A d \in Conn : /\ Ordered(send'[d]) /\ Ordered(written'[d])
                        /\ \A m \in EventsIn(written'[d]), n \in EventsIn(send'[d]) : m < n
    BY <1>1, <1>5, <1>7, <2>2 DEF FlowInv, InOrder
  <2> QED BY <1>7, <2>3 DEF InOrder, Ordered
<1>12. HelloLeads'
  <2> SUFFICES ASSUME NEW d \in Conn
               PROVE  /\ writer'[d] = "running" /\ (Sent(d)' # {} \/ (d \in registered /\ token[d]))
                             => Leads(d)'
                      /\ EventsIn(written'[d]) # {} => written'[d] # << >> /\ written'[d][1].kind = "hello"
    BY <1>1, <1>7 DEF HelloLeads
  <2>1. CASE d # c
    BY <1>5, <1>7, <2>1 DEF FlowInv, HelloLeads
  <2>2. CASE d = c
    <3>1. Sent(c) # {} \/ (c \in registered /\ token[c]) => Leads(c)
      BY <1>1 DEF FlowInv, HelloLeads
    <3>2. EventsIn(written[c]) # {} => written[c] # << >> /\ written[c][1].kind = "hello"
      BY DEF FlowInv, HelloLeads
    <3>3. CASE written'[c] = Append(written[c], msg)
      <4>1. written'[c] # << >>
            /\ written'[c][1] = IF written[c] = << >> THEN msg ELSE written[c][1]
        <5>1. CASE written[c] = << >>
          BY <3>3, <5>1
        <5>2. CASE written[c] # << >>
          <6>1. Len(written[c]) \in Nat /\ Len(written[c]) > 0
            BY <1>2, <5>2
          <6>2. Append(written[c], msg)[1] = written[c][1] /\ Append(written[c], msg) # << >>
            BY <1>2, <6>1
          <6> QED BY <3>3, <5>2, <6>2
        <5> QED BY <5>1, <5>2
      <4>2. Leads(c) => written'[c][1].kind = "hello"
        BY <1>3, <4>1 DEF Leads
      <4>3. EventsIn(written'[c]) \subseteq Sent(c)
        BY <1>7, <1>8, <3>3 DEF Sent
      <4> QED BY <1>1, <1>8, <2>2, <3>1, <3>3, <4>1, <4>2, <4>3 DEF Leads
    <3>4. CASE written'[c] = written[c]
      <4>1. writer'[c] = "running" => msg.kind = "event" \/ written'[c] = Append(written[c], msg)
        BY <1>1, <1>4 DEF TypeOK
      <4>2. msg.kind = "event" /\ Leads(c) => Leads(c)'
        BY <1>3, <3>4 DEF Leads
      <4>3. written[c] # Append(written[c], msg)
        BY <1>2, <1>3
      <4> QED BY <1>8, <2>2, <3>1, <3>2, <3>4, <4>1, <4>2, <4>3
    <3> QED BY <1>5, <3>3, <3>4
  <2> QED BY <2>1, <2>2
<1>13. NoSilentGap'
  <2> SUFFICES ASSUME NEW d \in registered,
                      token[d] /\ ~skipped'[d] /\ writer'[d] = "running" /\ ~stopping
               PROVE  OnItsWay(d)' = {n \in since[d]..published : d \in Audience[n]}
    BY <1>1 DEF NoSilentGap
  <2>1. d \in Conn
    BY DEF TypeOK
  <2>2. OnItsWay(d) = {n \in since[d]..published : d \in Audience[n]}
    BY <1>5, <2>1 DEF FlowInv, NoSilentGap
  <2>3. Sent(d)' = Sent(d)
    <3>1. CASE d # c
      BY <1>7, <2>1, <3>1
    <3>2. CASE d = c
      <4>1. written'[c] = Append(written[c], msg)
        BY <1>4, <3>2 DEF TypeOK
      <4> QED BY <1>8, <3>2, <4>1
    <3> QED BY <3>1, <3>2
  <2>4. OnItsWay(d)' = OnItsWay(d)
    BY <1>1, <2>3 DEF OnItsWay, Sent
  <2> QED BY <2>2, <2>4
<1> QED BY <1>10, <1>11, <1>12, <1>13 DEF FlowInv

-----------------------------------------------------------------------------
LEMMA HubInvariant == Spec => [](IndexInv /\ FlowInv)
<1>1. IndexInv /\ FlowInv /\ [Next]_vars => IndexInv' /\ FlowInv'
  <2> SUFFICES ASSUME IndexInv, FlowInv, [Next]_vars PROVE IndexInv' /\ FlowInv'
    OBVIOUS
  <2>1. IndexInv'
    BY HubKeepsIndex, OthersKeepIndex DEF Next
  <2>2. FlowInv'
    BY QuietActions, PublishFlow, TakesFlow, RegistersFlow, AnswersFlow, OffersFlow, WriterFlow
       DEF Next, HubActs, ConnActs
  <2> QED BY <2>1, <2>2
<1> QED BY InitIndex, InitFlow, <1>1, PTL DEF Spec

(* The hub never sends on or closes a channel it has closed, keeps no      *)
(* connection whose pump has ended, and fills no channel beyond what it    *)
(* was made for (app/web_hub.go:206-232), however many connections come    *)
(* and go, also when its goroutine panics and starts again.                *)
THEOREM TheIndexIsUsable == Spec => []IndexIsUsable
<1>1. IndexInv => IndexIsUsable
  BY DEF IndexInv
<1> QED BY <1>1, HubInvariant, PTL

(* What writePump (app/web_conn.go) writes on any socket is the hello and  *)
(* then events in the order they were published, none of them twice.       *)
THEOREM EventsInOrder == Spec => []WrittenInOrder
<1>1. IndexInv /\ FlowInv => WrittenInOrder
  <2> SUFFICES ASSUME IndexInv, FlowInv, NEW c \in Conn
               PROVE  /\ Ordered(written[c] \o send[c])
                      /\ EventsIn(written[c]) # {} => written[c][1].kind = "hello"
    BY DEF WrittenInOrder
  <2>1. written[c] \in Seq(Message) /\ send[c] \in Seq(Message)
    BY DEF IndexInv, IndexIsUsable, TypeOK
  <2>2. Ordered(written[c] \o send[c])
    BY <2>1, OrderedTogether DEF FlowInv, InOrder
  <2> QED BY <2>2 DEF FlowInv, HelloLeads
<1> QED BY <1>1, HubInvariant, PTL

(* A registered connection that is not slow has every event for its user   *)
(* since it registered, written or on its way, or it has been dropped      *)
(* (app/web_hub.go:213-234): no event is lost behind a client's back.      *)
THEOREM NoEventIsLost == Spec => []NoSilentGap
<1>1. FlowInv => NoSilentGap
  BY DEF FlowInv
<1> QED BY <1>1, HubInvariant, PTL
=============================================================================
