------------------------------- MODULE WebHub -------------------------------
(***************************************************************************)
(* A WebSocket hub (app/web_hub.go), its connections and their pumps       *)
(* (app/web_conn.go), and the request goroutines that publish to it.       *)
(*                                                                         *)
(* The hub is one goroutine that selects among its channels.  Each of its  *)
(* connections has a reading goroutine, which is the HTTP handler itself   *)
(* (connectWebSocket, Register, Pump, readPump), and a writing one         *)
(* (writePump), which empties the connection's send channel into the       *)
(* socket.  register, unregister and directMsg have no buffer: hub and     *)
(* sender take one step together.  Every send to the hub gives up when     *)
(* h.stop is closed.                                                       *)
(*                                                                         *)
(* How the hub stores its connections is HubIndex; here they are the set   *)
(* that HubConns describes, which HubIndex is proved to implement.         *)
(*                                                                         *)
(* Whether a connection's session is still good (IsAuthenticated, modelled *)
(* in WebSessions) is a choice made at each check, for ever once it fails: *)
(* the check that fails clears the connection's token.                     *)
(***************************************************************************)
EXTENDS Integers, Sequences

CONSTANTS Conn,                \* the connections of this hub
          SendQueueSize,       \* sendQueueSize: the capacity of a send channel
          SendSlowWarn,        \* sendSlowWarn: a send channel this long is slow
          BroadcastQueueSize,  \* broadcastQueueSize: the capacity of h.broadcast
          Audience,            \* Audience[n]: the connections of the users event n is for
          MaxRequests,         \* bounds the requests of the clients
          HubMayPanic          \* whether the hub's goroutine may panic (doRecover)

NoConn == "none"
MaxEvents == Len(Audience)     \* the events published are the numbers 1..MaxEvents

ASSUME WebHubAssumption ==
    /\ SendSlowWarn \in Nat /\ SendQueueSize \in Nat /\ BroadcastQueueSize \in Nat
    /\ 0 < SendSlowWarn /\ SendSlowWarn < SendQueueSize /\ 0 < BroadcastQueueSize
    /\ Audience \in Seq(SUBSET Conn)
    /\ NoConn \notin Conn /\ MaxRequests \in Nat /\ HubMayPanic \in BOOLEAN

VARIABLES
    hub,          \* where the hub's goroutine is, and the message it broadcasts
    registered,   \* connIndex: the connections it knows
    broadcast,    \* the channel h.broadcast
    stopping,     \* h.stop is closed
    pump,         \* where the reading goroutine of each connection is
    writer,       \* where its writePump is
    send,         \* what is in its send channel
    open,         \* its send channel is not closed
    socket,       \* its WebSocket is open
    token,        \* it has a session token: no check of its session has failed
    published,    \* how many events have been published
    requests,     \* how many requests the clients have sent
    written,      \* history: what went out on each socket
    since,        \* history: the first event a registered connection is owed
    skipped       \* history: writePump dropped an event because it was slow

hubVars == <<hub, registered, broadcast>>
connVars == <<pump, writer, send, open, socket, token, written>>
envVars == <<stopping, published, requests>>
history == <<since, skipped>>
vars == <<hubVars, connVars, envVars, history>>

Event == 1..MaxEvents
EventMsg(n) == [kind |-> "event", n |-> n]
Message == [kind : {"event"}, n : Event] \cup [kind : {"hello", "reply"}]

Selecting == [at |-> "select"]

TypeOK ==
    /\ hub \in {Selecting, [at |-> "stopped"]}
           \cup [at : {"sweep"}, msg : Event, todo : SUBSET Conn]
           \cup [at : {"closing"}, on : Conn \cup {NoConn}, todo : SUBSET Conn]
    /\ registered \subseteq Conn
    /\ broadcast \in Seq(Event) /\ Len(broadcast) <= BroadcastQueueSize
    /\ pump \in [Conn -> {"absent", "registering", "reading", "serving",
                          "joining", "unregistering", "finished"}]
    /\ writer \in [Conn -> {"none", "running", "done"}]
    /\ send \in [Conn -> Seq(Message)] /\ \A c \in Conn : Len(send[c]) <= SendQueueSize
    /\ written \in [Conn -> Seq(Message)]
    /\ {open, socket, token, skipped} \subseteq [Conn -> BOOLEAN]
    /\ since \in [Conn -> Nat]
    /\ stopping \in BOOLEAN /\ published \in 0..MaxEvents /\ requests \in 0..MaxRequests

Init ==
    /\ hub = Selecting /\ registered = {} /\ broadcast = << >>
    /\ pump = [c \in Conn |-> "absent"] /\ writer = [c \in Conn |-> "none"]
    /\ send = [c \in Conn |-> << >>] /\ written = [c \in Conn |-> << >>]
    /\ open = [c \in Conn |-> TRUE] /\ socket = [c \in Conn |-> TRUE]
    /\ token = [c \in Conn |-> TRUE]
    /\ stopping = FALSE /\ published = 0 /\ requests = 0
    /\ since = [c \in Conn |-> 0] /\ skipped = [c \in Conn |-> FALSE]

-----------------------------------------------------------------------------
(* The outside: handlers that publish, the server that stops.              *)

\* Publish: Broadcast blocks while h.broadcast is full and gives up on h.stop.
Publish == /\ published < MaxEvents
           /\ published' = published + 1
           /\ \/ /\ Len(broadcast) < BroadcastQueueSize
                 /\ broadcast' = Append(broadcast, published + 1)
              \/ stopping /\ UNCHANGED broadcast
           /\ UNCHANGED <<hub, registered, connVars, stopping, requests, history>>

\* HubStop: close(h.stop), then wait for didStop.
Stop == /\ ~stopping /\ stopping' = TRUE
        /\ UNCHANGED <<hubVars, connVars, published, requests, history>>

-----------------------------------------------------------------------------
(* The hub's channel operations.                                           *)

CloseSocket(c) == socket' = [socket EXCEPT ![c] = FALSE]

\* Mutant: a connection that is dropped stays in the index.
SendOrDropInPlace(c, msg) ==
    IF Len(send[c]) < SendQueueSize
    THEN /\ send' = [send EXCEPT ![c] = Append(@, msg)]
         /\ UNCHANGED <<registered, open>>
    ELSE /\ open' = [open EXCEPT ![c] = FALSE]
         /\ UNCHANGED <<registered, send>>

\* Mutant: a message for which there is no room is lost, and the connection kept.
SendOrLose(c, msg) ==
    /\ IF Len(send[c]) < SendQueueSize THEN send' = [send EXCEPT ![c] = Append(@, msg)]
                                       ELSE UNCHANGED send
    /\ UNCHANGED <<registered, open>>

\* A send that does not block: a connection with a full channel is dropped.
SendOrDrop(c, msg) ==
    IF Len(send[c]) < SendQueueSize
    THEN /\ send' = [send EXCEPT ![c] = Append(@, msg)]
         /\ UNCHANGED <<registered, open>>
    ELSE /\ open' = [open EXCEPT ![c] = FALSE]
         /\ registered' = registered \ {c}
         /\ UNCHANGED send

\* The pump starts: writePump in a goroutine of its own, readPump here.
StartPump(c) == /\ pump' = [pump EXCEPT ![c] = "reading"]
                /\ writer' = [writer EXCEPT ![c] = "running"]

Selects == hub.at = "select"

\* Mutant: no hello is sent.
HubRegistersQuietly(c) ==
    /\ Selects /\ pump[c] = "registering"
    /\ StartPump(c)
    /\ since' = [since EXCEPT ![c] = IF broadcast = << >> THEN published + 1 ELSE Head(broadcast)]
    /\ registered' = registered \cup {c}
    /\ UNCHANGED <<hub, broadcast, send, open, socket, token, written, envVars, skipped>>

\* case webConn := <-h.register.  The hello is a plain, blocking send.  A panic of
\* the check of the session leaves a new hub loop, with an empty index.
HubRegisters(c) ==
    /\ Selects /\ pump[c] = "registering"
    /\ StartPump(c)
    /\ since' = [since EXCEPT ![c] = IF broadcast = << >> THEN published + 1 ELSE Head(broadcast)]
    /\ \/ /\ Len(send[c]) < SendQueueSize
          /\ send' = [send EXCEPT ![c] = Append(@, [kind |-> "hello"])]
          /\ registered' = registered \cup {c} /\ UNCHANGED token
       \/ /\ token' = [token EXCEPT ![c] = FALSE]
          /\ registered' = registered \cup {c} /\ UNCHANGED send
       \/ /\ HubMayPanic
          /\ registered' = {} /\ UNCHANGED <<send, token>>
    /\ UNCHANGED <<hub, broadcast, open, socket, written, envVars, skipped>>

\* case webConn := <-h.unregister
HubUnregisters(c) ==
    /\ Selects /\ pump[c] = "unregistering"
    /\ pump' = [pump EXCEPT ![c] = "finished"]
    /\ registered' = registered \ {c}
    /\ UNCHANGED <<hub, broadcast, writer, send, open, socket, token, written, envVars, history>>

\* case directMsg := <-h.directMsg: the answer to a request.
HubAnswers(c) ==
    /\ Selects /\ pump[c] = "serving"
    /\ pump' = [pump EXCEPT ![c] = "reading"]
    /\ IF c \in registered THEN SendOrDrop(c, [kind |-> "reply"])
                           ELSE UNCHANGED <<registered, send, open>>
    /\ UNCHANGED <<hub, broadcast, writer, socket, token, written, envVars, history>>

\* case msg := <-h.broadcast
HubTakes ==
    /\ Selects /\ broadcast # << >>
    /\ broadcast' = Tail(broadcast)
    /\ hub' = LET msg == Head(broadcast)
                  to == Audience[msg] \cap registered
              IN  IF to = {} THEN Selecting
                             ELSE [at |-> "sweep", msg |-> msg, todo |-> to]
    /\ UNCHANGED <<registered, connVars, envVars, history>>

SweptTo(todo) == IF todo = {} THEN Selecting ELSE [hub EXCEPT !.todo = todo]

\* One connection of the broadcast (shouldSendEvent, then the send or the drop).
HubOffers(c) ==
    /\ hub.at = "sweep" /\ c \in hub.todo
    /\ hub' = SweptTo(hub.todo \ {c})
    /\ \/ token[c] /\ SendOrDrop(c, EventMsg(hub.msg)) /\ UNCHANGED token
       \/ token' = [token EXCEPT ![c] = FALSE] /\ UNCHANGED <<registered, send, open>>
    /\ UNCHANGED <<broadcast, pump, writer, socket, written, envVars, history>>

\* case <-h.stop: close every connection's socket and wait for its pump.
HubStops == /\ Selects /\ stopping
            /\ hub' = [at |-> "closing", on |-> NoConn, todo |-> registered]
            /\ UNCHANGED <<registered, broadcast, connVars, envVars, history>>

HubCloses(c) ==
    /\ hub.at = "closing" /\ hub.on = NoConn /\ c \in hub.todo
    /\ CloseSocket(c)
    /\ hub' = [hub EXCEPT !.on = c]
    /\ UNCHANGED <<registered, broadcast, pump, writer, send, open, token, written, envVars, history>>

HubHasClosed(c) ==
    /\ hub.at = "closing" /\ hub.on = c /\ pump[c] = "finished"
    /\ hub' = [hub EXCEPT !.on = NoConn, !.todo = @ \ {c}]
    /\ UNCHANGED <<registered, broadcast, connVars, envVars, history>>

\* close(h.didStop)
HubIsStopped ==
    /\ hub.at = "closing" /\ hub.todo = {}
    /\ hub' = [at |-> "stopped"]
    /\ UNCHANGED <<registered, broadcast, connVars, envVars, history>>

\* Mutant: the panic of a hub is not recovered.
HubDies ==
    /\ HubMayPanic /\ hub.at = "sweep"
    /\ hub' = [at |-> "stopped"] /\ registered' = {}
    /\ UNCHANGED <<broadcast, connVars, envVars, history>>

\* A panic while a session is looked up, in a broadcast: doRecover starts the
\* loop again, with an empty index and the rest of the channels.
HubPanics ==
    /\ HubMayPanic /\ hub.at = "sweep"
    /\ hub' = Selecting /\ registered' = {}
    /\ UNCHANGED <<broadcast, connVars, envVars, history>>

-----------------------------------------------------------------------------
(* A connection's goroutines.                                              *)

\* connectWebSocket up to its call of Register.
Connect(c) == /\ pump[c] = "absent"
              /\ pump' = [pump EXCEPT ![c] = "registering"]
              /\ UNCHANGED <<hubVars, writer, send, open, socket, token, written, envVars, history>>

\* Register and Unregister give up when the hub stops; so does SendMessage.
RegisterGivesUp(c) ==
    /\ stopping /\ pump[c] = "registering"
    /\ StartPump(c)
    /\ UNCHANGED <<hubVars, send, open, socket, token, written, envVars, history>>

\* Mutant: a plain send to h.unregister.
UnregisterBlocks(c) == FALSE

UnregisterGivesUp(c) ==
    /\ stopping /\ pump[c] = "unregistering"
    /\ pump' = [pump EXCEPT ![c] = "finished"]
    /\ UNCHANGED <<hubVars, writer, send, open, socket, token, written, envVars, history>>

AnswerGivesUp(c) ==
    /\ stopping /\ pump[c] = "serving"
    /\ pump' = [pump EXCEPT ![c] = "reading"]
    /\ UNCHANGED <<hubVars, writer, send, open, socket, token, written, envVars, history>>

\* readPump reads a request; ServeWebSocket checks the session and, whatever
\* comes of it, ends in one SendMessage.
Request(c) ==
    /\ pump[c] = "reading" /\ socket[c] /\ requests < MaxRequests
    /\ requests' = requests + 1
    /\ pump' = [pump EXCEPT ![c] = "serving"]
    /\ \/ UNCHANGED token
       \/ token' = [token EXCEPT ![c] = FALSE]
    /\ UNCHANGED <<hubVars, writer, send, open, socket, written, stopping, published, history>>

\* The read fails: the client left, the read deadline passed, or the socket was
\* closed on this side.  readPump closes the socket, Pump closes endWritePump.
ReadFails(c) ==
    /\ pump[c] = "reading"
    /\ CloseSocket(c)
    /\ pump' = [pump EXCEPT ![c] = "joining"]
    /\ UNCHANGED <<hubVars, writer, send, open, token, written, envVars, history>>

\* wg.Wait, then HubUnregister.
PumpJoins(c) ==
    /\ pump[c] = "joining" /\ writer[c] = "done"
    /\ pump' = [pump EXCEPT ![c] = "unregistering"]
    /\ UNCHANGED <<hubVars, writer, send, open, socket, token, written, envVars, history>>

WriterReturns(c) == writer' = [writer EXCEPT ![c] = "done"] /\ CloseSocket(c)

\* An event is dropped when the channel behind it is long (SendSlowWarn); the
\* write may fail.
WriterTakes(c) ==
    /\ writer[c] = "running" /\ send[c] # << >>
    /\ send' = [send EXCEPT ![c] = Tail(@)]
    /\ IF Len(Tail(send[c])) >= SendSlowWarn /\ Head(send[c]).kind = "event"
       THEN /\ skipped' = [skipped EXCEPT ![c] = TRUE]
            /\ UNCHANGED <<writer, socket, written>>
       ELSE /\ \/ /\ socket[c]
                  /\ written' = [written EXCEPT ![c] = Append(@, Head(send[c]))]
                  /\ UNCHANGED <<writer, socket>>
               \/ WriterReturns(c) /\ UNCHANGED written
            /\ UNCHANGED skipped
    /\ UNCHANGED <<hubVars, pump, open, token, envVars, since>>

\* Mutant: a receive that does not look whether the channel is closed.
WriterStopsLate(c) ==
    /\ writer[c] = "running"
    /\ pump[c] = "joining" \/ ~token[c]
    /\ WriterReturns(c)
    /\ UNCHANGED <<hubVars, pump, send, open, token, written, envVars, history>>

\* The channel is empty and closed; or endWritePump is closed; or the one check
\* of authTicker finds no token.
WriterStops(c) ==
    /\ writer[c] = "running"
    /\ \/ send[c] = << >> /\ ~open[c]
       \/ pump[c] = "joining"
       \/ ~token[c]
    /\ WriterReturns(c)
    /\ UNCHANGED <<hubVars, pump, send, open, token, written, envVars, history>>

HubActs(c) == HubRegisters(c) \/ HubUnregisters(c) \/ HubAnswers(c)
              \/ HubOffers(c) \/ HubCloses(c) \/ HubHasClosed(c)
ConnActs(c) == Connect(c) \/ RegisterGivesUp(c) \/ UnregisterGivesUp(c) \/ AnswerGivesUp(c)
               \/ Request(c) \/ ReadFails(c) \/ PumpJoins(c) \/ WriterTakes(c) \/ WriterStops(c)

Next == \/ Publish \/ Stop \/ HubTakes \/ HubStops \/ HubIsStopped \/ HubPanics
        \/ \E c \in Conn : HubActs(c) \/ ConnActs(c)

Spec == Init /\ [][Next]_vars

(* Fairness.  The hub's select takes a ready channel at random, so what is  *)
(* ready again and again is taken in the end: strong fairness.  A goroutine *)
(* that can go on by itself does: weak fairness of the hub's own work and   *)
(* of each connection's reader and writer.  Clients may stay silent, and a  *)
(* hub may never be stopped.                                                *)
HubWorks == HubIsStopped \/ \E c \in Conn : HubOffers(c) \/ HubCloses(c) \/ HubHasClosed(c)
HubReceives(c) == HubRegisters(c) \/ HubUnregisters(c) \/ HubAnswers(c)
PumpGoesOn(c) == \/ RegisterGivesUp(c) \/ UnregisterGivesUp(c) \/ AnswerGivesUp(c)
                 \/ ReadFails(c) /\ ~socket[c]
                 \/ PumpJoins(c)
WriterGoesOn(c) == WriterTakes(c) \/ (WriterStops(c) /\ (pump[c] = "joining" \/ ~open[c]))

Fairness == /\ SF_vars(HubTakes) /\ SF_vars(HubStops) /\ WF_vars(HubWorks)
            /\ \A c \in Conn : /\ SF_vars(HubReceives(c))
                              /\ WF_vars(PumpGoesOn(c)) /\ WF_vars(WriterGoesOn(c))

FairSpec == Spec /\ Fairness

-----------------------------------------------------------------------------
(* Safety.                                                                 *)

\* The hub never sends on a channel it has closed, which would be a panic: a
\* connection whose channel is closed has left the index in the same step.
ClosedIsForgotten == \A c \in registered : open[c]

\* While the hub runs, a connection whose pump has finished is not in its index
\* (the index would keep it for ever).
FinishedIsForgotten == ~stopping => \A c \in registered : pump[c] # "finished"

\* What the hub holds can be sent to and closed once (app/web_hub.go:206-232),
\* with no channel ever fuller than it was made.
IndexIsUsable == TypeOK /\ ClosedIsForgotten /\ FinishedIsForgotten

\* The events among the messages of s, and whether they are in the order they
\* were published in, each once.
EventsIn(s) == {n \in Event : \E k \in DOMAIN s : s[k] = EventMsg(n)}
Ordered(s) == \A j, k \in DOMAIN s, m, n \in Event :
    j < k /\ s[j] = EventMsg(m) /\ s[k] = EventMsg(n) => m < n

\* Events go out in the order they were published, each at most once, and none
\* before the hello; even while the writer drops some and the hub restarts.
WrittenInOrder == \A c \in Conn :
    /\ Ordered(written[c] \o send[c])
    /\ EventsIn(written[c]) # {} => written[c][1].kind = "hello"

\* What is on its way to c: written, in its channel, in the hub, in h.broadcast.
OnItsWay(c) ==
    EventsIn(written[c]) \cup EventsIn(send[c])
    \cup {n \in Event : /\ c \in Audience[n]
                        /\ \/ \E k \in DOMAIN broadcast : broadcast[k] = n
                           \/ hub.at = "sweep" /\ c \in hub.todo /\ hub.msg = n}

\* No event is lost silently: a registered connection with a session, which has
\* not been slow, gets every event for its user since it registered, and a
\* connection the hub could not serve is dropped, so that its client notices.
NoSilentGap == \A c \in registered :
    token[c] /\ ~skipped[c] /\ writer[c] = "running" /\ ~stopping =>
        OnItsWay(c) = {n \in since[c]..published : c \in Audience[n]}

(* Liveness.                                                               *)

\* HubStop returns: nobody the hub waits for waits for the hub.
StopReturns == stopping ~> hub.at = "stopped"

\* A connection the hub gave up on is torn down: its writer empties the channel,
\* sees it closed, and the reader and Pump follow.
DroppedConnsEnd == \A c \in Conn : ~open[c] ~> pump[c] = "finished"

\* A request is answered, or let go when the hub stops.
RequestsEnd == \A c \in Conn : pump[c] = "serving" ~> pump[c] # "serving"

\* A publisher that waits for room in h.broadcast gets on, also after a panic.
PublishersGoOn == Len(broadcast) = BroadcastQueueSize ~>
                      (Len(broadcast) < BroadcastQueueSize \/ stopping)

\* Nobody who calls the hub is kept for ever: neither a reader with an answer
\* (SendMessage, app/web_hub.go:106) nor a handler with an event (Broadcast, :322).
CallersGoOn == RequestsEnd /\ PublishersGoOn
=============================================================================
