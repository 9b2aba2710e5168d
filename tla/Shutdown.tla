------------------------------ MODULE Shutdown ------------------------------
(***************************************************************************)
(* The end of a server: Shutdown stops the HTTP server, waits for the      *)
(* goroutines that Server.Go has started, and closes the store.            *)
(*                                                                         *)
(* goroutineCount is atomic, goroutineExitSignal a channel of capacity 1   *)
(* into which a goroutine that ends puts a signal if there is room.  The   *)
(* number a goroutine leaves behind and its signal are two steps.          *)
(***************************************************************************)
EXTENDS Requests

CONSTANT Goroutines   \* the goroutines there can be

ASSUME ShutdownAssumption == IsFiniteSet(Goroutines)

VARIABLES
  goroutine,      \* goroutine[g]: where g is
  goroutineCount,
  exitSignals,    \* the number of signals in the channel
  handlers,       \* the HTTP requests being handled
  main,           \* what the main goroutine is doing
  outlived        \* history: did a handler outlive the HTTP server?

shutdownVars == <<goroutine, goroutineCount, exitSignals, handlers, main, outlived>>

Capacity == 1

Running(g) == goroutine[g] = "running"
Step == UNCHANGED <<situation, request, lost>>

handleRequest ==
  /\ Counted("http") /\ main = "serving" /\ handlers' = handlers + 1
  /\ UNCHANGED <<request, goroutine, goroutineCount, exitSignals, main, outlived>>
FinishRequest ==
  /\ Step /\ UNCHANGED served
  /\ handlers > 0 /\ handlers' = handlers - 1
  /\ UNCHANGED <<goroutine, goroutineCount, exitSignals, main, outlived>>

(* Handlers start goroutines, and goroutines others.                       *)
Go(g) ==
  /\ Step /\ UNCHANGED served
  /\ goroutine[g] = "new" /\ (handlers > 0 \/ \E f \in Goroutines : Running(f))
  /\ goroutine' = [goroutine EXCEPT ![g] = "running"]
  /\ goroutineCount' = goroutineCount + 1
  /\ UNCHANGED <<exitSignals, handlers, main, outlived>>

CountDown(g) ==
  /\ Step /\ UNCHANGED served
  /\ Running(g) /\ goroutine' = [goroutine EXCEPT ![g] = "signalling"]
  /\ goroutineCount' = goroutineCount - 1
  /\ UNCHANGED <<exitSignals, handlers, main, outlived>>

(* Mutant: the channel has no room, so that a signal is lost unless        *)
(* somebody waits for it already.                                          *)
UnbufferedSignal(g) ==
  /\ Step /\ UNCHANGED served
  /\ goroutine[g] = "signalling" /\ goroutine' = [goroutine EXCEPT ![g] = "done"]
  /\ \/ main = "receiving" /\ exitSignals' = 1
     \/ UNCHANGED exitSignals
  /\ UNCHANGED <<goroutineCount, handlers, main, outlived>>

SignalExit(g) ==
  /\ Step /\ UNCHANGED served
  /\ goroutine[g] = "signalling" /\ goroutine' = [goroutine EXCEPT ![g] = "done"]
  /\ exitSignals' = IF exitSignals < Capacity THEN exitSignals + 1 ELSE exitSignals
  /\ UNCHANGED <<goroutineCount, handlers, main, outlived>>

(* A signal of the operating system, or the end of a batch.                *)
StopServer ==
  /\ Step /\ UNCHANGED served
  /\ "stop" \in situation.ops /\ main = "serving" /\ main' = "stopping"
  /\ UNCHANGED <<goroutine, goroutineCount, exitSignals, handlers, outlived>>

(* http.Server.Shutdown waits for handlers, but no longer than a second.   *)
StopHTTPServer ==
  /\ Step /\ UNCHANGED served
  /\ main = "stopping" /\ main' = "counting" /\ outlived' = (handlers > 0)
  /\ UNCHANGED <<goroutine, goroutineCount, exitSignals, handlers>>

LoadCount ==
  /\ Step /\ UNCHANGED served
  /\ main = "counting"
  /\ main' = IF goroutineCount = 0 THEN "waited" ELSE "receiving"
  /\ UNCHANGED <<goroutine, goroutineCount, exitSignals, handlers, outlived>>

(* Mutant: one signal is waited for, and the count not looked at again.    *)
ReceiveOne ==
  /\ Step /\ UNCHANGED served
  /\ main = "receiving" /\ main' = "waited"
  /\ exitSignals > 0 /\ exitSignals' = exitSignals - 1
  /\ UNCHANGED <<goroutine, goroutineCount, handlers, outlived>>

ReceiveSignal ==
  /\ Step /\ UNCHANGED served
  /\ main = "receiving" /\ main' = "counting"
  /\ exitSignals > 0 /\ exitSignals' = exitSignals - 1
  /\ UNCHANGED <<goroutine, goroutineCount, handlers, outlived>>
CloseStore ==
  /\ Step /\ UNCHANGED served
  /\ main = "waited" /\ main' = "closed"
  /\ UNCHANGED <<goroutine, goroutineCount, exitSignals, handlers, outlived>>

Main == StopHTTPServer \/ LoadCount \/ ReceiveSignal \/ CloseStore
Exit(g) == CountDown(g) \/ SignalExit(g)

ShutdownInit ==
  /\ goroutine = [g \in Goroutines |-> "new"] /\ goroutineCount = 0 /\ exitSignals = 0
  /\ handlers = 0 /\ main = "serving" /\ outlived = FALSE

ShutdownNext ==
  \/ handleRequest \/ FinishRequest \/ StopServer \/ Main
  \/ \E g \in Goroutines : Go(g) \/ Exit(g)

(* What a server does, whatever happens elsewhere.                         *)
ShutdownSpec == ShutdownInit /\ [][ShutdownNext]_shutdownVars

(* The store is closed only when no goroutine is left that might use it,   *)
(* if no handler outlives the HTTP server (Shutdown, app/server.go:304).   *)
StoreOutlivesGoroutines ==
  (main \in {"waited", "closed"} /\ ~outlived) => \A g \in Goroutines : ~Running(g)
=============================================================================
