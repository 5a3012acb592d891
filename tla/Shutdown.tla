------------------------------ MODULE Shutdown ------------------------------
(***************************************************************************)
(* How the server ends (cmd/wishapi/main.go, foundation/web and the        *)
(* rotation goroutine of business/keystore).  One channel with room for    *)
(* one signal is shared by all: the runtime and failing handlers send on   *)
(* it, main and the rotation goroutine receive from it, and each signal    *)
(* reaches only one of the two.                                            *)
(***************************************************************************)
EXTENDS Naturals, Sequences

CONSTANTS
  Handlers,     \* requests that can be in progress at the same time
  MaxSignals    \* bound of the model: signals are counted up to this number

ASSUME MaxSignalsAssumption == MaxSignals \in Nat

VARIABLES
  main,        \* where run() is
  rotation,    \* where the rotation goroutine is
  server,      \* where the goroutine of ListenAndServe is
  serverErr,   \* its error waits in the channel serverErr
  buffer,      \* a signal waits in the shutdown channel
  waiters,     \* goroutines parked in a receive from that channel, in order
  handler,     \* handler[h]: where the request h is
  signals,     \* signals sent and not dropped, by the runtime or by a handler
  exit         \* what run() returned

vars == <<main, rotation, server, serverErr, buffer, waiters, handler, signals, exit>>

Receivers == {"main", "rotation"}
Free == {h \in Handlers : handler[h] = "idle"}
Blocked == {h \in Handlers : handler[h] = "blocked"}
Running == main # "returned"
Queues == {<<>>, <<"main">>, <<"rotation">>, <<"main", "rotation">>, <<"rotation", "main">>}
Parked(queue, who) == \E i \in DOMAIN queue : queue[i] = who

Init ==
  /\ main = "starting"
  /\ rotation = "absent"
  /\ server = "absent"
  /\ serverErr = FALSE
  /\ buffer = FALSE
  /\ waiters = <<>>
  /\ handler = [h \in Handlers |-> "idle"]
  /\ signals = 0
  /\ exit = "none"

-----------------------------------------------------------------------------
(* The channel.  A sent signal goes to the goroutine that has waited       *)
(* longest; with none waiting it fills the buffer.                         *)

\* Mutant of Receive: the rotation goroutine takes the signal and goes on.
ReceiveAndRotate(who) ==
  \/ who = "main" /\ main' = "stopping" /\ UNCHANGED rotation
  \/ who = "rotation" /\ rotation' = "selecting" /\ UNCHANGED main

\* main goes on to stop the server, which still listens; the rotation goroutine
\* returns.
Receive(who) ==
  \/ who = "main" /\ main' = "stopping" /\ UNCHANGED rotation
  \/ who = "rotation" /\ rotation' = "stopped" /\ UNCHANGED main

CountSignal == signals' = IF signals < MaxSignals THEN signals + 1 ELSE signals

CanSend == waiters # <<>> \/ ~buffer

Deliver ==
  /\ CanSend
  /\ CountSignal
  /\ IF waiters # <<>>
       THEN Receive(Head(waiters)) /\ waiters' = Tail(waiters) /\ UNCHANGED buffer
       ELSE buffer' = TRUE /\ UNCHANGED <<main, rotation, waiters>>

\* The queue without a goroutine whose select has taken another case.
Others(queue, who) ==
  IF ~Parked(queue, who) THEN queue
  ELSE IF Head(queue) = who THEN Tail(queue) ELSE <<Head(queue)>>

\* A receive takes the buffered signal; a sender that is blocked refills it.
TakeBuffered(who) ==
  /\ buffer
  /\ Receive(who)
  /\ IF Blocked = {}
       THEN buffer' = FALSE /\ UNCHANGED <<handler, signals>>
       ELSE \E h \in Blocked : /\ handler' = [handler EXCEPT ![h] = "idle"]
                               /\ CountSignal
                               /\ UNCHANGED buffer
  /\ UNCHANGED <<server, waiters, serverErr, exit>>

-----------------------------------------------------------------------------
(* main                                                                    *)

\* run starts the keystore and with it the rotation goroutine ...
StartKeystore ==
  /\ main = "starting"
  /\ main' = "wiring"
  /\ rotation' = "selecting"
  /\ UNCHANGED <<server, serverErr, buffer, waiters, handler, signals, exit>>

\* ... builds the application, and starts the server, or fails on the way.
StartServer ==
  /\ main = "wiring"
  /\ main' = "selecting"
  /\ server' = "starting"
  /\ UNCHANGED <<rotation, serverErr, buffer, waiters, handler, signals, exit>>

StartFails ==
  /\ main \in {"starting", "wiring"}
  /\ main' = "returned"
  /\ exit' = "error"
  /\ UNCHANGED <<rotation, server, serverErr, buffer, waiters, handler, signals>>

\* main's select: a case that is ready is taken, else main parks.
MainTakesSignal == main = "selecting" /\ TakeBuffered("main")

MainParks ==
  /\ main = "selecting"
  /\ ~buffer
  /\ ~serverErr
  /\ main' = "waiting"
  /\ waiters' = Append(waiters, "main")
  /\ UNCHANGED <<rotation, server, serverErr, buffer, handler, signals, exit>>

MainTakesError ==
  /\ main \in {"selecting", "waiting"}
  /\ serverErr
  /\ main' = "returned"
  /\ exit' = "error"
  /\ serverErr' = FALSE
  /\ waiters' = Others(waiters, "main")
  /\ UNCHANGED <<rotation, server, buffer, handler, signals>>

\* srv.Shutdown closes the listener.
BeginDrain ==
  /\ main = "stopping"
  /\ main' = "draining"
  /\ server' = IF server = "ended" THEN "ended" ELSE "closing"
  /\ UNCHANGED <<rotation, serverErr, buffer, waiters, handler, signals, exit>>

\* Mutant of DrainTimeout: srv.Shutdown gets a context without a deadline.
DrainUnbounded == FALSE /\ UNCHANGED vars

\* It waits for every request, up to its timeout; then srv.Close
\* cuts the ones that are left.
DrainDone ==
  /\ main = "draining"
  /\ Free = Handlers
  /\ main' = "returned"
  /\ exit' = "clean"
  /\ UNCHANGED <<rotation, server, serverErr, buffer, waiters, handler, signals>>

DrainTimeout ==
  /\ main = "draining"
  /\ Free # Handlers
  /\ main' = "returned"
  /\ exit' = "error"
  /\ UNCHANGED <<rotation, server, serverErr, buffer, waiters, handler, signals>>

-----------------------------------------------------------------------------
(* The server goroutine                                                    *)

Listen ==
  /\ Running
  /\ server = "starting"
  /\ \/ server' = "serving" /\ UNCHANGED serverErr
     \/ server' = "ended" /\ serverErr' = TRUE
  /\ UNCHANGED <<main, rotation, buffer, waiters, handler, signals, exit>>

\* ListenAndServe returns when the listener fails, and with ErrServerClosed
\* as soon as srv.Shutdown is called; main does not read that one any more.
ServerEnds ==
  /\ Running
  /\ server \in {"serving", "closing"}
  /\ server' = "ended"
  /\ serverErr' = TRUE
  /\ UNCHANGED <<main, rotation, buffer, waiters, handler, signals, exit>>

-----------------------------------------------------------------------------
(* The rotation goroutine                                                  *)

RotationTakesSignal == Running /\ rotation = "selecting" /\ TakeBuffered("rotation")

RotationParks ==
  /\ Running
  /\ rotation = "selecting"
  /\ ~buffer
  /\ rotation' = "waiting"
  /\ waiters' = Append(waiters, "rotation")
  /\ UNCHANGED <<main, server, serverErr, buffer, handler, signals, exit>>

\* Mutant of RotationTick: the goroutine stays in the queue of receivers.
RotationTickParked ==
  /\ Running
  /\ rotation \in {"selecting", "waiting"}
  /\ rotation' = "rotating"
  /\ UNCHANGED <<main, server, serverErr, buffer, waiters, handler, signals, exit>>

\* The ticker fires: a round runs.
RotationTick ==
  /\ Running
  /\ rotation \in {"selecting", "waiting"}
  /\ rotation' = "rotating"
  /\ waiters' = Others(waiters, "rotation")
  /\ UNCHANGED <<main, server, serverErr, buffer, handler, signals, exit>>

\* The round ends, or fails and hangs in its send on the nil channel critErrs.
RotationRound ==
  /\ Running
  /\ rotation = "rotating"
  /\ rotation' \in {"selecting", "hung"}
  /\ UNCHANGED <<main, server, serverErr, buffer, waiters, handler, signals, exit>>

-----------------------------------------------------------------------------
(* The runtime and the requests                                            *)

\* A signal from outside is dropped when the buffer is full.
OSSignal ==
  /\ Running
  /\ Deliver
  /\ UNCHANGED <<server, serverErr, handler, exit>>

Accept(h) ==
  /\ Running
  /\ server = "serving"
  /\ handler[h] = "idle"
  /\ handler' = [handler EXCEPT ![h] = "running"]
  /\ UNCHANGED <<main, rotation, server, serverErr, buffer, waiters, signals, exit>>

\* The handler answers; or the answer cannot be written, Handle writes a 500
\* and is about to call shutServerDown.
Answer(h) ==
  /\ Running
  /\ handler[h] = "running"
  /\ handler' = [handler EXCEPT ![h] = "idle"]
  /\ UNCHANGED <<main, rotation, server, serverErr, buffer, waiters, signals, exit>>

LoseIntegrity(h) ==
  /\ Running
  /\ handler[h] = "running"
  /\ handler' = [handler EXCEPT ![h] = "sending"]
  /\ UNCHANGED <<main, rotation, server, serverErr, buffer, waiters, signals, exit>>

\* shutServerDown sends, and blocks the request while the channel is full.
ShutServerDown(h) ==
  /\ Running
  /\ handler[h] = "sending"
  /\ \/ Deliver /\ handler' = [handler EXCEPT ![h] = "idle"]
     \/ /\ ~CanSend
        /\ handler' = [handler EXCEPT ![h] = "blocked"]
        /\ UNCHANGED <<main, rotation, buffer, waiters, signals>>
  /\ UNCHANGED <<server, serverErr, exit>>

Main == \/ StartKeystore \/ StartServer \/ StartFails \/ MainTakesSignal \/ MainParks
        \/ MainTakesError \/ BeginDrain \/ DrainDone \/ DrainTimeout

Rotation == RotationTakesSignal \/ RotationParks \/ RotationTick \/ RotationRound

Next ==
  \/ Main
  \/ Rotation
  \/ Listen \/ ServerEnds
  \/ OSSignal
  \/ \E h \in Handlers : Accept(h) \/ Answer(h) \/ LoseIntegrity(h) \/ ShutServerDown(h)

Spec == Init /\ [][Next]_vars

\* run goes on: srv.Shutdown has a timeout, and a select takes a ready case.
\* The goroutines that can run do, and a send that can be made is made.
\* Nothing forces a request to end, a tick, or a signal from outside.
Fairness ==
  /\ WF_vars(Main)
  /\ WF_vars(RotationTakesSignal \/ RotationParks \/ RotationRound)
  /\ WF_vars(Listen)
  /\ \A h \in Handlers : WF_vars(ShutServerDown(h))

FairSpec == Spec /\ Fairness

-----------------------------------------------------------------------------
(* Properties                                                              *)

\* The places of the goroutines; only main and the rotation goroutine park in
\* a receive, each at most once, and exactly while they wait there.
TypeOK ==
  /\ main \in {"starting", "wiring", "selecting", "waiting", "stopping", "draining", "returned"}
  /\ rotation \in {"absent", "selecting", "waiting", "rotating", "hung", "stopped"}
  /\ server \in {"absent", "starting", "serving", "closing", "ended"}
  /\ serverErr \in BOOLEAN
  /\ buffer \in BOOLEAN
  /\ waiters \in Queues
  /\ Running => (main = "waiting" <=> Parked(waiters, "main"))
  /\ rotation = "waiting" <=> Parked(waiters, "rotation")
  /\ handler \in [Handlers -> {"idle", "running", "sending", "blocked"}]
  /\ signals \in 0..MaxSignals
  /\ exit \in {"none", "clean", "error"}

\* Until main has taken a signal, or has failed, every signal that was not dropped
\* waits in the channel or has stopped the rotation goroutine: none is lost
\* between requests, the runtime and the two receivers.
NoSignalLost ==
  main \notin {"stopping", "draining", "returned"} =>
    signals <= (IF buffer THEN 1 ELSE 0) + (IF rotation = "stopped" THEN 1 ELSE 0)

\* A request that blocks in shutServerDown is released, or the process ends:
\* requests that fail while main drains do not keep it from ending.
BlockedReleased == \A h \in Handlers : handler[h] = "blocked" ~> handler[h] # "blocked" \/ ~Running

\* The rotation goroutine takes one signal at most: the second one that is not
\* dropped ends the server, whatever requests and rounds are in progress.
SecondSignalStops == signals = 2 ~> ~Running

\* The server shuts down when integrity is lost: a request that calls
\* shutServerDown is followed by the end of run.
LostIntegrityStops == \A h \in Handlers : handler[h] = "sending" ~> ~Running
=============================================================================
