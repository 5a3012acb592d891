----------------------------- MODULE WebRequest ------------------------------
(***************************************************************************)
(* The way of a request through the web framework (foundation/web) and its *)
(* middlewares (business/web/middlewares) to the answer that its client    *)
(* gets, with the time limits of the server (cmd/wishapi/main.go).  A      *)
(* request of verify-email calls Send of Courier on its way.               *)
(*                                                                         *)
(* Code takes no time.  Time passes while a request reads its body, which   *)
(* has a limit, or waits for the database, which has none, while Send      *)
(* waits, and while the server is idle.                                    *)
(***************************************************************************)
EXTENDS Naturals, FiniteSets, Courier

CONSTANTS
  Settings,      \* time limits that the server can be configured with
  MaxTime        \* bound: the clock stops here, late requests do not come

ASSUME SettingsAssumption ==
  Settings \subseteq [read : Nat, write : Nat \ {0}, mail : Nat, shutdown : Nat]
ASSUME TimeAssumption == MaxTime \in Nat

VARIABLES
  setting,    \* the limits in force; never changes
  now,        \* the time
  server,     \* where run() is: serving, stopping, draining, or ended
  drainDue,   \* when srv.Shutdown gives up
  pc,         \* pc[r]: the step or the layer that the request is at
  data,       \* data[r]: what its handler answers with when all goes well
  err,        \* err[r]: the error that the layer before has returned
  status,     \* status[r]: StatusCode of its Values
  header,     \* header[r]: the status line written, 0 for none
  writeErr,   \* writeErr[r]: a write of its answer has failed
  logged,     \* logged[r]: the status of its line "request ended", 0 for none
  gone,       \* gone[r]: the client has closed the connection
  stepDue,    \* stepDue[r]: when the wait of this step ends at the latest
  waited,     \* waited[r]: how long the request has waited for the database
  writeDue,   \* writeDue[r]: the write deadline of its connection
  received,   \* received[r]: the status that the client has got, 0 for none
  lost        \* requests that have called shutServerDown

answerVars == <<err, status, header, writeErr, logged, received, lost>>
timeVars   == <<now, stepDue, waited, writeDue>>
serverVars == <<setting, server, drainDue>>
vars == <<courierVars, pc, data, gone, answerVars, timeVars, serverVars>>

Steps == {"idle", "read", "query", "send", "respond", "errors", "log", "handle", "flush", "done"}

Statuses == {200, 201, 204, 400, 401, 425, 500, 503}

Errors == {"badRequest", "fields", "unauthorized", "tooEarly", "external", "internal", "write"}

Running == server \in {"serving", "stopping", "draining"}
InProgress(r) == pc[r] \notin {"idle", "done"}

\* The client gets nothing of what is written now.
Unreachable(r) == gone[r] \/ now >= writeDue[r]

Init ==
  /\ CourierInit
  /\ setting \in Settings
  /\ now = 0
  /\ server = "serving"
  /\ drainDue = 0
  /\ pc = [r \in Requests |-> "idle"]
  /\ data = [r \in Requests |-> "none"]
  /\ err = [r \in Requests |-> "nil"]
  /\ status = [r \in Requests |-> 0]
  /\ header = [r \in Requests |-> 0]
  /\ writeErr = [r \in Requests |-> FALSE]
  /\ logged = [r \in Requests |-> 0]
  /\ gone = [r \in Requests |-> FALSE]
  /\ stepDue = [r \in Requests |-> 0]
  /\ waited = [r \in Requests |-> 0]
  /\ writeDue = [r \in Requests |-> 0]
  /\ received = [r \in Requests |-> 0]
  /\ lost = {}

GoTo(r, step) == pc' = [pc EXCEPT ![r] = step]

-----------------------------------------------------------------------------
(* The answer                                                              *)

\* Mutant of Outer: the first middleware is applied first.
OuterReversed == [handler |-> "log", log |-> "errors", errors |-> "handle"]

\* applyMiddlewares on <<Log, Errors>>: the layer that a layer returns to.
Outer == [handler |-> "errors", errors |-> "log", log |-> "handle"]

\* The status of the Errors middleware.
StatusOf(e) == CASE e \in {"badRequest", "fields"} -> 400
                 [] e = "unauthorized"             -> 401
                 [] e = "tooEarly"                 -> 425
                 [] e = "external"                 -> 503
                 [] OTHER                          -> 500

\* Only the first status line counts.
FirstHeader(r, code) == IF header[r] = 0 THEN code ELSE header[r]

\* web.Respond.  A write goes to a buffer: it fails when the content does not
\* fit and the connection is of no use, and after another write has failed.
Respond(r, code, content) ==
  /\ status' = [status EXCEPT ![r] = code]
  /\ \/ /\ content = "unmarshalable"
        /\ err' = [err EXCEPT ![r] = "internal"]
        /\ UNCHANGED <<header, writeErr>>
     \/ /\ content \in {"none", "small", "large"}
        /\ header' = [header EXCEPT ![r] = FirstHeader(r, code)]
        /\ \/ /\ content = "none" \/ ~writeErr[r]
              /\ err' = [err EXCEPT ![r] = "nil"]
              /\ UNCHANGED writeErr
           \/ /\ content # "none"
              /\ writeErr[r] \/ (content = "large" /\ Unreachable(r))
              /\ err' = [err EXCEPT ![r] = "write"]
              /\ writeErr' = [writeErr EXCEPT ![r] = TRUE]

\* Mutant of ErrorsLayer: the error is answered and returned.
ErrorsLayerReturning(r) ==
  /\ pc[r] = "errors"
  /\ GoTo(r, Outer["errors"])
  /\ IF err[r] = "nil"
       THEN UNCHANGED <<err, status, header, writeErr>>
       ELSE /\ status' = [status EXCEPT ![r] = StatusOf(err[r])]
            /\ header' = [header EXCEPT ![r] = FirstHeader(r, StatusOf(err[r]))]
            /\ UNCHANGED <<err, writeErr>>
  /\ UNCHANGED <<courierVars, data, gone, logged, received, lost, timeVars, serverVars>>

\* The Errors middleware answers an error, and returns the one of Respond.
ErrorsLayer(r) ==
  /\ pc[r] = "errors"
  /\ GoTo(r, Outer["errors"])
  /\ IF err[r] = "nil"
       THEN UNCHANGED <<err, status, header, writeErr>>
       ELSE Respond(r, StatusOf(err[r]), "small")
  /\ UNCHANGED <<courierVars, data, gone, logged, received, lost, timeVars, serverVars>>

\* The Log middleware logs the status, or the error that it hands on.
LogLayer(r) ==
  /\ pc[r] = "log"
  /\ GoTo(r, Outer["log"])
  /\ logged' = [logged EXCEPT ![r] = IF err[r] = "nil" THEN status[r] ELSE 0]
  /\ UNCHANGED <<courierVars, data, gone, err, status, header, writeErr, received, lost,
                 timeVars, serverVars>>

\* The function of Handle: an error that comes so far means lost integrity.
HandleLayer(r) ==
  /\ pc[r] = "handle"
  /\ GoTo(r, "flush")
  /\ IF err[r] = "nil"
       THEN UNCHANGED <<header, lost>>
       ELSE /\ header' = [header EXCEPT ![r] = FirstHeader(r, 500)]
            /\ lost' = lost \cup {r}
  /\ UNCHANGED <<courierVars, data, gone, err, status, writeErr, logged, received,
                 timeVars, serverVars>>

\* net/http sends what is in the buffers, if it still can.
Flush(r) ==
  /\ pc[r] = "flush"
  /\ GoTo(r, "done")
  /\ received' = [received EXCEPT ![r] =
                    IF writeErr[r] \/ Unreachable(r) THEN 0 ELSE header[r]]
  /\ UNCHANGED <<courierVars, data, gone, err, status, header, writeErr, logged, lost,
                 timeVars, serverVars>>

-----------------------------------------------------------------------------
(* The handlers                                                            *)

\* A request arrives; its connection gets a write deadline, which nothing on
\* the way extends.  With another method than the route's it is answered at once.
Arrive(r) ==
  /\ server \in {"serving", "stopping"}
  /\ pc[r] = "idle"
  /\ now + setting.read + setting.mail <= MaxTime
  /\ writeDue' = [writeDue EXCEPT ![r] = now + setting.write]
  /\ \/ /\ GoTo(r, "read")
        /\ data' \in {[data EXCEPT ![r] = d] : d \in {"none", "small", "large", "unmarshalable"}}
        /\ stepDue' = [stepDue EXCEPT ![r] = now + setting.read]
        /\ UNCHANGED header
     \/ /\ GoTo(r, "flush")
        /\ header' = [header EXCEPT ![r] = 405]
        /\ UNCHANGED <<data, stepDue>>
  /\ UNCHANGED <<courierVars, gone, err, status, writeErr, logged, received, lost, now, waited,
                 serverVars>>

\* The body has been read, before the read timeout of the server.
Read(r) ==
  /\ pc[r] = "read"
  /\ GoTo(r, "query")
  /\ UNCHANGED <<courierVars, data, gone, answerVars, timeVars, serverVars>>

\* The handler returns an error: the body is malformed or has wrong fields; or
\* the request is refused, or something that it calls fails.
HandlerFails(r) ==
  /\ \/ /\ pc[r] = "read"
        /\ \E e \in {"badRequest", "fields"} : err' = [err EXCEPT ![r] = e]
     \/ /\ pc[r] = "query"
        /\ \E e \in {"badRequest", "unauthorized", "tooEarly", "internal"} :
             err' = [err EXCEPT ![r] = e]
  /\ GoTo(r, Outer["handler"])
  /\ UNCHANGED <<courierVars, data, gone, status, header, writeErr, logged, received, lost,
                 timeVars, serverVars>>

\* A handler that sends no mail has its answer ready.
Ready(r) ==
  /\ pc[r] = "query"
  /\ GoTo(r, "respond")
  /\ UNCHANGED <<courierVars, data, gone, answerVars, timeVars, serverVars>>

\* Mutant of StartMail: the context of the mail has no timeout.
StartMailUnbounded(r) ==
  /\ pc[r] = "query"
  /\ data[r] = "none"
  /\ GoTo(r, "send")
  /\ SendBegins(r, FALSE)
  /\ stepDue' = [stepDue EXCEPT ![r] = MaxTime]
  /\ UNCHANGED <<data, gone, answerVars, now, waited, writeDue, serverVars>>

\* verifyEmail makes a context of its own for the mail, with a timeout.
StartMail(r) ==
  /\ pc[r] = "query"
  /\ data[r] = "none"
  /\ GoTo(r, "send")
  /\ SendBegins(r, setting.mail = 0)
  /\ stepDue' = [stepDue EXCEPT ![r] = now + setting.mail]
  /\ UNCHANGED <<data, gone, answerVars, now, waited, writeDue, serverVars>>

\* Mutant of MailDone: at the deadline the handler does not wait for Send.
MailDoneEarly(r) ==
  /\ pc[r] = "send"
  /\ call[r] \in {"error", "nil"} \/ now >= stepDue[r]
  /\ GoTo(r, Outer["handler"])
  /\ err' = [err EXCEPT ![r] = "external"]
  /\ UNCHANGED <<courierVars, data, gone, status, header, writeErr, logged, received, lost,
                 timeVars, serverVars>>

\* An error of Send is an external one; the code may fail to be saved.
MailDone(r) ==
  /\ pc[r] = "send"
  /\ \/ /\ call[r] = "error"
        /\ err' = [err EXCEPT ![r] = "external"]
        /\ GoTo(r, Outer["handler"])
     \/ /\ call[r] = "nil"
        /\ err' = [err EXCEPT ![r] = "internal"]
        /\ GoTo(r, Outer["handler"])
     \/ /\ call[r] = "nil"
        /\ GoTo(r, "respond")
        /\ UNCHANGED err
  /\ UNCHANGED <<courierVars, data, gone, status, header, writeErr, logged, received, lost,
                 timeVars, serverVars>>

\* The status of a good answer: 204 when a mail was sent, 201 for a new user.
GoodStatus(r) == IF data[r] # "none" THEN 200 ELSE IF call[r] = "nil" THEN 204 ELSE 201

\* The handler returns what Respond returns.
Answer(r) ==
  /\ pc[r] = "respond"
  /\ GoTo(r, Outer["handler"])
  /\ Respond(r, GoodStatus(r), data[r])
  /\ UNCHANGED <<courierVars, data, gone, logged, received, lost, timeVars, serverVars>>

Handle(r) == \/ Read(r) \/ HandlerFails(r) \/ Ready(r) \/ StartMail(r) \/ MailDone(r) \/ Answer(r)
             \/ ErrorsLayer(r) \/ LogLayer(r) \/ HandleLayer(r) \/ Flush(r)

-----------------------------------------------------------------------------
(* The client, the server, and time                                        *)

ClientLeaves(r) ==
  /\ InProgress(r)
  /\ ~gone[r]
  /\ gone' = [gone EXCEPT ![r] = TRUE]
  /\ UNCHANGED <<courierVars, pc, data, answerVars, timeVars, serverVars>>

\* main takes a signal, and the listener is still open ...
TakeSignal ==
  /\ server = "serving"
  /\ server' = "stopping"
  /\ UNCHANGED <<courierVars, pc, data, gone, answerVars, timeVars, setting, drainDue>>

\* ... until srv.Shutdown closes it and begins to wait, with a timeout.
BeginDrain ==
  /\ server = "stopping"
  /\ server' = "draining"
  /\ drainDue' = now + setting.shutdown
  /\ UNCHANGED <<courierVars, pc, data, gone, answerVars, timeVars, setting>>

\* Mutant of EndDrain: the drain does not wait.
EndDrainAtOnce ==
  /\ server = "draining"
  /\ server' = IF \E r \in Requests : InProgress(r) THEN "cut" ELSE "clean"
  /\ UNCHANGED <<courierVars, pc, data, gone, answerVars, timeVars, setting, drainDue>>

\* It has waited for every request, or has to cut those that are left.
EndDrain ==
  /\ server = "draining"
  /\ \/ (\A r \in Requests : ~InProgress(r)) /\ server' = "clean"
     \/ /\ now >= drainDue
        /\ \E r \in Requests : InProgress(r)
        /\ server' = "cut"
  /\ UNCHANGED <<courierVars, pc, data, gone, answerVars, timeVars, setting, drainDue>>

\* What a request waits for: its body, the database, or the courier.
Waits(r) == \/ pc[r] = "read" /\ now < stepDue[r]
            \/ pc[r] = "query"
            \/ pc[r] = "send" /\ call[r] = "sending" /\ now < stepDue[r]

Tick ==
  /\ now < MaxTime
  /\ \A r \in Requests : InProgress(r) => Waits(r)
  /\ server = "draining" => now < drainDue
  /\ now' = now + 1
  /\ waited' = [r \in Requests |-> IF pc[r] = "query" THEN waited[r] + 1 ELSE waited[r]]
  /\ UNCHANGED <<courierVars, pc, data, gone, answerVars, stepDue, writeDue, serverVars>>

\* The goroutines of a Send know nothing of the request.
Apart == UNCHANGED <<pc, data, gone, answerVars, timeVars, serverVars>>
MailStep(r) == Sending(r) /\ Apart

Next ==
  /\ Running
  /\ \/ \E r \in Requests : Arrive(r) \/ Handle(r) \/ MailStep(r) \/ ClientLeaves(r)
     \/ TakeSignal \/ BeginDrain \/ EndDrain
     \/ Tick

Spec == Init /\ [][Next]_vars

\* The encoding goroutine is scheduled, Send returns when the exchange has ended,
\* and the exchange ends at its deadline at the latest.  Nothing else is forced:
\* not the handlers, not the database, not the service, not the transport to
\* read or to close the pipe, not a client, not a signal.
Fairness ==
  \A r \in Requests :
    /\ WF_vars(Running /\ (Encoder(r) \/ SendReturns(r)) /\ Apart)
    /\ WF_vars(Running /\ ExchangeFails(r) /\ Apart)

FairSpec == Spec /\ Fairness

-----------------------------------------------------------------------------
(* Properties                                                              *)

\* The shape of the state; a Send is in progress only while its request is at
\* the step that waits for it.
TypeOK ==
  /\ CourierTypeOK
  /\ setting \in Settings
  /\ now \in Nat /\ drainDue \in Nat
  /\ server \in {"serving", "stopping", "draining", "clean", "cut"}
  /\ pc \in [Requests -> Steps]
  /\ data \in [Requests -> {"none", "small", "large", "unmarshalable"}]
  /\ err \in [Requests -> {"nil"} \cup Errors]
  /\ status \in [Requests -> {0} \cup Statuses]
  /\ header \in [Requests -> {0, 405} \cup Statuses]
  /\ logged \in [Requests -> {0} \cup Statuses]
  /\ received \in [Requests -> {0, 405} \cup Statuses]
  /\ writeErr \in [Requests -> BOOLEAN]
  /\ gone \in [Requests -> BOOLEAN]
  /\ stepDue \in [Requests -> Nat] /\ waited \in [Requests -> Nat]
  /\ writeDue \in [Requests -> Nat]
  /\ lost \subseteq Requests
  /\ \A r \in Requests : call[r] = "sending" => pc[r] = "send"

\* A request that has been answered through the middlewares has a line in the
\* log with the status on its status line, also when a handler's answer fails
\* half way and the Errors middleware answers in its place.
LoggedAsAnswered ==
  \A r \in Requests :
    pc[r] = "done" /\ header[r] # 405 => logged[r] = header[r] \/ r \in lost

\* Only an answer that could not be written costs the server its integrity: no
\* error of a handler, a service or the database gets past the middlewares.
IntegrityKept == \A r \in lost : writeErr[r] /\ received[r] = 0

\* The longest that a request can take: for its body, for the database as long as
\* it did take, and for the mail.
Longest(r) == setting.read + waited[r] + setting.mail

\* The limits leave time to answer it after that.
AnswerCovered(r) == Longest(r) < setting.write

\* A client that stays gets the answer that was written, also that the mail
\* service is not available: provided that the limits and the database leave time
\* for it.
AnswerArrives ==
  \A r \in Requests :
    AnswerCovered(r) /\ pc[r] = "done" /\ ~gone[r] => received[r] = header[r] /\ header[r] # 0

\* The drain cuts only requests that its timeout does not cover: the limits for
\* body and mail leave no time, or the database took what they left.  Requests
\* that came when main had taken the signal are cut no sooner than others.
DrainCutsTheSlow ==
  server = "cut" => \A r \in Requests : InProgress(r) => Longest(r) >= setting.shutdown

\* A goroutine that writes a mail into a pipe ends, whether the mail is read or
\* not, unless the process does.
EncoderEnds ==
  \A r \in Requests : encoder[r] = "writing" ~> encoder[r] = "ended" \/ ~Running

\* For each request Send does what its caller relies on.
ImplementsMailClient == Client!Spec
=============================================================================
