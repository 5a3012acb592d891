-------------------------- MODULE WebRequestProofs ---------------------------
(***************************************************************************)
(* Theorems about WebRequest, for any number of requests, any time limits, *)
(* any waits for the database, and any bound of the clock.                 *)
(***************************************************************************)
EXTENDS WebRequest, TLAPS

-----------------------------------------------------------------------------
(* Types, and how a request and its mail go together                       *)

\* What is known of the mail of a request: Send is called at one step and waited
\* for there, and a good answer of the service means that it has the mail.
MailFacts(r) ==
  /\ pc[r] \in {"idle", "read", "query"} => call[r] = "none"
  /\ pc[r] = "send" => call[r] # "none"
  /\ call[r] = "none" => exchange[r] = "absent" /\ body[r] = "nothing" /\ encoder[r] = "absent"
  /\ exchange[r] = "good" => accepted[r]

MailInv == TypeOK /\ \A r \in Requests : MailFacts(r)

LEMMA MailInit == Init => MailInv
  BY SettingsAssumption
     DEF Init, CourierInit, MailInv, MailFacts, TypeOK, CourierTypeOK, Steps, Statuses

\* Limits are numbers.
LEMMA Limits ==
  ASSUME TypeOK
  PROVE  /\ setting.read \in Nat /\ setting.write \in Nat \ {0}
         /\ setting.mail \in Nat /\ setting.shutdown \in Nat
  BY SettingsAssumption DEF TypeOK

\* Respond keeps the types of what it writes.
LEMMA RespondTypes ==
  ASSUME TypeOK, NEW r \in Requests, NEW code \in Statuses, NEW content, Respond(r, code, content)
  PROVE  /\ status' \in [Requests -> {0} \cup Statuses]
         /\ header' \in [Requests -> {0, 405} \cup Statuses]
         /\ err' \in [Requests -> {"nil"} \cup Errors]
         /\ writeErr' \in [Requests -> BOOLEAN]
<1>1. status' \in [Requests -> {0} \cup Statuses]
  BY DEF Respond, TypeOK
<1>2. header' \in [Requests -> {0, 405} \cup Statuses]
  BY DEF Respond, FirstHeader, TypeOK
<1>3. err' \in [Requests -> {"nil"} \cup Errors]
  BY DEF Respond, TypeOK, Errors
<1>4. writeErr' \in [Requests -> BOOLEAN]
  BY DEF Respond, TypeOK
<1>5. QED
  BY <1>1, <1>2, <1>3, <1>4

\* The steps of a Send keep them, and touch nothing of the request.
LEMMA MailSteps ==
  ASSUME MailInv, NEW r \in Requests, MailStep(r)
  PROVE  MailInv'
<1> USE DEF MailInv, MailFacts, TypeOK, CourierTypeOK, answerVars, timeVars, serverVars, Apart
<1>1. UNCHANGED <<pc, data, gone, answerVars, timeVars, serverVars>>
  BY DEF MailStep
<1>2. CASE EncoderCloses(r) \/ EncoderFails(r)
  BY <1>1, <1>2 DEF EncoderCloses, EncoderFails
<1>3. CASE ReadMessage(r) \/ ReadEnd(r)
  BY <1>1, <1>3 DEF ReadMessage, ReadEnd
<1>4. CASE ServiceAccepts(r)
  BY <1>1, <1>4 DEF ServiceAccepts
<1>5. CASE ServiceAnswers(r)
  BY <1>1, <1>5 DEF ServiceAnswers
<1>6. CASE ExchangeFails(r)
  BY <1>1, <1>6 DEF ExchangeFails
<1>7. CASE TransportCloses(r)
  BY <1>1, <1>7 DEF TransportCloses
<1>8. CASE SendReturns(r)
  BY <1>1, <1>8 DEF SendReturns
<1>9. QED
  BY <1>2, <1>3, <1>4, <1>5, <1>6, <1>7, <1>8 DEF MailStep, Sending, Encoder, Transport

\* So do the steps of a handler.
LEMMA MailHandler ==
  ASSUME MailInv, NEW r \in Requests, Arrive(r) \/ Handle(r)
  PROVE  MailInv'
<1> USE DEF MailInv, MailFacts, TypeOK, CourierTypeOK, answerVars, timeVars, serverVars, courierVars,
            GoTo, Steps, Errors, Outer
<1>1. CASE Arrive(r)
  <2>1. now + setting.read \in Nat /\ now + setting.write \in Nat
    BY Limits
  <2>2. pc[r] = "idle"
    BY <1>1 DEF Arrive
  <2>3. CASE pc' = [pc EXCEPT ![r] = "read"]
    BY <1>1, <2>1, <2>2, <2>3 DEF Arrive
  <2>4. CASE pc' = [pc EXCEPT ![r] = "flush"]
    BY <1>1, <2>1, <2>2, <2>4 DEF Arrive
  <2>5. QED
    BY <1>1, <2>3, <2>4 DEF Arrive
<1>2. CASE Read(r) \/ HandlerFails(r) \/ Ready(r)
  <2>1. CASE Read(r)
    BY <2>1 DEF Read
  <2>2. CASE HandlerFails(r)
    <3>1. UNCHANGED <<courierVars, data, gone, status, header, writeErr, logged, received, lost,
                      timeVars, serverVars>>
      BY <2>2 DEF HandlerFails
    <3>2. err' \in [Requests -> {"nil"} \cup Errors]
      BY <2>2 DEF HandlerFails
    <3>3. pc' = [pc EXCEPT ![r] = "errors"] /\ pc[r] \in {"read", "query"}
      BY <2>2 DEF HandlerFails
    <3>4. QED
      BY <3>1, <3>2, <3>3
  <2>3. CASE Ready(r)
    BY <2>3 DEF Ready
  <2>4. QED
    BY <1>2, <2>1, <2>2, <2>3
<1>3. CASE StartMail(r)
  <2>1. now + setting.mail \in Nat
    BY Limits
  <2>2. pc[r] = "query" /\ call[r] = "none"
    BY <1>3 DEF StartMail
  <2>3. /\ pc' = [pc EXCEPT ![r] = "send"]
        /\ stepDue' = [stepDue EXCEPT ![r] = now + setting.mail]
        /\ UNCHANGED <<readClosed, body, accepted, data, gone, answerVars, now, waited, writeDue,
                       serverVars>>
    BY <1>3 DEF StartMail, SendBegins
  <2>4. CASE setting.mail = 0
    <3>1. call' = [call EXCEPT ![r] = "error"] /\ UNCHANGED <<encoder, exchange>>
      BY <1>3, <2>4 DEF StartMail, SendBegins
    <3>2. QED
      BY <2>1, <2>2, <2>3, <3>1
  <2>5. CASE setting.mail # 0
    <3>1. /\ call' = [call EXCEPT ![r] = "sending"]
          /\ encoder' = [encoder EXCEPT ![r] = "writing"]
          /\ exchange' = [exchange EXCEPT ![r] = "posting"]
      BY <1>3, <2>5 DEF StartMail, SendBegins
    <3>2. QED
      BY <2>1, <2>2, <2>3, <3>1
  <2>6. QED
    BY <2>4, <2>5
<1>4. CASE MailDone(r)
  <2>1. UNCHANGED <<courierVars, data, gone, status, header, writeErr, logged, received, lost,
                    timeVars, serverVars>>
    BY <1>4 DEF MailDone
  <2>2. err' \in [Requests -> {"nil"} \cup Errors]
    BY <1>4 DEF MailDone
  <2>3. /\ pc[r] = "send"
        /\ pc' = [pc EXCEPT ![r] = "errors"] \/ pc' = [pc EXCEPT ![r] = "respond"]
    BY <1>4 DEF MailDone
  <2>4. TypeOK'
    <3>1. pc' \in [Requests -> Steps] /\ CourierTypeOK'
      BY <2>1, <2>3
    <3>2. ASSUME NEW s \in Requests, call'[s] = "sending" PROVE pc'[s] = "send"
      <4>1. call[s] = "sending" /\ pc[s] = "send" /\ s # r
        BY <1>4, <2>1, <3>2 DEF MailDone
      <4>2. QED
        BY <2>3, <4>1
    <3>3. QED
      BY <2>1, <2>2, <3>1, <3>2
  <2>5. ASSUME NEW s \in Requests PROVE MailFacts(s)'
    BY <2>1, <2>3
  <2>6. QED
    BY <2>4, <2>5
<1>5. CASE Answer(r)
  <2>1. GoodStatus(r) \in Statuses
    BY DEF GoodStatus, Statuses
  <2>2. QED
    BY <1>5, <2>1, RespondTypes DEF Answer
<1>6. CASE ErrorsLayer(r)
  <2>1. StatusOf(err[r]) \in Statuses
    BY DEF StatusOf, Statuses
  <2>2. CASE err[r] = "nil"
    BY <1>6, <2>2 DEF ErrorsLayer
  <2>3. CASE err[r] # "nil"
    BY <1>6, <2>1, <2>3, RespondTypes DEF ErrorsLayer
  <2>4. QED
    BY <2>2, <2>3
<1>7. CASE LogLayer(r)
  BY <1>7 DEF LogLayer
<1>8. CASE HandleLayer(r)
  BY <1>8 DEF HandleLayer, FirstHeader, Statuses
<1>9. CASE Flush(r)
  BY <1>9 DEF Flush
<1>10. QED
  BY <1>1, <1>2, <1>3, <1>4, <1>5, <1>6, <1>7, <1>8, <1>9 DEF Handle

LEMMA MailNext == MailInv /\ [Next]_vars => MailInv'
<1> SUFFICES ASSUME MailInv, [Next]_vars PROVE MailInv'
  OBVIOUS
<1> USE DEF MailInv, MailFacts, TypeOK, CourierTypeOK, answerVars, timeVars, serverVars, courierVars
<1>1. ASSUME NEW r \in Requests, Arrive(r) \/ Handle(r) \/ MailStep(r) PROVE MailInv'
  BY <1>1, MailHandler, MailSteps
<1>2. ASSUME NEW r \in Requests, ClientLeaves(r) PROVE MailInv'
  BY <1>2 DEF ClientLeaves
<1>3. CASE TakeSignal \/ BeginDrain \/ EndDrain
  BY <1>3, Limits DEF TakeSignal, BeginDrain, EndDrain
<1>4. CASE Tick
  BY <1>4 DEF Tick
<1>5. CASE UNCHANGED vars
  BY <1>5 DEF vars
<1>6. QED
  BY <1>1, <1>2, <1>3, <1>4, <1>5 DEF Next

LEMMA MailHolds == Spec => []MailInv
  BY MailInit, MailNext, PTL DEF Spec

\* Requests are at steps that exist, and a Send is in progress only while its
\* request waits for it, for any number of requests and any limits.
THEOREM WebTypes == Spec => []TypeOK
<1>1. MailInv => TypeOK
  BY DEF MailInv
<1>2. QED
  BY <1>1, MailHolds, PTL

-----------------------------------------------------------------------------
(* Send implements MailClient                                              *)

LEMMA ClientStep == MailInv /\ [Next]_vars => [Client!Next]_(Client!mailVars)
<1> SUFFICES ASSUME MailInv, [Next]_vars PROVE [Client!Next]_(Client!mailVars)
  OBVIOUS
<1> USE DEF MailInv, MailFacts, TypeOK, CourierTypeOK, Client!Next, Client!mailVars, Client!Begin,
            Client!Accept, Client!ReturnNil, Client!ReturnError, courierVars
<1>1. ASSUME NEW r \in Requests, MailStep(r) PROVE [Client!Next]_(Client!mailVars)
  <2>1. CASE Encoder(r) \/ ReadMessage(r) \/ ReadEnd(r)
    BY <2>1 DEF Encoder, EncoderCloses, EncoderFails, ReadMessage, ReadEnd
  <2>2. CASE ServiceAnswers(r) \/ ExchangeFails(r) \/ TransportCloses(r)
    BY <2>2 DEF ServiceAnswers, ExchangeFails, TransportCloses
  <2>3. CASE ServiceAccepts(r)
    BY <2>3 DEF ServiceAccepts
  <2>4. CASE SendReturns(r)
    BY <2>4 DEF SendReturns
  <2>5. QED
    BY <1>1, <2>1, <2>2, <2>3, <2>4 DEF MailStep, Sending, Transport
<1>2. ASSUME NEW r \in Requests, StartMail(r) PROVE [Client!Next]_(Client!mailVars)
  BY <1>2 DEF StartMail, SendBegins
<1>3. ASSUME NEW r \in Requests, Arrive(r) \/ (Handle(r) /\ ~StartMail(r)) \/ ClientLeaves(r)
      PROVE  [Client!Next]_(Client!mailVars)
  <2>1. UNCHANGED courierVars
    BY <1>3 DEF Arrive, Handle, Read, HandlerFails, Ready, MailDone, Answer, ErrorsLayer, LogLayer,
                HandleLayer, Flush, ClientLeaves
  <2>2. QED
    BY <2>1
<1>4. CASE TakeSignal \/ BeginDrain \/ EndDrain \/ Tick \/ UNCHANGED vars
  BY <1>4 DEF TakeSignal, BeginDrain, EndDrain, Tick, vars
<1>5. QED
  BY <1>1, <1>2, <1>3, <1>4 DEF Next

\* Send keeps what email.Client promises, with its pipe, its goroutine and the
\* transport in any order: nil only when the service has the mail, one result
\* for a call, and no mail without a call.
THEOREM SendImplementsClient == Spec => ImplementsMailClient
<1>1. Init => Client!Init
  BY DEF Init, CourierInit, Client!Init
<1>2. QED
  BY <1>1, ClientStep, MailHolds, PTL DEF Spec, ImplementsMailClient, Client!Spec

-----------------------------------------------------------------------------
(* The answer and the log                                                  *)

\* What is known of an answer on its way through the layers.  An error that the
\* Errors middleware finds has no status line yet, unless its write has failed:
\* for this Respond is called a second time only then.
FlowFacts(r) ==
  /\ pc[r] \in {"idle", "read", "query", "send", "respond"} => header[r] = 0 /\ ~writeErr[r]
  /\ err[r] = "write" => writeErr[r]
  /\ pc[r] = "errors" /\ err[r] # "nil" /\ header[r] # 0 => writeErr[r]
  /\ pc[r] \in {"errors", "log"} /\ err[r] = "nil" => header[r] = status[r]
  /\ pc[r] \in {"errors", "log", "handle"} /\ err[r] = "nil" => header[r] # 0
  /\ pc[r] \in {"log", "handle"} => err[r] \in {"nil", "write"}
  /\ pc[r] = "handle" /\ err[r] = "nil" => logged[r] = header[r]
  /\ pc[r] \in {"flush", "done"} =>
       header[r] # 0 /\ (header[r] = 405 \/ logged[r] = header[r] \/ r \in lost)
  /\ pc[r] # "done" => received[r] = 0
  /\ r \in lost => writeErr[r] /\ received[r] = 0 /\ pc[r] \in {"flush", "done"}

FlowInv == MailInv /\ \A r \in Requests : FlowFacts(r)

LEMMA FlowInit == Init => FlowInv
<1> SUFFICES ASSUME Init PROVE FlowInv
  OBVIOUS
<1>1. ASSUME NEW r \in Requests PROVE FlowFacts(r)
  BY DEF Init, FlowFacts
<1>2. QED
  BY <1>1, MailInit DEF FlowInv

\* A request is not affected by the steps of another one.
LEMMA OthersKept ==
  ASSUME MailInv, NEW r \in Requests, Handle(r) \/ Arrive(r), NEW u \in Requests, u # r
  PROVE  /\ pc'[u] = pc[u] /\ err'[u] = err[u] /\ status'[u] = status[u] /\ header'[u] = header[u]
         /\ writeErr'[u] = writeErr[u] /\ logged'[u] = logged[u] /\ gone'[u] = gone[u]
         /\ received'[u] = received[u] /\ (u \in lost' <=> u \in lost)
         /\ stepDue'[u] = stepDue[u] /\ waited'[u] = waited[u] /\ writeDue'[u] = writeDue[u]
<1> USE DEF MailInv, TypeOK, answerVars, timeVars, GoTo
<1>1. CASE Arrive(r)
  BY <1>1 DEF Arrive
<1>2. CASE Read(r) \/ HandlerFails(r) \/ Ready(r) \/ StartMail(r) \/ MailDone(r)
  BY <1>2 DEF Read, HandlerFails, Ready, StartMail, MailDone
<1>3. CASE Answer(r) \/ ErrorsLayer(r)
  BY <1>3 DEF Answer, ErrorsLayer, Respond
<1>4. CASE LogLayer(r) \/ HandleLayer(r) \/ Flush(r)
  BY <1>4 DEF LogLayer, HandleLayer, Flush
<1>5. QED
  BY <1>1, <1>2, <1>3, <1>4 DEF Handle

LEMMA GoodCode == ASSUME NEW r \in Requests PROVE GoodStatus(r) \in Statuses
  BY DEF GoodStatus, Statuses

LEMMA ErrorCode == ASSUME NEW e PROVE StatusOf(e) \in Statuses
  BY DEF StatusOf, Statuses

LEMMA FlowHandler ==
  ASSUME FlowInv, NEW r \in Requests, Handle(r) \/ Arrive(r)
  PROVE  FlowFacts(r)'
<1> USE DEF FlowInv, FlowFacts, MailInv, TypeOK, GoTo, Outer, answerVars, timeVars, Steps
<1>1. CASE Arrive(r)
  BY <1>1 DEF Arrive
<1>2. CASE HandlerFails(r)
  BY <1>2 DEF HandlerFails
<1>3. CASE Read(r) \/ Ready(r) \/ StartMail(r)
  BY <1>3 DEF Read, Ready, StartMail
<1>4. CASE MailDone(r)
  BY <1>4 DEF MailDone
<1>5. CASE Answer(r)
  <2> DEFINE code == GoodStatus(r)
  <2>1. code \in Statuses /\ code # 0
    BY GoodCode DEF Statuses
  <2> HIDE DEF code
  <2>2. Respond(r, code, data[r])
    BY <1>5 DEF Answer, code
  <2>3. /\ pc[r] = "respond" /\ pc'[r] = "errors"
        /\ UNCHANGED <<logged, received, lost>>
    BY <1>5 DEF Answer
  <2>4. status'[r] = code
    BY <2>2 DEF Respond
  <2>5. CASE err' = [err EXCEPT ![r] = "internal"] /\ UNCHANGED <<header, writeErr>>
    BY <2>3, <2>5
  <2>6. CASE /\ header' = [header EXCEPT ![r] = FirstHeader(r, code)]
             /\ err' = [err EXCEPT ![r] = "nil"] /\ UNCHANGED writeErr
    BY <2>1, <2>3, <2>4, <2>6 DEF FirstHeader
  <2>7. CASE /\ header' = [header EXCEPT ![r] = FirstHeader(r, code)]
             /\ err' = [err EXCEPT ![r] = "write"]
             /\ writeErr' = [writeErr EXCEPT ![r] = TRUE]
    BY <2>3, <2>7
  <2>8. QED
    BY <2>2, <2>5, <2>6, <2>7 DEF Respond
<1>6. CASE ErrorsLayer(r)
  <2>1. /\ pc[r] = "errors" /\ pc'[r] = "log"
        /\ UNCHANGED <<logged, received, lost>>
    BY <1>6 DEF ErrorsLayer
  <2>2. CASE err[r] = "nil"
    <3>1. UNCHANGED <<err, status, header, writeErr>>
      BY <1>6, <2>2 DEF ErrorsLayer
    <3>2. QED
      BY <2>1, <2>2, <3>1
  <2>3. CASE err[r] # "nil"
    <3> DEFINE code == StatusOf(err[r])
    <3>1. code \in Statuses /\ code # 0
      BY ErrorCode DEF Statuses
    <3> HIDE DEF code
    <3>2. Respond(r, code, "small")
      BY <1>6, <2>3 DEF ErrorsLayer, code
    <3>3. /\ status'[r] = code
          /\ header' = [header EXCEPT ![r] = FirstHeader(r, code)]
      BY <3>2 DEF Respond
    <3>4. CASE ~writeErr[r] /\ err' = [err EXCEPT ![r] = "nil"] /\ UNCHANGED writeErr
      BY <2>1, <2>3, <3>1, <3>3, <3>4 DEF FirstHeader
    <3>5. CASE err' = [err EXCEPT ![r] = "write"] /\ writeErr' = [writeErr EXCEPT ![r] = TRUE]
      BY <2>1, <3>5
    <3>6. QED
      BY <3>2, <3>4, <3>5 DEF Respond
  <2>4. QED
    BY <2>2, <2>3
<1>7. CASE LogLayer(r)
  BY <1>7 DEF LogLayer
<1>8. CASE HandleLayer(r)
  <2>1. CASE err[r] = "nil"
    BY <1>8, <2>1 DEF HandleLayer
  <2>2. CASE err[r] # "nil"
    BY <1>8, <2>2 DEF HandleLayer, FirstHeader
  <2>3. QED
    BY <2>1, <2>2
<1>9. CASE Flush(r)
  BY <1>9 DEF Flush
<1>10. QED
  BY <1>1, <1>2, <1>3, <1>4, <1>5, <1>6, <1>7, <1>8, <1>9 DEF Handle

LEMMA FlowNext == FlowInv /\ [Next]_vars => FlowInv'
<1> SUFFICES ASSUME FlowInv, [Next]_vars PROVE FlowInv'
  OBVIOUS
<1>1. MailInv'
  BY MailNext DEF FlowInv
<1>2. ASSUME NEW u \in Requests PROVE FlowFacts(u)'
  <2>1. ASSUME NEW r \in Requests, Handle(r) \/ Arrive(r) PROVE FlowFacts(u)'
    <3>1. CASE u = r
      BY <2>1, <3>1, FlowHandler
    <3>2. CASE u # r
      BY <2>1, <3>2, OthersKept DEF FlowInv, FlowFacts
    <3>3. QED
      BY <3>1, <3>2
  <2>2. ASSUME NEW r \in Requests, MailStep(r) \/ ClientLeaves(r) PROVE FlowFacts(u)'
    BY <2>2 DEF MailStep, Apart, ClientLeaves, FlowInv, FlowFacts, answerVars
  <2>3. CASE TakeSignal \/ BeginDrain \/ EndDrain \/ Tick \/ UNCHANGED vars
    BY <2>3 DEF TakeSignal, BeginDrain, EndDrain, Tick, vars, FlowInv, FlowFacts, answerVars
  <2>4. QED
    BY <2>1, <2>2, <2>3 DEF Next
<1>3. QED
  BY <1>1, <1>2 DEF FlowInv

LEMMA FlowHolds == Spec => []FlowInv
  BY FlowInit, FlowNext, PTL DEF Spec

\* Only an answer that could not be written reaches the function of Handle as an
\* error, for any number of requests and any limits.
THEOREM OnlyWritesLoseIntegrity == Spec => []IntegrityKept
<1>1. FlowInv => IntegrityKept
  BY DEF FlowInv, FlowFacts, IntegrityKept, MailInv, TypeOK
<1>2. QED
  BY <1>1, FlowHolds, PTL

\* The log has the status that was sent for every request that went through
\* the middlewares, or the server has lost its integrity.
THEOREM LogTellsAnswers == Spec => []LoggedAsAnswered
<1>1. FlowInv => LoggedAsAnswered
  BY DEF FlowInv, FlowFacts, LoggedAsAnswered
<1>2. QED
  BY <1>1, FlowHolds, PTL

-----------------------------------------------------------------------------
(* The time limits                                                         *)

\* What is known of the time that a request has taken: the body takes at most the
\* read timeout, the mail at most its own more, and nothing else takes time but
\* the database.
TimeFacts(r) ==
  /\ InProgress(r) => /\ now + setting.write <= writeDue[r] + Longest(r)
                      /\ writeDue[r] <= now + setting.write
  /\ pc[r] \in {"idle", "read"} => waited[r] = 0
  /\ pc[r] = "read" => /\ now <= stepDue[r]
                       /\ stepDue[r] + setting.write = writeDue[r] + setting.read
  /\ pc[r] = "query" => now + setting.write <= writeDue[r] + setting.read + waited[r]
  /\ pc[r] = "send" => /\ now <= stepDue[r]
                       /\ stepDue[r] + setting.write <= writeDue[r] + Longest(r)
  /\ server = "draining" /\ InProgress(r) =>
       writeDue[r] + setting.shutdown <= drainDue + setting.write
  /\ AnswerCovered(r) /\ writeErr[r] => gone[r]
  /\ AnswerCovered(r) /\ pc[r] = "done" /\ ~gone[r] => received[r] = header[r]

TimeInv == FlowInv /\ DrainCutsTheSlow /\ \A r \in Requests : TimeFacts(r)

LEMMA TimeInit == Init => TimeInv
<1> SUFFICES ASSUME Init PROVE TimeInv
  OBVIOUS
<1>1. ASSUME NEW r \in Requests PROVE TimeFacts(r)
  BY <1>1 DEF Init, TimeFacts, InProgress
<1>2. QED
  BY <1>1, FlowInit DEF TimeInv, DrainCutsTheSlow, Init

\* Numbers for the facts about time.
LEMMA TimeTypes ==
  ASSUME TimeInv, NEW r \in Requests
  PROVE  /\ now \in Nat /\ drainDue \in Nat /\ MaxTime \in Nat
         /\ stepDue[r] \in Nat /\ waited[r] \in Nat /\ writeDue[r] \in Nat
         /\ setting.read \in Nat /\ setting.write \in Nat
         /\ setting.mail \in Nat /\ setting.shutdown \in Nat
  BY Limits, TimeAssumption DEF TimeInv, FlowInv, MailInv, TypeOK

\* While a request is in progress its deadline is ahead, if there is time for it.
LEMMA Reachable ==
  ASSUME TimeInv, NEW r \in Requests, InProgress(r), AnswerCovered(r), Unreachable(r)
  PROVE  gone[r]
<1>1. now + setting.write <= writeDue[r] + Longest(r)
  BY DEF TimeInv, TimeFacts
<1>2. now < writeDue[r]
  BY <1>1, TimeTypes DEF AnswerCovered, Longest
<1>3. QED
  BY <1>2, TimeTypes DEF Unreachable

\* A layer that takes no time keeps the facts about it.
LEMMA NoTime ==
  ASSUME TimeInv, NEW r \in Requests, InProgress(r),
         UNCHANGED <<gone, timeVars, serverVars>>,
         pc'[r] \in {"respond", "errors", "log", "handle", "flush"},
         AnswerCovered(r) /\ writeErr'[r] => gone[r]
  PROVE  TimeFacts(r)'
  BY DEF TimeInv, TimeFacts, timeVars, serverVars, InProgress, AnswerCovered, Longest

\* A write fails only after the client has gone.
LEMMA WriteFails ==
  ASSUME TimeInv, NEW r \in Requests, NEW code, NEW content, InProgress(r),
         Respond(r, code, content), AnswerCovered(r), writeErr'[r]
  PROVE  gone[r]
<1>1. CASE writeErr[r]
  BY <1>1 DEF TimeInv, TimeFacts
<1>2. CASE ~writeErr[r]
  <2>1. Unreachable(r)
    BY <1>2 DEF Respond, TimeInv, FlowInv, MailInv, TypeOK
  <2>2. QED
    BY <2>1, Reachable
<1>3. QED
  BY <1>1, <1>2

LEMMA TimeHandler ==
  ASSUME TimeInv, NEW r \in Requests, Handle(r) \/ Arrive(r)
  PROVE  TimeFacts(r)'
<1> USE DEF GoTo, Outer
<1>0. /\ pc \in [Requests -> Steps] /\ stepDue \in [Requests -> Nat] /\ waited \in [Requests -> Nat]
      /\ writeDue \in [Requests -> Nat] /\ writeErr \in [Requests -> BOOLEAN]
      /\ header \in [Requests -> {0, 405} \cup Statuses]
      /\ received \in [Requests -> {0, 405} \cup Statuses]
  BY DEF TimeInv, FlowInv, MailInv, TypeOK
<1>a. AnswerCovered(r) /\ writeErr[r] => gone[r]
  BY DEF TimeInv, TimeFacts
<1>1. CASE Arrive(r)
  <2>1. /\ pc[r] = "idle" /\ server # "draining" /\ pc'[r] \in {"read", "flush"}
        /\ writeDue'[r] = now + setting.write
        /\ pc'[r] = "read" => stepDue'[r] = now + setting.read
        /\ UNCHANGED <<gone, now, waited, writeErr, setting, server, drainDue>>
    BY <1>0, <1>1 DEF Arrive, serverVars
  <2>2. waited[r] = 0
    BY <2>1 DEF TimeInv, TimeFacts
  <2>3. QED
    BY <2>1, <2>2, <1>a, TimeTypes DEF TimeFacts, InProgress, AnswerCovered, Longest
<1>2. CASE HandlerFails(r) \/ Ready(r)
  <2>1. InProgress(r)
    BY <1>2 DEF HandlerFails, Ready, InProgress
  <2>2. pc'[r] \in {"respond", "errors"} /\ UNCHANGED <<writeErr, gone, timeVars, serverVars>>
    BY <1>0, <1>2 DEF HandlerFails, Ready, answerVars
  <2>3. QED
    BY <2>1, <2>2, <1>a, NoTime
<1>r. CASE Read(r)
  <2>1. /\ pc[r] = "read" /\ pc'[r] = "query"
        /\ UNCHANGED <<gone, writeErr, timeVars, serverVars>>
    BY <1>0, <1>r DEF Read, answerVars
  <2>2. TimeFacts(r) /\ InProgress(r) /\ InProgress(r)'
    BY <2>1 DEF TimeInv, InProgress
  <2>3. now + setting.write <= writeDue[r] + setting.read + waited[r]
    BY <2>1, <2>2, TimeTypes DEF TimeFacts
  <2>4. QED
    BY <2>1, <2>2, <2>3, <1>a DEF TimeFacts, AnswerCovered, Longest, timeVars, serverVars
<1>3. CASE StartMail(r)
  <2>1. /\ pc[r] = "query" /\ pc'[r] = "send" /\ stepDue'[r] = now + setting.mail
        /\ UNCHANGED <<now, waited, writeDue, writeErr, gone, setting, server, drainDue>>
    BY <1>0, <1>3 DEF StartMail, answerVars, serverVars
  <2>2. TimeFacts(r) /\ InProgress(r) /\ InProgress(r)'
    BY <2>1 DEF TimeInv, InProgress
  <2>3. now + setting.write <= writeDue[r] + setting.read + waited[r]
    BY <2>1, <2>2 DEF TimeFacts
  <2>4. QED
    BY <2>1, <2>2, <2>3, TimeTypes DEF TimeFacts, AnswerCovered, Longest
<1>4. CASE MailDone(r)
  <2>1. InProgress(r)
    BY <1>4 DEF MailDone, InProgress
  <2>2. pc'[r] \in {"respond", "errors"} /\ UNCHANGED <<writeErr, gone, timeVars, serverVars>>
    BY <1>0, <1>4 DEF MailDone
  <2>3. QED
    BY <2>1, <2>2, <1>a, NoTime
<1>5. CASE Answer(r)
  <2>1. InProgress(r)
    BY <1>5 DEF Answer, InProgress
  <2>2. pc'[r] = "errors" /\ UNCHANGED <<gone, timeVars, serverVars>>
    BY <1>0, <1>5 DEF Answer
  <2>3. AnswerCovered(r) /\ writeErr'[r] => gone[r]
    BY <1>5, <2>1, WriteFails DEF Answer
  <2>4. QED
    BY <2>1, <2>2, <2>3, NoTime
<1>6. CASE ErrorsLayer(r)
  <2>1. InProgress(r)
    BY <1>6 DEF ErrorsLayer, InProgress
  <2>2. pc'[r] = "log" /\ UNCHANGED <<gone, timeVars, serverVars>>
    BY <1>0, <1>6 DEF ErrorsLayer
  <2>3. AnswerCovered(r) /\ writeErr'[r] => gone[r]
    BY <1>6, <1>a, <2>1, WriteFails DEF ErrorsLayer
  <2>4. QED
    BY <2>1, <2>2, <2>3, NoTime
<1>7. CASE LogLayer(r) \/ HandleLayer(r)
  <2>1. InProgress(r)
    BY <1>7 DEF LogLayer, HandleLayer, InProgress
  <2>2. pc'[r] \in {"handle", "flush"} /\ UNCHANGED <<writeErr, gone, timeVars, serverVars>>
    BY <1>0, <1>7 DEF LogLayer, HandleLayer
  <2>3. QED
    BY <2>1, <2>2, <1>a, NoTime
<1>8. CASE Flush(r)
  <2>1. InProgress(r)
    BY <1>8 DEF Flush, InProgress
  <2>2. /\ pc'[r] = "done" /\ UNCHANGED <<header, writeErr, gone, timeVars, serverVars>>
        /\ received'[r] = IF writeErr[r] \/ Unreachable(r) THEN 0 ELSE header[r]
    BY <1>0, <1>8 DEF Flush
  <2>3. AnswerCovered(r) /\ ~gone[r] => received'[r] = header[r]
    BY <1>a, <2>1, <2>2, Reachable
  <2>4. QED
    BY <1>a, <2>2, <2>3
       DEF TimeFacts, InProgress, AnswerCovered, Longest, timeVars, serverVars
<1>9. QED
  BY <1>1, <1>2, <1>r, <1>3, <1>4, <1>5, <1>6, <1>7, <1>8 DEF Handle

LEMMA TimeNext == TimeInv /\ [Next]_vars => TimeInv'
<1> SUFFICES ASSUME TimeInv, [Next]_vars PROVE TimeInv'
  OBVIOUS
<1>1. FlowInv'
  BY FlowNext DEF TimeInv
<1>2. ASSUME NEW u \in Requests PROVE TimeFacts(u)'
  <2>1. ASSUME NEW r \in Requests, Handle(r) \/ Arrive(r) PROVE TimeFacts(u)'
    <3>1. CASE u = r
      BY <2>1, <3>1, TimeHandler
    <3>2. CASE u # r
      <4>1. UNCHANGED <<now, setting, server, drainDue>>
        BY <2>1 DEF Arrive, Handle, Read, HandlerFails, Ready, StartMail, MailDone, Answer, ErrorsLayer,
                    LogLayer, HandleLayer, Flush, timeVars, serverVars
      <4>2. MailInv /\ TimeFacts(u)
        BY DEF TimeInv, FlowInv
      <4>3. QED
        BY <2>1, <3>2, <4>1, <4>2, OthersKept DEF TimeFacts, InProgress, AnswerCovered, Longest
    <3>3. QED
      BY <3>1, <3>2
  <2>2. ASSUME NEW r \in Requests, MailStep(r) PROVE TimeFacts(u)'
    BY <2>2 DEF MailStep, Apart, TimeInv, TimeFacts, InProgress, AnswerCovered, Longest, answerVars,
                timeVars, serverVars
  <2>3. ASSUME NEW r \in Requests, ClientLeaves(r) PROVE TimeFacts(u)'
    <3>1. /\ UNCHANGED <<pc, answerVars, timeVars, serverVars>>
          /\ gone' = [gone EXCEPT ![r] = TRUE]
      BY <2>3 DEF ClientLeaves
    <3>2. gone \in [Requests -> BOOLEAN]
      BY DEF TimeInv, FlowInv, MailInv, TypeOK
    <3>3. gone[u] => gone'[u]
      BY <3>1, <3>2
    <3>4. QED
      BY <3>1, <3>3 DEF TimeInv, TimeFacts, InProgress, AnswerCovered, Longest, answerVars,
                timeVars, serverVars
  <2>4. CASE TakeSignal \/ BeginDrain
    <3>1. /\ UNCHANGED <<pc, gone, answerVars, timeVars, setting>>
          /\ server' = "stopping" \/ drainDue' = now + setting.shutdown
      BY <2>4 DEF TakeSignal, BeginDrain
    <3>2. QED
      BY <3>1, TimeTypes DEF TimeInv, TimeFacts, InProgress, AnswerCovered, Longest, answerVars,
                             timeVars
  <2>5. CASE EndDrain
    <3>1. UNCHANGED <<pc, gone, answerVars, timeVars, setting, drainDue>> /\ server' # "draining"
      BY <2>5 DEF EndDrain
    <3>2. QED
      BY <3>1 DEF TimeInv, TimeFacts, InProgress, AnswerCovered, Longest, answerVars, timeVars
  <2>6. CASE Tick
    <3>1. /\ UNCHANGED <<pc, gone, answerVars, stepDue, writeDue, serverVars>>
          /\ now' = now + 1
          /\ waited'[u] = IF pc[u] = "query" THEN waited[u] + 1 ELSE waited[u]
          /\ InProgress(u) => pc[u] = "query" \/ (pc[u] \in {"read", "send"} /\ now < stepDue[u])
      BY <2>6 DEF Tick, Waits
    <3>2. TimeFacts(u)
      BY DEF TimeInv
    <3>3. AnswerCovered(u)' => AnswerCovered(u)
      BY <3>1, TimeTypes DEF AnswerCovered, Longest, serverVars
    <3>4. CASE pc[u] = "query"
      BY <3>1, <3>2, <3>3, <3>4, TimeTypes
         DEF TimeFacts, InProgress, Longest, answerVars, serverVars
    <3>5. CASE pc[u] # "query"
      BY <3>1, <3>2, <3>3, <3>5, TimeTypes
         DEF TimeFacts, InProgress, Longest, answerVars, serverVars
    <3>6. QED
      BY <3>4, <3>5
  <2>7. CASE UNCHANGED vars
    BY <2>7 DEF vars, TimeInv, TimeFacts, InProgress, AnswerCovered, Longest, answerVars,
                timeVars, serverVars
  <2>8. QED
    BY <2>1, <2>2, <2>3, <2>4, <2>5, <2>6, <2>7 DEF Next
<1>3. DrainCutsTheSlow'
  <2>1. CASE EndDrain
    <3> SUFFICES ASSUME server' = "cut", NEW r \in Requests, InProgress(r)'
                 PROVE  (Longest(r) >= setting.shutdown)'
      BY DEF DrainCutsTheSlow
    <3>1. /\ server = "draining" /\ now >= drainDue
          /\ UNCHANGED <<pc, timeVars, setting>>
      BY <2>1 DEF EndDrain
    <3>2. /\ now + setting.write <= writeDue[r] + Longest(r)
          /\ writeDue[r] + setting.shutdown <= drainDue + setting.write
      BY <3>1 DEF TimeInv, TimeFacts, InProgress
    <3>3. Longest(r) >= setting.shutdown
      BY <3>1, <3>2, TimeTypes DEF Longest
    <3>4. QED
      BY <3>1, <3>3 DEF Longest, timeVars
  <2>2. CASE UNCHANGED vars
    BY <2>2 DEF vars, TimeInv, DrainCutsTheSlow, InProgress, Longest, timeVars, serverVars
  <2>3. CASE Next /\ ~EndDrain
    <3>1. server # "cut" /\ server' \in {server, "stopping", "draining"}
      BY <2>3 DEF Next, Running, Arrive, Handle, Read, HandlerFails, Ready, StartMail, MailDone,
                  Answer, ErrorsLayer, LogLayer, HandleLayer, Flush, MailStep, Apart,
                  ClientLeaves, TakeSignal, BeginDrain, Tick, serverVars
    <3>2. QED
      BY <3>1 DEF DrainCutsTheSlow
  <2>4. QED
    BY <2>1, <2>2, <2>3
<1>4. QED
  BY <1>1, <1>2, <1>3 DEF TimeInv

LEMMA TimeHolds == Spec => []TimeInv
  BY TimeInit, TimeNext, PTL DEF Spec

\* When the write timeout is longer than the limits for body and mail and what the
\* database took, a client that stays gets its answer, for any limits and any
\* number of requests.
THEOREM AnswersArrive == Spec => []AnswerArrives
<1>1. TimeInv => AnswerArrives
  BY DEF TimeInv, TimeFacts, FlowInv, FlowFacts, AnswerArrives
<1>2. QED
  BY <1>1, TimeHolds, PTL

\* A request that the drain cuts has waited for the database for all that the
\* shutdown timeout leaves beyond the limits for body and mail, whenever it came.
THEOREM DrainsInTime == Spec => []DrainCutsTheSlow
<1>1. TimeInv => DrainCutsTheSlow
  BY DEF TimeInv
<1>2. QED
  BY <1>1, TimeHolds, PTL

-----------------------------------------------------------------------------
(* The goroutine that encodes the mail                                     *)

\* What the pipe, the exchange and Send know of each other.
PipeFacts(r) ==
  /\ call[r] = "none" => encoder[r] = "absent"
  /\ call[r] = "sending" => exchange[r] # "absent"
  /\ call[r] \in {"nil", "error"} /\ encoder[r] = "writing" => readClosed[r]
  /\ body[r] = "complete" => encoder[r] = "ended"
  /\ accepted[r] => body[r] = "complete"

PipeInv == TimeInv /\ \A r \in Requests : PipeFacts(r)

\* A goroutine that cannot go on, since nobody has read its message and the
\* reading end is open, belongs to a Send that still waits for its exchange and
\* whose deadline has not passed: what Send owes it is still to come.
NoEncoderStranded ==
  \A r \in Requests :
    encoder[r] = "writing" /\ ~readClosed[r] =>
      call[r] = "sending" /\ exchange[r] # "absent" /\ now <= stepDue[r]

\* The service accepts no mail of which the goroutine still writes a part.
AcceptedIsWhole == \A r \in Requests : accepted[r] => body[r] = "complete" /\ encoder[r] = "ended"

LEMMA PipeInit == Init => PipeInv
  BY TimeInit DEF PipeInv, PipeFacts, Init, CourierInit

\* The steps of the goroutine, of the transport and of the end of Send.
LEMMA PipeMail ==
  ASSUME PipeInv, NEW r \in Requests, MailStep(r)
  PROVE  \A u \in Requests : PipeFacts(u)'
<1> USE DEF PipeInv, PipeFacts
<1>0. CourierTypeOK
  BY DEF TimeInv, FlowInv, MailInv, TypeOK
<1> USE DEF CourierTypeOK
<1>1. CASE EncoderCloses(r) \/ EncoderFails(r)
  BY <1>0, <1>1 DEF EncoderCloses, EncoderFails
<1>2. CASE ReadMessage(r) \/ ReadEnd(r)
  <2>1. ~accepted[r] \/ body[r] = "complete"
    OBVIOUS
  <2>2. CASE ReadMessage(r)
    <3>1. encoder[r] = "writing" /\ body[r] # "complete" /\ ~accepted[r]
      BY <2>2 DEF ReadMessage
    <3>2. QED
      BY <1>0, <2>2, <3>1 DEF ReadMessage
  <2>3. CASE ReadEnd(r)
    BY <1>0, <2>3 DEF ReadEnd
  <2>4. QED
    BY <1>2, <2>2, <2>3
<1>3. CASE ServiceAccepts(r)
  BY <1>0, <1>3 DEF ServiceAccepts
<1>4. CASE ServiceAnswers(r) \/ ExchangeFails(r)
  BY <1>0, <1>4 DEF ServiceAnswers, ExchangeFails
<1>5. CASE TransportCloses(r)
  BY <1>0, <1>5 DEF TransportCloses
<1>6. CASE SendReturns(r)
  BY <1>0, <1>6 DEF SendReturns
<1>7. QED
  BY <1>1, <1>2, <1>3, <1>4, <1>5, <1>6 DEF MailStep, Sending, Encoder, Transport

LEMMA PipeNext == PipeInv /\ [Next]_vars => PipeInv'
<1> SUFFICES ASSUME PipeInv, [Next]_vars PROVE PipeInv'
  OBVIOUS
<1>0. TimeInv' /\ CourierTypeOK
  BY TimeNext DEF PipeInv, TimeInv, FlowInv, MailInv, TypeOK
<1>1. ASSUME NEW r \in Requests, MailStep(r) PROVE PipeInv'
  BY <1>0, <1>1, PipeMail DEF PipeInv
<1>2. ASSUME NEW r \in Requests, StartMail(r) PROVE PipeInv'
  <2>1. /\ call[r] = "none" /\ encoder[r] = "absent"
        /\ body[r] # "complete" /\ ~accepted[r]
    BY <1>2 DEF StartMail, SendBegins, PipeInv, PipeFacts
  <2>2. QED
    BY <1>0, <1>2, <2>1 DEF StartMail, SendBegins, PipeInv, PipeFacts, CourierTypeOK
<1>3. ASSUME NEW r \in Requests, Arrive(r) \/ (Handle(r) /\ ~StartMail(r)) \/ ClientLeaves(r)
      PROVE  PipeInv'
  <2>1. UNCHANGED courierVars
    BY <1>3 DEF Arrive, Handle, Read, HandlerFails, Ready, MailDone, Answer, ErrorsLayer, LogLayer,
                HandleLayer, Flush, ClientLeaves
  <2>2. QED
    BY <1>0, <2>1 DEF PipeInv, PipeFacts, courierVars
<1>4. CASE TakeSignal \/ BeginDrain \/ EndDrain \/ Tick \/ UNCHANGED vars
  BY <1>0, <1>4 DEF TakeSignal, BeginDrain, EndDrain, Tick, vars, PipeInv, PipeFacts, courierVars
<1>5. QED
  BY <1>1, <1>2, <1>3, <1>4 DEF Next

LEMMA PipeHolds == Spec => []PipeInv
  BY PipeInit, PipeNext, PTL DEF Spec

\* In every order of the goroutine, the transport and the service, and whether
\* the mail is read or not, the encoder is blocked only as long as its Send is
\* under way: after Send has returned, or at its deadline, it can go on.
THEOREM EncoderNeverStranded == Spec => []NoEncoderStranded
<1>1. PipeInv => NoEncoderStranded
  <2> SUFFICES ASSUME PipeInv, NEW r \in Requests, encoder[r] = "writing", ~readClosed[r]
               PROVE  call[r] = "sending" /\ exchange[r] # "absent" /\ now <= stepDue[r]
    BY DEF NoEncoderStranded
  <2>1. TypeOK /\ PipeFacts(r) /\ TimeFacts(r)
    BY DEF PipeInv, TimeInv, FlowInv, MailInv
  <2>2. call[r] = "sending" /\ exchange[r] # "absent"
    BY <2>1 DEF PipeFacts, TypeOK, CourierTypeOK
  <2>3. pc[r] = "send"
    BY <2>1, <2>2 DEF TypeOK
  <2>4. QED
    BY <2>1, <2>2, <2>3 DEF TimeFacts
<1>2. QED
  BY <1>1, PipeHolds, PTL

\* A mail is accepted only whole: a message whose encoding was cut off by the
\* end of Send is not a complete request, however late the service looks.
THEOREM MailsAreWhole == Spec => []AcceptedIsWhole
<1>1. PipeInv => AcceptedIsWhole
  BY DEF PipeInv, PipeFacts, AcceptedIsWhole
<1>2. QED
  BY <1>1, PipeHolds, PTL
=============================================================================
