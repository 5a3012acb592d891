------------------------------ MODULE Courier --------------------------------
(***************************************************************************)
(* CourierClient.Send (business/email): the goroutine that encodes the     *)
(* mail into a pipe, the transport of net/http that reads the pipe as the  *)
(* body of its request, and the courier service.                           *)
(*                                                                         *)
(* A pipe has no buffer: the encoder blocks in its one write until the     *)
(* transport has read the message or the reading end is closed.            *)
(***************************************************************************)
CONSTANT Requests     \* requests of the API that send a mail, one each

VARIABLES
  call,        \* call[r]: the call of Send
  encoder,     \* encoder[r]: the goroutine that writes the message
  readClosed,  \* readClosed[r]: the reading end of the pipe is closed
  body,        \* body[r]: what the transport has read from the pipe
  exchange,    \* exchange[r]: the exchange with the service
  accepted     \* accepted[r]: the service has accepted the mail

courierVars == <<call, encoder, readClosed, body, exchange, accepted>>

CourierInit ==
  /\ call = [r \in Requests |-> "none"]
  /\ encoder = [r \in Requests |-> "absent"]
  /\ readClosed = [r \in Requests |-> FALSE]
  /\ body = [r \in Requests |-> "nothing"]
  /\ exchange = [r \in Requests |-> "absent"]
  /\ accepted = [r \in Requests |-> FALSE]

-----------------------------------------------------------------------------
(* The goroutine                                                           *)

\* The write returns once the transport has read the message; then w.Close.
EncoderCloses(r) ==
  /\ encoder[r] = "closing"
  /\ encoder' = [encoder EXCEPT ![r] = "ended"]
  /\ UNCHANGED <<call, readClosed, body, exchange, accepted>>

\* The write fails since the reading end is closed.
EncoderFails(r) ==
  /\ encoder[r] = "writing"
  /\ readClosed[r]
  /\ encoder' = [encoder EXCEPT ![r] = "ended"]
  /\ UNCHANGED <<call, readClosed, body, exchange, accepted>>

Encoder(r) == EncoderCloses(r) \/ EncoderFails(r)

-----------------------------------------------------------------------------
(* The transport and the service                                           *)

ReadMessage(r) ==
  /\ exchange[r] = "posting"
  /\ encoder[r] = "writing"
  /\ ~readClosed[r]
  /\ body' = [body EXCEPT ![r] = "message"]
  /\ encoder' = [encoder EXCEPT ![r] = "closing"]
  /\ UNCHANGED <<call, readClosed, exchange, accepted>>

\* The end of the body is read only after w.Close: the request is complete.
ReadEnd(r) ==
  /\ exchange[r] = "posting"
  /\ body[r] = "message"
  /\ encoder[r] = "ended"
  /\ ~readClosed[r]
  /\ body' = [body EXCEPT ![r] = "complete"]
  /\ UNCHANGED <<call, encoder, readClosed, exchange, accepted>>

\* The service accepts a request that it has got completely, however late.
ServiceAccepts(r) ==
  /\ body[r] = "complete"
  /\ ~accepted[r]
  /\ accepted' = [accepted EXCEPT ![r] = TRUE]
  /\ UNCHANGED <<call, encoder, readClosed, body, exchange>>

\* Its answer arrives: a refusal may come before the body has been read.
ServiceAnswers(r) ==
  /\ exchange[r] = "posting"
  /\ \/ accepted[r] /\ exchange' = [exchange EXCEPT ![r] = "good"]
     \/ exchange' = [exchange EXCEPT ![r] = "bad"]
  /\ UNCHANGED <<call, encoder, readClosed, body, accepted>>

\* No connection, a broken one, or the deadline of the context.
ExchangeFails(r) ==
  /\ exchange[r] = "posting"
  /\ exchange' = [exchange EXCEPT ![r] = "failed"]
  /\ UNCHANGED <<call, encoder, readClosed, body, accepted>>

\* The transport closes the body of a request that has ended, at some time.
TransportCloses(r) ==
  /\ exchange[r] \in {"good", "bad", "failed"}
  /\ ~readClosed[r]
  /\ readClosed' = [readClosed EXCEPT ![r] = TRUE]
  /\ UNCHANGED <<call, encoder, body, exchange, accepted>>

Transport(r) == \/ ReadMessage(r) \/ ReadEnd(r) \/ ServiceAccepts(r)
                \/ ServiceAnswers(r) \/ ExchangeFails(r) \/ TransportCloses(r)

-----------------------------------------------------------------------------
(* Send                                                                    *)

\* Mutant of SendBegins: the message is encoded before the request is made.
SendBeginsSerial(r, expired) ==
  /\ call[r] = "none"
  /\ IF expired
       THEN call' = [call EXCEPT ![r] = "error"] /\ UNCHANGED <<encoder, exchange>>
       ELSE /\ call' = [call EXCEPT ![r] = "sending"]
            /\ encoder' = [encoder EXCEPT ![r] = "writing"]
            /\ UNCHANGED exchange
  /\ UNCHANGED <<readClosed, body, accepted>>

\* With a context that is done Send fails at once.
SendBegins(r, expired) ==
  /\ call[r] = "none"
  /\ IF expired
       THEN call' = [call EXCEPT ![r] = "error"] /\ UNCHANGED <<encoder, exchange>>
       ELSE /\ call' = [call EXCEPT ![r] = "sending"]
            /\ encoder' = [encoder EXCEPT ![r] = "writing"]
            /\ exchange' = [exchange EXCEPT ![r] = "posting"]
  /\ UNCHANGED <<readClosed, body, accepted>>

\* Mutant of SendReturns: the status of the answer is not looked at.
SendReturnsUnread(r) ==
  /\ call[r] = "sending"
  /\ exchange[r] \in {"good", "bad", "failed"}
  /\ call' = [call EXCEPT ![r] = IF exchange[r] = "failed" THEN "error" ELSE "nil"]
  /\ readClosed' = [readClosed EXCEPT ![r] = TRUE]
  /\ UNCHANGED <<encoder, body, exchange, accepted>>

\* Send returns when the exchange has ended, and its deferred r.Close runs.
SendReturns(r) ==
  /\ call[r] = "sending"
  /\ exchange[r] \in {"good", "bad", "failed"}
  /\ call' = [call EXCEPT ![r] = IF exchange[r] = "good" THEN "nil" ELSE "error"]
  /\ readClosed' = [readClosed EXCEPT ![r] = TRUE]
  /\ UNCHANGED <<encoder, body, exchange, accepted>>

Sending(r) == Encoder(r) \/ Transport(r) \/ SendReturns(r)

-----------------------------------------------------------------------------
(* What Send relies on                                                     *)

CourierTypeOK ==
  /\ call \in [Requests -> {"none", "sending", "nil", "error"}]
  /\ encoder \in [Requests -> {"absent", "writing", "closing", "ended"}]
  /\ readClosed \in [Requests -> BOOLEAN]
  /\ body \in [Requests -> {"nothing", "message", "complete"}]
  /\ exchange \in [Requests -> {"absent", "posting", "good", "bad", "failed"}]
  /\ accepted \in [Requests -> BOOLEAN]

\* The goroutine, the pipe and the exchange are hidden.
Client == INSTANCE MailClient WITH call <- call, accepted <- accepted
=============================================================================
