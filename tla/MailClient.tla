----------------------------- MODULE MailClient ------------------------------
(***************************************************************************)
(* What email.Client promises its callers: a call of Send ends once, with  *)
(* nil only when the mail service has accepted the mail.  After an error   *)
(* the mail may have been accepted, or may still be, but never twice.      *)
(***************************************************************************)
CONSTANT Requests     \* the callers, one call each

VARIABLES
  call,       \* call[r]: not made, in progress, or what it returned
  accepted    \* accepted[r]: the service has accepted the mail of r

mailVars == <<call, accepted>>

Init ==
  /\ call = [r \in Requests |-> "none"]
  /\ accepted = [r \in Requests |-> FALSE]

\* The call begins; it may fail at once.
Begin(r) ==
  /\ call[r] = "none"
  /\ call' \in {[call EXCEPT ![r] = c] : c \in {"sending", "error"}}
  /\ UNCHANGED accepted

Accept(r) ==
  /\ call[r] # "none"
  /\ ~accepted[r]
  /\ accepted' = [accepted EXCEPT ![r] = TRUE]
  /\ UNCHANGED call

ReturnNil(r) ==
  /\ call[r] = "sending"
  /\ accepted[r]
  /\ call' = [call EXCEPT ![r] = "nil"]
  /\ UNCHANGED accepted

ReturnError(r) ==
  /\ call[r] = "sending"
  /\ call' = [call EXCEPT ![r] = "error"]
  /\ UNCHANGED accepted

Next == \E r \in Requests : Begin(r) \/ Accept(r) \/ ReturnNil(r) \/ ReturnError(r)

Spec == Init /\ [][Next]_mailVars
=============================================================================
