------------------------------ MODULE Rollout --------------------------------
(***************************************************************************)
(* What the pods of a deployment promise about their database, as if one   *)
(* pod did everything: migrations take effect one after another, each of   *)
(* them once, the seed comes at once and once, when all of them have, and  *)
(* a server runs only on what is complete.                                 *)
(***************************************************************************)
EXTENDS Naturals

CONSTANTS
  Pods,      \* pods with a server each
  Last,      \* number of migrations
  Owners     \* the users that the seed brings

VARIABLES
  tables,    \* migrations that took effect
  users,     \* the users in the table
  ready      \* pods whose server runs

vars == <<tables, users, ready>>

Init ==
  /\ tables = {}
  /\ users = {}
  /\ ready = {}

Migrate(n) ==
  /\ tables = 1..(n - 1)
  /\ tables' = 1..n
  /\ UNCHANGED <<users, ready>>

\* A pod seeds, and its server runs unless the pod is lost with the answer.
Seed(p) ==
  /\ tables = 1..Last
  /\ users = {}
  /\ users' = Owners
  /\ ready' \in {ready, ready \cup {p}}
  /\ UNCHANGED tables

Serve(p) ==
  /\ tables = 1..Last
  /\ users = Owners
  /\ ready' = ready \cup {p}
  /\ UNCHANGED <<tables, users>>

Stop(p) ==
  /\ ready' = ready \ {p}
  /\ UNCHANGED <<tables, users>>

Next ==
  \/ \E n \in 1..Last : Migrate(n)
  \/ \E p \in Pods : Seed(p) \/ Serve(p) \/ Stop(p)

Spec == Init /\ [][Next]_vars
=============================================================================
