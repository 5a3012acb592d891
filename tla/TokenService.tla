---------------------------- MODULE TokenService ----------------------------
(***************************************************************************)
(* What the rest of the service relies on when it hands out a token: a    *)
(* token is honoured from the moment it is issued until it expires or its  *)
(* signing key is withdrawn by hand, and a token that is no longer         *)
(* honoured never is again.  How keys are stored, rotated and purged is    *)
(* not visible here.                                                       *)
(***************************************************************************)
EXTENDS Naturals

CONSTANTS Lifetimes    \* the lifetimes callers ask for

VARIABLES
  now,          \* the clock
  honoured,     \* tokens that Parse accepts now: [kid |-> key, exp |-> time]
  withdrawn     \* keys that were withdrawn by hand

vars == <<now, honoured, withdrawn>>

Init == /\ now = 0
        /\ honoured = {}
        /\ withdrawn = {}

\* Time passes, and with it the life of some tokens.
Pass == /\ now' = now + 1
        /\ honoured' = {t \in honoured : now' < t.exp}
        /\ UNCHANGED withdrawn

\* A token is issued; its lifetime began when its claims were made.  One whose
\* lifetime is over by then changes nothing here.
Issue == /\ \E t \in honoured' :
              /\ honoured' = honoured \cup {t}
              /\ t.kid \notin withdrawn
              /\ now < t.exp
              /\ \E life \in Lifetimes : t.exp <= now + life
         /\ UNCHANGED <<now, withdrawn>>

\* A key is withdrawn, and with it every token that it signed.
Withdraw == /\ \E k \in withdrawn' :
                 /\ withdrawn' = withdrawn \cup {k}
                 /\ honoured' = {t \in honoured : t.kid # k}
            /\ UNCHANGED now

Next == Pass \/ Issue \/ Withdraw

Spec == Init /\ [][Next]_vars
=============================================================================
