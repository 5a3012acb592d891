---------------------------- MODULE MCWebRequest ----------------------------
(* Time limits for TLC, in units of two and a half seconds.                *)
EXTENDS WebRequest

\* The defaults of main.go, and limits that leave time for the answer, for a quick
\* database.
DefaultLimits == [read |-> 2, write |-> 4, mail |-> 4, shutdown |-> 6]
AmpleLimits   == [read |-> 1, write |-> 5, mail |-> 2, shutdown |-> 5]
NoMailLimits  == [read |-> 1, write |-> 3, mail |-> 0, shutdown |-> 2]

MCSettings == {DefaultLimits, AmpleLimits, NoMailLimits}
=============================================================================
