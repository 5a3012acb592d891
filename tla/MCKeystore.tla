----------------------------- MODULE MCKeystore -----------------------------
(* Key periods that cover the token lifetimes, in small units of time.     *)
EXTENDS Keystore

ASSUME PeriodsCover == Covered
=============================================================================
