--------------------------- MODULE AccountsProofs ---------------------------
(***************************************************************************)
(* Theorems about Accounts.                                                *)
(***************************************************************************)
EXTENDS Accounts, TLAPS

LEMMA TrustStep == Trustworthy /\ [Next]_vars => Trustworthy'
<1> SUFFICES ASSUME Trustworthy, [Next]_vars PROVE Trustworthy'
  OBVIOUS
<1> USE DEF Trustworthy, Enrolled, Newcomers
<1>1. ASSUME NEW e \in Emails, Invite(e) \/ Confirm(e) \/ Vouch(e) PROVE Trustworthy'
  BY <1>1 DEF Invite, Confirm, Vouch
<1>2. ASSUME NEW e \in Emails, Admit(e) PROVE Trustworthy'
  BY <1>2 DEF Admit
<1>3. ASSUME NEW e \in Emails \cup {NoEmail}, NEW n \in Names, Enroll(e, n) PROVE Trustworthy'
  <2> DEFINE row == [email |-> e, username |-> n]
  <2>1. /\ users' = users \cup {row} /\ row.email = e
        /\ UNCHANGED <<invited, confirmed, vouched, sessions>>
        /\ e \in confirmed \/ (e = NoEmail /\ Newcomers # {})
    BY <1>3 DEF Enroll
  <2> HIDE DEF row
  <2>2. QED
    BY <2>1
<1>4. CASE Lapse
  BY <1>4 DEF Lapse
<1>5. CASE UNCHANGED vars
  BY <1>5 DEF vars
<1>6. QED
  BY <1>1, <1>2, <1>3, <1>4, <1>5 DEF Next

\* Tokens, sessions and the users who enrolled all go back to a confirmed address,
\* and the first of these users was confirmed.
THEOREM AccountsTrustworthy == Spec => []Trustworthy
<1>1. Init => Trustworthy
  BY DEF Init, Trustworthy, Newcomers
<1>2. QED
  BY <1>1, TrustStep, PTL DEF Spec

LEMMA OneUserStep == OneUserEach /\ [Next]_vars => OneUserEach'
<1> SUFFICES ASSUME OneUserEach, [Next]_vars PROVE OneUserEach'
  OBVIOUS
<1>1. ASSUME NEW e, NEW n, Enroll(e, n) PROVE OneUserEach'
  <2> DEFINE row == [email |-> e, username |-> n]
  <2>1. /\ users' = users \cup {row} /\ row.email = e /\ row.username = n
        /\ \A u \in users : u.email # e /\ u.username # n
    BY <1>1 DEF Enroll, Registered
  <2> HIDE DEF row
  <2>2. QED
    BY <2>1 DEF OneUserEach
<1>2. CASE UNCHANGED users
  BY <1>2 DEF OneUserEach
<1>3. QED
  BY <1>1, <1>2 DEF Next, Invite, Confirm, Vouch, Admit, Lapse, vars

\* An address and a username belong to one user, if those of the users that the
\* service begins with do.
THEOREM AccountsUnique ==
  ASSUME \A u, v \in Seeded : u.email = v.email \/ u.username = v.username => u = v
  PROVE  Spec => []OneUserEach
<1>1. Init => OneUserEach
  BY DEF Init, OneUserEach
<1>2. QED
  BY <1>1, OneUserStep, PTL DEF Spec
=============================================================================
