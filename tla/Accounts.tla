------------------------------ MODULE Accounts -------------------------------
(***************************************************************************)
(* What the user group promises about the accounts of the service, as if   *)
(* each promise were kept in one step: whoever gets a token for an address *)
(* was invited by mail and confirmed the address, a user is enrolled with  *)
(* an address that is confirmed and that nobody has, and a session belongs *)
(* to a user.  Codes, handlers and what fails on their way are not visible *)
(* here.                                                                   *)
(***************************************************************************)
CONSTANTS
  Emails,      \* addresses
  Names,       \* usernames
  NoEmail,     \* the empty address
  Seeded       \* the users that the service begins with

VARIABLES
  invited,     \* addresses that a code was mailed to
  confirmed,   \* addresses whose owner presented one
  vouched,     \* addresses that a token vouches for
  users,       \* the users: [email |-> , username |-> ]
  sessions     \* addresses of users with a valid session

vars == <<invited, confirmed, vouched, users, sessions>>

Registered(e) == \E u \in users : u.email = e

\* Those that came since have a password that opens their account.
Newcomers == users \ Seeded

Enrolled(e) == \E u \in Newcomers : u.email = e

Init ==
  /\ invited = {}
  /\ confirmed = {}
  /\ vouched = {}
  /\ users = Seeded
  /\ sessions = {}

Invite(e) ==
  /\ invited' = invited \cup {e}
  /\ UNCHANGED <<confirmed, vouched, users, sessions>>

Confirm(e) ==
  /\ e \in invited
  /\ confirmed' = confirmed \cup {e}
  /\ UNCHANGED <<invited, vouched, users, sessions>>

Vouch(e) ==
  /\ e \in confirmed
  /\ vouched' = vouched \cup {e}
  /\ UNCHANGED <<invited, confirmed, users, sessions>>

\* A user enrolls with a confirmed address, even if its token has expired since;
\* a newcomer that is there already can enroll one without an address.
Enroll(e, n) ==
  /\ e \in confirmed \/ (e = NoEmail /\ Newcomers # {})
  /\ ~Registered(e)
  /\ \A u \in users : u.username # n
  /\ users' = users \cup {[email |-> e, username |-> n]}
  /\ UNCHANGED <<invited, confirmed, vouched, sessions>>

Admit(e) ==
  /\ Enrolled(e)
  /\ sessions' = sessions \cup {e}
  /\ UNCHANGED <<invited, confirmed, vouched, users>>

\* Tokens and sessions end, one by one or all at once.
Lapse ==
  /\ vouched' \subseteq vouched
  /\ sessions' \subseteq sessions
  /\ UNCHANGED <<invited, confirmed, users>>

Next ==
  \/ \E e \in Emails : Invite(e) \/ Confirm(e) \/ Vouch(e) \/ Admit(e)
  \/ \E e \in Emails \cup {NoEmail}, n \in Names : Enroll(e, n)
  \/ Lapse

Spec == Init /\ [][Next]_vars

-----------------------------------------------------------------------------
(* What follows from the promises                                          *)

\* Everything that an address can get it gets after its confirmation, a session
\* has a user who enrolled, and if any enrolled one of them was confirmed: those
\* without an address descend from one that has an address.
Trustworthy ==
  /\ vouched \subseteq confirmed /\ confirmed \subseteq invited
  /\ \A u \in Newcomers : u.email = NoEmail \/ u.email \in confirmed
  /\ \A e \in sessions : Enrolled(e)
  /\ Newcomers # {} => \E u \in Newcomers : u.email \in confirmed

\* No two users have an address or a username in common.
OneUserEach ==
  \A u, v \in users : u.email = v.email \/ u.username = v.username => u = v
=============================================================================
