------------------------------ MODULE Keystore ------------------------------
(***************************************************************************)
(* The in-memory key store with its rotation goroutine                     *)
(* (business/keystore) and the token issuer on top of it (business/auth).  *)
(*                                                                         *)
(* Three kinds of processes interleave here: the rotation goroutine, the   *)
(* request handlers that call Auth.Token, and callers of Revoke.  They     *)
(* share the map of keys and the unsynchronised string "active".           *)
(* Keys are numbered in the order of their creation.                       *)
(***************************************************************************)
EXTENDS Integers, Sequences, FiniteSets

CONSTANTS
  RotationPeriod,     \* period of the rotation ticker
  ExpirationPeriod,   \* time from a key's creation to its expiry
  Lifetimes,          \* lifetimes of the tokens handlers ask for
  Requests,           \* calls of Auth.Token; each is made at most once
  Lag,                \* a rotation round ends at most Lag after its tick
  MaxTime,            \* bound of the model: the clock stops here
  MaxRevocations      \* bound of the model: keys revoked by hand

ASSUME RotationPeriodAssumption == RotationPeriod \in Nat \ {0}
ASSUME ExpirationPeriodAssumption == ExpirationPeriod \in Nat
ASSUME LifetimesAssumption == Lifetimes \subseteq Nat /\ Lifetimes # {}
ASSUME LagAssumption == Lag \in Nat /\ Lag < RotationPeriod /\ Lag <= ExpirationPeriod
ASSUME BoundsAssumption == MaxTime \in Nat /\ MaxRevocations \in Nat

VARIABLES
  now,         \* the clock
  expire,      \* expire[id] is Key.Expire, for every key ever created
  keys,        \* ids in ks.store
  active,      \* ks.active
  nextTick,    \* when the ticker fires next
  tickReady,   \* a tick waits in the ticker's channel, which holds one
  rotator,     \* where the rotation goroutine is
  unvisited,   \* ids that the running Range has still to visit
  shutdown,    \* a signal waits in the shutdown channel
  stage,       \* stage[r]: how far request r has come
  exp,         \* exp[r]: the expiry in the claims of request r
  kid,         \* kid[r]: the key id that request r has read from ks.active
  tokens,      \* every token issued: [kid |-> key id, exp |-> expiry]
  revoked      \* history: keys deleted by a caller of Revoke other than rotate

clockVars   == <<now, nextTick, tickReady>>
storeVars   == <<expire, keys, active, unvisited>>
requestVars == <<stage, exp, kid, tokens>>
vars == <<clockVars, storeVars, rotator, shutdown, requestVars, revoked>>

\* The goroutine's places: in the select; about to add a key; the key is
\* stored but ks.active is not yet written; in Range; sending on critErrs;
\* returned.
RotatorStates == {"waiting", "adding", "activating", "purging", "reporting", "stopped"}
Stages == {"idle", "claims", "keyed", "issued", "failed"}

\* The goroutine rotates keys, now or at a later tick.
Alive == rotator \notin {"reporting", "stopped"}

\* The last tick so far, or the start of the ticker.
LastTick == nextTick - RotationPeriod

\* A tick waits or its round runs.
Busy == tickReady \/ rotator \in {"adding", "activating", "purging"}

Ids == 1..Len(expire)

\* New stores a first key and then starts the ticker and the goroutine.
Init ==
  /\ now = 0
  /\ expire = <<ExpirationPeriod>>
  /\ keys = {1}
  /\ active = 1
  /\ nextTick \in RotationPeriod..(RotationPeriod + Lag)
  /\ tickReady = FALSE
  /\ rotator = "waiting"
  /\ unvisited = {}
  /\ shutdown = FALSE
  /\ stage = [r \in Requests |-> "idle"]
  /\ exp = [r \in Requests |-> 0]
  /\ kid = [r \in Requests |-> 0]
  /\ tokens = {}
  /\ revoked = {}

-----------------------------------------------------------------------------
(* Time.  A round that is due ends within Lag of its tick: the goroutine   *)
(* is scheduled, and generating a key and walking the map are quick next   *)
(* to the rotation period.  A dead goroutine holds nothing up.             *)

AdvanceTime ==
  /\ now < MaxTime
  /\ Alive /\ Busy => now < LastTick + Lag
  /\ now' = now + 1
  /\ IF now' = nextTick /\ rotator # "stopped"
       THEN /\ tickReady' = TRUE
            /\ nextTick' = nextTick + RotationPeriod
       ELSE UNCHANGED <<tickReady, nextTick>>
  /\ UNCHANGED <<storeVars, rotator, shutdown, requestVars, revoked>>

-----------------------------------------------------------------------------
(* The rotation goroutine: the select of startRotation, rotate and addKey. *)

TakeTick ==
  /\ rotator = "waiting"
  /\ tickReady
  /\ tickReady' = FALSE
  /\ rotator' = "adding"
  /\ UNCHANGED <<now, nextTick, storeVars, shutdown, requestVars, revoked>>

\* Mutant of AddKey: ks.active is written before the key is stored.
AddKeyActiveFirst ==
  /\ rotator = "adding"
  /\ expire' = Append(expire, now + ExpirationPeriod)
  /\ active' = Len(expire) + 1
  /\ rotator' = "activating"
  /\ UNCHANGED <<clockVars, keys, unvisited, shutdown, requestVars, revoked>>

\* addKey stores the new key ...
AddKey ==
  /\ rotator = "adding"
  /\ expire' = Append(expire, now + ExpirationPeriod)
  /\ keys' = keys \cup {Len(expire) + 1}
  /\ rotator' = "activating"
  /\ UNCHANGED <<clockVars, active, unvisited, shutdown, requestVars, revoked>>

\* ... or fails to generate it.  rotate returns at once, and the goroutine
\* sends the error on critErrs: New leaves that channel nil, so the send
\* never completes and no action leaves "reporting".
GenKeyFails ==
  /\ rotator = "adding"
  /\ rotator' = "reporting"
  /\ UNCHANGED <<clockVars, storeVars, shutdown, requestVars, revoked>>

\* Mutant of Activate: addKey forgets ks.active.
ActivateSkipped ==
  /\ rotator = "activating"
  /\ unvisited' = keys
  /\ rotator' = "purging"
  /\ UNCHANGED <<clockVars, expire, keys, active, shutdown, requestVars, revoked>>

\* Mutant of Activate: ks.active names a key that does not exist.
ActivateNext ==
  /\ rotator = "activating"
  /\ active' = Len(expire) + 1
  /\ unvisited' = keys
  /\ rotator' = "purging"
  /\ UNCHANGED <<clockVars, expire, keys, shutdown, requestVars, revoked>>

\* The last step of addKey writes ks.active; Range starts.
Activate ==
  /\ rotator = "activating"
  /\ active' = Len(expire)
  /\ unvisited' = keys
  /\ rotator' = "purging"
  /\ UNCHANGED <<clockVars, expire, keys, shutdown, requestVars, revoked>>

\* Mutants of Expired: a key is deleted a round early, or a round late.
ExpiredSoon(id) == expire[id] <= now + RotationPeriod
ExpiredLate(id) == expire[id] + RotationPeriod < now

Expired(id) == expire[id] < now

\* Range visits one key, in no particular order, and deletes it if expired.
Purge(id) ==
  /\ rotator = "purging"
  /\ id \in unvisited
  /\ unvisited' = unvisited \ {id}
  /\ keys' = IF Expired(id) THEN keys \ {id} ELSE keys
  /\ UNCHANGED <<clockVars, expire, active, rotator, shutdown, requestVars, revoked>>

PurgeDone ==
  /\ rotator = "purging"
  /\ unvisited = {}
  /\ rotator' = "waiting"
  /\ UNCHANGED <<clockVars, storeVars, shutdown, requestVars, revoked>>

\* The other branch of the select: the goroutine takes the signal, stops the
\* ticker and returns.
StopRotation ==
  /\ rotator = "waiting"
  /\ shutdown
  /\ shutdown' = FALSE
  /\ rotator' = "stopped"
  /\ UNCHANGED <<clockVars, storeVars, requestVars, revoked>>

-----------------------------------------------------------------------------
(* The users of the store.                                                 *)

\* The runtime puts a signal into the channel, which main.go makes with room
\* for one; when it is full the signal is dropped.
Signal ==
  /\ ~shutdown
  /\ shutdown' = TRUE
  /\ UNCHANGED <<clockVars, storeVars, rotator, requestVars, revoked>>

\* main selects on the same channel and may be the one that takes the signal.
SignalTakenByMain ==
  /\ shutdown
  /\ shutdown' = FALSE
  /\ UNCHANGED <<clockVars, storeVars, rotator, requestVars, revoked>>

\* Mutant of Revoke: the key stays in the map.
RevokeMissed(id) ==
  /\ Cardinality(revoked \cup ({id} \cap keys)) <= MaxRevocations
  /\ revoked' = revoked \cup ({id} \cap keys)
  /\ UNCHANGED <<clockVars, storeVars, rotator, shutdown, requestVars>>

\* Revoke by hand: deleting an id that is not in the map changes nothing.
Revoke(id) ==
  /\ Cardinality(revoked \cup ({id} \cap keys)) <= MaxRevocations
  /\ keys' = keys \ {id}
  /\ revoked' = revoked \cup ({id} \cap keys)
  /\ UNCHANGED <<clockVars, expire, active, unvisited, rotator, shutdown, requestVars>>

\* A handler makes the claims, whose expiry counts from here, ...
NewClaims(r) ==
  /\ stage[r] = "idle"
  /\ \E life \in Lifetimes : exp' = [exp EXCEPT ![r] = now + life]
  /\ stage' = [stage EXCEPT ![r] = "claims"]
  /\ UNCHANGED <<clockVars, storeVars, rotator, shutdown, kid, tokens, revoked>>

\* ... Active reads the string ks.active ...
ReadActive(r) ==
  /\ stage[r] = "claims"
  /\ kid' = [kid EXCEPT ![r] = active]
  /\ stage' = [stage EXCEPT ![r] = "keyed"]
  /\ UNCHANGED <<clockVars, storeVars, rotator, shutdown, exp, tokens, revoked>>

\* ... and then looks that id up; Token signs with the key that it finds and
\* fails when the key is gone.
Sign(r) ==
  /\ stage[r] = "keyed"
  /\ IF kid[r] \in keys
       THEN /\ tokens' = tokens \cup {[kid |-> kid[r], exp |-> exp[r]]}
            /\ stage' = [stage EXCEPT ![r] = "issued"]
       ELSE /\ stage' = [stage EXCEPT ![r] = "failed"]
            /\ UNCHANGED tokens
  /\ UNCHANGED <<clockVars, storeVars, rotator, shutdown, exp, kid, revoked>>

\* Parse: the key function finds the key, and jwt finds the token unexpired.
Accepts(t) == t.kid \in keys /\ now < t.exp

-----------------------------------------------------------------------------
Rotation == \/ TakeTick \/ AddKey \/ GenKeyFails \/ Activate
            \/ (\E id \in Ids : Purge(id)) \/ PurgeDone \/ StopRotation

Request(r) == NewClaims(r) \/ ReadActive(r) \/ Sign(r)

Next ==
  \/ AdvanceTime
  \/ Rotation
  \/ Signal
  \/ SignalTakenByMain
  \/ \E id \in Ids : Revoke(id)
  \/ \E r \in Requests : Request(r)

Spec == Init /\ [][Next]_vars

\* The Go scheduler runs a goroutine that can run: the rotation goroutine, and
\* a handler between two of its steps.  Nothing forces a request, a signal, a
\* revocation or the clock.
Fairness ==
  /\ WF_vars(Rotation)
  /\ \A r \in Requests : WF_vars(ReadActive(r)) /\ WF_vars(Sign(r))

FairSpec == Spec /\ Fairness

-----------------------------------------------------------------------------
(* Properties                                                              *)

Token == [kid : Nat, exp : Nat]

\* The type of the store's state: the ids in the map and the active id are
\* ids of keys that addKey created.
TypeOK ==
  /\ now \in Nat
  /\ expire \in Seq(Nat)
  /\ keys \subseteq Ids
  /\ active \in Ids
  /\ nextTick \in Nat
  /\ tickReady \in BOOLEAN
  /\ rotator \in RotatorStates
  /\ unvisited \subseteq Ids
  /\ shutdown \in BOOLEAN
  /\ stage \in [Requests -> Stages]
  /\ exp \in [Requests -> Nat]
  /\ kid \in [Requests -> Nat]
  /\ tokens \subseteq Token
  /\ revoked \subseteq Ids

\* The periods are chosen so that a key outlives every token it can still be
\* asked to sign: it signs until one round after its creation.
Covered == \A life \in Lifetimes : RotationPeriod + 2 * Lag + life <= ExpirationPeriod

\* A token that has not expired is accepted by Parse, however many rotations
\* passed since it was signed, unless its key was revoked by hand.
TokensHonoured ==
  \A t \in tokens : now < t.exp /\ t.kid \notin revoked => Accepts(t)

\* Token does not fail because rotate deleted the key between the read of
\* ks.active and its lookup in the map: it fails only when the key was revoked
\* by hand, or when the request dawdled until its own claims expired.
IssuanceSucceeds ==
  \A r \in Requests : stage[r] = "failed" => kid[r] \in revoked \/ now >= exp[r]

\* While the goroutine rotates, no key stays in the map for longer than a
\* rotation round after its expiry, and the map does not grow with time: the
\* keys in it are those of the rounds in an expiration period, and two more.
ExpiredKeysPurged ==
  Alive => /\ \A id \in keys : now <= expire[id] + RotationPeriod + Lag
           /\ (Cardinality(keys) - 2) * RotationPeriod <= ExpirationPeriod + Lag

\* What ks.active names can be used: unless it was revoked by hand it is in
\* the map, also while addKey and Range run, and it has not expired.
ActiveUsable ==
  active \notin revoked => active \in keys /\ (Alive => now <= expire[active])

\* A tick is followed by a round that makes a new key active, unless the
\* goroutine ends or hangs first.  The clock may stop: the round goes on.
TickRenewsActive ==
  tickReady ~> (rotator = "purging" /\ active = Len(expire)) \/ ~Alive

\* A round ends, done or reported as failed, and the goroutine is ready for the
\* next one or has taken a signal.
RoundsEnd == rotator = "adding" ~> rotator \in {"waiting", "stopped"}

\* The store keeps the promise of TokenService.
Service == INSTANCE TokenService WITH
             honoured <- {t \in tokens : Accepts(t)},
             withdrawn <- revoked

ImplementsTokenService == Service!Spec
=============================================================================
