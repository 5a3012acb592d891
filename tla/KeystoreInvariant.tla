------------------------- MODULE KeystoreInvariant -------------------------
(***************************************************************************)
(* The inductive strengthening of the properties of Keystore, in two       *)
(* parts: what always holds of the rotation and its timing, and what holds *)
(* of tokens and the requests for them when the periods are Covered.       *)
(***************************************************************************)
EXTENDS Keystore

\* Ids that requests and tokens carry are ids of keys that were created.
IdsKnown ==
  /\ \A r \in Requests : stage[r] \in {"keyed", "issued", "failed"} => kid[r] \in Ids
  /\ \A t \in tokens : t.kid \in Ids

\* From the tick to the write of ks.active, the active key is one round older.
Pending == tickReady \/ rotator \in {"adding", "activating"}

\* Where the goroutine is fixes which key is active and whether a tick waits.
RoundShape ==
  Alive => /\ active = IF rotator = "activating" THEN Len(expire) - 1 ELSE Len(expire)
           /\ rotator # "waiting" => ~tickReady

\* Rounds are on time.
OnTime ==
  Alive => /\ RotationPeriod <= nextTick
           /\ now < nextTick
           /\ Busy => LastTick <= now /\ now <= LastTick + Lag

\* The active key, and a key about to become active, is young enough.
ActiveYoung ==
  Alive => /\ expire[active] + Lag + (IF Pending THEN RotationPeriod ELSE 0)
                >= ExpirationPeriod + LastTick
           /\ rotator = "activating" => expire[Len(expire)] >= ExpirationPeriod + LastTick

\* A round leaves no key behind that had expired at its tick.
KeysYoung ==
  Alive => \A id \in keys :
             expire[id] + (IF Pending \/ (rotator = "purging" /\ id \in unvisited)
                             THEN RotationPeriod ELSE 0) >= LastTick

\* Every tick has made its key: a key is a round older than the next one, and the
\* youngest is made at most Lag after its tick.
Made == Len(expire) + (IF tickReady \/ rotator = "adding" THEN 1 ELSE 0)

KeysSpaced ==
  Alive => \A id \in Ids : expire[id] + (Made - id) * RotationPeriod
                             <= ExpirationPeriod + LastTick + Lag

RotationInv == TypeOK /\ IdsKnown /\ RoundShape /\ OnTime /\ ActiveYoung /\ KeysYoung

-----------------------------------------------------------------------------
\* While keys are purged, no token outlives its key, and neither will one that
\* is about to be signed.
KeysOutliveTokens ==
  /\ Alive => /\ \A t \in tokens : t.exp <= expire[t.kid]
              /\ \A r \in Requests : stage[r] = "keyed" => exp[r] <= expire[kid[r]]
  /\ \A r \in Requests :
       stage[r] \in {"claims", "keyed"} => \E life \in Lifetimes : exp[r] <= now + life

\* A key that has left the map was revoked by hand, or what it signed is over.
GoneIsOver ==
  /\ \A t \in tokens : t.kid \in keys \/ t.kid \in revoked \/ t.exp <= now
  /\ \A r \in Requests :
       stage[r] = "keyed" => kid[r] \in keys \/ kid[r] \in revoked \/ exp[r] <= now

\* The active key is in the map unless revoked, and so is the one to be active.
ActivePresent ==
  /\ active \in keys \/ active \in revoked
  /\ rotator = "activating" => Len(expire) \in keys \/ Len(expire) \in revoked

\* A revoked key does not come back.
RevokedGone == keys \cap revoked = {}

CoverInv ==
  KeysOutliveTokens /\ GoneIsOver /\ ActivePresent /\ RevokedGone /\ IssuanceSucceeds
=============================================================================
