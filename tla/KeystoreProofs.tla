--------------------------- MODULE KeystoreProofs ---------------------------
(***************************************************************************)
(* Theorems about Keystore, for every choice of the periods, the lifetimes *)
(* and the requests.                                                       *)
(***************************************************************************)
EXTENDS KeystoreInvariant, FiniteSetTheorems, TLAPS

USE RotationPeriodAssumption, ExpirationPeriodAssumption, LifetimesAssumption,
    LagAssumption, BoundsAssumption

-----------------------------------------------------------------------------
(* Types                                                                   *)

\* The store starts with its types.
LEMMA TypeInit == Init => TypeOK
<1> SUFFICES ASSUME Init PROVE TypeOK
  OBVIOUS
<1> USE DEF Init, TypeOK, Ids
<1>1. expire \in Seq(Nat) /\ Len(expire) = 1
  OBVIOUS
<1>2. nextTick \in Nat
  OBVIOUS
<1>3. rotator \in RotatorStates /\ stage \in [Requests -> Stages]
  BY DEF RotatorStates, Stages
<1>4. exp \in [Requests -> Nat] /\ kid \in [Requests -> Nat]
  OBVIOUS
<1>5. keys \subseteq Ids /\ active \in Ids /\ unvisited \subseteq Ids
  BY <1>1
<1>6. QED
  BY <1>1, <1>2, <1>3, <1>4, <1>5

\* Every step keeps the types.
LEMMA TypeStep == TypeOK /\ [Next]_vars => TypeOK'
<1> SUFFICES ASSUME TypeOK, [Next]_vars PROVE TypeOK'
  OBVIOUS
<1> USE DEF TypeOK, Ids
<1>1. CASE AdvanceTime
  <2>1. now' \in Nat /\ nextTick' \in Nat
    BY <1>1 DEF AdvanceTime
  <2>2. tickReady' \in BOOLEAN
    BY <1>1 DEF AdvanceTime
  <2>3. UNCHANGED <<storeVars, rotator, shutdown, requestVars, revoked>>
    BY <1>1 DEF AdvanceTime
  <2>4. QED
    BY <2>1, <2>2, <2>3 DEF storeVars, requestVars, Token
<1>2. CASE TakeTick
  BY <1>2 DEF TakeTick, storeVars, requestVars, RotatorStates
<1>3. CASE AddKey
  <2>1. now + ExpirationPeriod \in Nat
    OBVIOUS
  <2>2. expire' \in Seq(Nat) /\ Len(expire') = Len(expire) + 1
    BY <1>3, <2>1 DEF AddKey
  <2>3. Ids \subseteq Ids' /\ Len(expire) + 1 \in Ids'
    BY <2>2
  <2>4. keys' \subseteq Ids' /\ UNCHANGED <<active, unvisited, revoked>>
    BY <1>3, <2>3 DEF AddKey
  <2>5. active' \in Ids' /\ unvisited' \subseteq Ids' /\ revoked' \subseteq Ids'
    BY <2>3, <2>4
  <2>6. QED
    BY <1>3, <2>2, <2>4, <2>5 DEF AddKey, clockVars, requestVars, RotatorStates
<1>4. CASE GenKeyFails
  BY <1>4 DEF GenKeyFails, clockVars, storeVars, requestVars, RotatorStates
<1>5. CASE Activate
  BY <1>5 DEF Activate, clockVars, requestVars, RotatorStates
<1>6. ASSUME NEW id \in Ids, Purge(id) PROVE TypeOK'
  BY <1>6 DEF Purge, clockVars, requestVars
<1>7. CASE PurgeDone
  BY <1>7 DEF PurgeDone, clockVars, storeVars, requestVars, RotatorStates
<1>8. CASE StopRotation
  BY <1>8 DEF StopRotation, clockVars, storeVars, requestVars, RotatorStates
<1>9. CASE Signal
  BY <1>9 DEF Signal, clockVars, storeVars, requestVars
<1>10. CASE SignalTakenByMain
  BY <1>10 DEF SignalTakenByMain, clockVars, storeVars, requestVars
<1>11. ASSUME NEW id \in Ids, Revoke(id) PROVE TypeOK'
  BY <1>11 DEF Revoke, clockVars, requestVars
<1>12. ASSUME NEW r \in Requests, NewClaims(r) PROVE TypeOK'
  BY <1>12 DEF NewClaims, clockVars, storeVars, Stages
<1>13. ASSUME NEW r \in Requests, ReadActive(r) PROVE TypeOK'
  BY <1>13 DEF ReadActive, clockVars, storeVars, Stages
<1>14. ASSUME NEW r \in Requests, Sign(r) PROVE TypeOK'
  <2>1. stage' \in [Requests -> Stages] /\ UNCHANGED <<exp, kid>>
    BY <1>14 DEF Sign, Stages
  <2>2. tokens' \subseteq Token
    BY <1>14 DEF Sign, Token
  <2>3. QED
    BY <1>14, <2>1, <2>2 DEF Sign, clockVars, storeVars
<1>15. CASE UNCHANGED vars
  BY <1>15 DEF vars, clockVars, storeVars, requestVars
<1>16. QED
  BY <1>1, <1>2, <1>3, <1>4, <1>5, <1>6, <1>7, <1>8, <1>9, <1>10, <1>11, <1>12,
     <1>13, <1>14, <1>15 DEF Next, Rotation, Request

\* The ids in the map, the active id and every other part of the state keep
\* their types: in particular ks.active always names a key that was created.
THEOREM TypeCorrect == Spec => []TypeOK
  BY TypeInit, TypeStep, PTL DEF Spec

-----------------------------------------------------------------------------
(* The rotation and its timing                                             *)

\* addKey extends the history of expiries and changes none of them.
LEMMA AddKeyExtends ==
  ASSUME TypeOK, AddKey
  PROVE  /\ Len(expire') = Len(expire) + 1
         /\ \A id \in Ids : id \in Ids' /\ expire'[id] = expire[id]
         /\ expire'[Len(expire) + 1] = now + ExpirationPeriod
<1>1. expire \in Seq(Nat) /\ now + ExpirationPeriod \in Nat
  BY DEF TypeOK
<1>2. expire' = Append(expire, now + ExpirationPeriod)
  BY DEF AddKey
<1>3. QED
  BY <1>1, <1>2 DEF Ids

\* What the arithmetic of the following lemmas needs to know of the state.
LEMMA Numbers ==
  ASSUME TypeOK
  PROVE  /\ now \in Nat /\ nextTick \in Nat /\ Len(expire) \in Nat /\ LastTick \in Int
         /\ active \in Nat /\ \A id \in Ids : id \in Nat /\ expire[id] \in Nat
         /\ Len(expire) \in Ids
  BY DEF TypeOK, Ids, LastTick

LEMMA RotationInit == Init => RotationInv
<1> SUFFICES ASSUME Init PROVE RotationInv
  OBVIOUS
<1>1. TypeOK
  BY TypeInit
<1>2. Len(expire) = 1 /\ expire[1] = ExpirationPeriod /\ LastTick \in 0..Lag
  BY DEF Init, LastTick
<1>3. IdsKnown /\ RoundShape
  BY <1>2 DEF Init, IdsKnown, RoundShape
<1>4. OnTime
  BY DEF Init, OnTime, Busy
<1>5. ActiveYoung /\ KeysYoung
  BY <1>2 DEF Init, ActiveYoung, KeysYoung, Pending
<1>6. QED
  BY <1>1, <1>3, <1>4, <1>5 DEF RotationInv

\* A tick of the clock: when the ticker fires, the round before it is over,
\* and every key is one round older than it was after that round.
LEMMA RotationAdvanceTime ==
  ASSUME RotationInv, AdvanceTime, TypeOK'
  PROVE  RotationInv'
<1> USE DEF RotationInv
<1>1. UNCHANGED <<storeVars, rotator, requestVars>> /\ now' = now + 1
  BY DEF AdvanceTime
<1>2. IdsKnown' /\ RoundShape'
  <2>1. IdsKnown'
    BY <1>1 DEF IdsKnown, storeVars, requestVars, Ids
  <2>2. ASSUME Alive, rotator # "waiting" PROVE now' # nextTick
    BY <2>2, <1>1, Numbers DEF AdvanceTime, OnTime, RoundShape, Busy, LastTick, TypeOK, RotatorStates, Alive
  <2>3. RoundShape'
    BY <1>1, <2>2 DEF RoundShape, storeVars, Alive, AdvanceTime
  <2>4. QED
    BY <2>1, <2>3
<1>3. CASE ~Alive
  BY <1>1, <1>2, <1>3 DEF OnTime, ActiveYoung, KeysYoung, Alive
<1>4. CASE Alive /\ now' = nextTick
  <2>1. ~Busy
    BY <1>1, <1>4, Numbers DEF AdvanceTime, OnTime, LastTick
  <2>2. rotator = "waiting" /\ ~tickReady /\ ~Pending
    BY <1>4, <2>1 DEF Busy, Pending, Alive, TypeOK, RotatorStates
  <2>3. tickReady' /\ nextTick' = nextTick + RotationPeriod /\ Pending'
    BY <1>4 DEF AdvanceTime, Alive, Pending
  <2>4. LastTick' = LastTick + RotationPeriod /\ LastTick' = now'
    BY <1>4, <2>3, Numbers DEF LastTick
  <2>5. OnTime'
    BY <1>1, <1>4, <2>3, <2>4, Numbers DEF OnTime
  <2>6. ActiveYoung'
    <3>1. expire[active] + Lag >= ExpirationPeriod + LastTick
      BY <1>4, <2>2, Numbers DEF ActiveYoung, TypeOK
    <3>2. expire[active] \in Nat /\ LastTick \in Int
      BY Numbers DEF TypeOK
    <3>3. expire[active] + Lag + RotationPeriod >= ExpirationPeriod + (LastTick + RotationPeriod)
      BY <3>1, <3>2, RotationPeriodAssumption, ExpirationPeriodAssumption, LagAssumption
    <3>4. expire' = expire /\ active' = active /\ rotator' # "activating"
      BY <1>1, <2>2 DEF storeVars
    <3>5. QED
      BY <2>3, <2>4, <3>3, <3>4 DEF ActiveYoung
  <2>7. KeysYoung'
    BY <1>1, <1>4, <2>2, <2>3, <2>4, Numbers DEF KeysYoung, storeVars, TypeOK
  <2>8. QED
    BY <1>2, <2>5, <2>6, <2>7
<1>5. CASE Alive /\ now' # nextTick
  <2>1. UNCHANGED <<tickReady, nextTick, LastTick, Pending, Busy>>
    BY <1>1, <1>5 DEF AdvanceTime, LastTick, Pending, Busy
  <2>2. OnTime'
    BY <1>1, <1>5, <2>1, Numbers DEF OnTime, AdvanceTime
  <2>3. ActiveYoung' /\ KeysYoung'
    BY <1>1, <1>5, <2>1 DEF ActiveYoung, KeysYoung, storeVars, Alive
  <2>4. QED
    BY <1>2, <2>2, <2>3
<1>6. QED
  BY <1>3, <1>4, <1>5

\* The steps of a round.
LEMMA RotationTakeTick ==
  ASSUME RotationInv, TakeTick, TypeOK'
  PROVE  RotationInv'
<1> USE DEF RotationInv
<1>1. /\ UNCHANGED <<storeVars, requestVars, now, nextTick, LastTick>>
      /\ Alive /\ rotator = "waiting" /\ Busy /\ Pending
      /\ rotator' = "adding" /\ ~tickReady' /\ Pending'
  BY DEF TakeTick, LastTick, Alive, Busy, Pending
<1>2. IdsKnown' /\ RoundShape' /\ OnTime'
  BY <1>1 DEF IdsKnown, RoundShape, OnTime, storeVars, requestVars, Ids, Alive
<1>3. ActiveYoung' /\ KeysYoung'
  BY <1>1 DEF ActiveYoung, KeysYoung, storeVars, Alive
<1>4. QED
  BY <1>2, <1>3

LEMMA RotationAddKey ==
  ASSUME RotationInv, AddKey, TypeOK'
  PROVE  RotationInv'
<1> USE DEF RotationInv
<1>1. /\ UNCHANGED <<clockVars, requestVars, active, LastTick>>
      /\ Alive /\ Busy /\ Pending /\ rotator = "adding"
      /\ rotator' = "activating" /\ Pending'
  BY DEF AddKey, LastTick, Alive, Busy, Pending, clockVars
<1>2. IdsKnown'
  BY <1>1, AddKeyExtends DEF IdsKnown, requestVars
<1>3. RoundShape'
  BY <1>1, AddKeyExtends, Numbers DEF RoundShape, clockVars
<1>4. OnTime'
  BY <1>1 DEF OnTime, clockVars, Alive
<1>5. ActiveYoung'
  <2>1. active \in Ids /\ expire'[active] = expire[active]
    BY AddKeyExtends DEF TypeOK
  <2>2. expire'[Len(expire')] >= ExpirationPeriod + LastTick
    BY <1>1, AddKeyExtends, Numbers DEF OnTime
  <2>3. QED
    BY <1>1, <2>1, <2>2 DEF ActiveYoung
<1>6. KeysYoung'
  <2>1. \A id \in keys : expire'[id] + RotationPeriod >= LastTick
    BY <1>1, AddKeyExtends DEF KeysYoung, TypeOK
  <2>2. expire'[Len(expire) + 1] + RotationPeriod >= LastTick
    BY <1>1, AddKeyExtends, Numbers DEF OnTime
  <2>3. QED
    BY <1>1, <2>1, <2>2 DEF KeysYoung, AddKey
<1>7. QED
  BY <1>2, <1>3, <1>4, <1>5, <1>6

LEMMA RotationActivate ==
  ASSUME RotationInv, Activate, TypeOK'
  PROVE  RotationInv'
<1> USE DEF RotationInv
<1>1. /\ UNCHANGED <<clockVars, requestVars, expire, keys, LastTick>>
      /\ Alive /\ Busy /\ Pending /\ ~tickReady /\ rotator = "activating"
      /\ rotator' = "purging" /\ ~Pending'
      /\ active' = Len(expire) /\ unvisited' = keys
  BY DEF Activate, LastTick, Alive, Busy, Pending, clockVars, RoundShape
<1>2. IdsKnown' /\ RoundShape' /\ OnTime'
  BY <1>1 DEF IdsKnown, RoundShape, OnTime, clockVars, requestVars, Ids, Alive
<1>3. ActiveYoung'
  <2>1. expire[Len(expire)] >= ExpirationPeriod + LastTick
    BY <1>1 DEF ActiveYoung
  <2>2. QED
    BY <1>1, <2>1, Numbers DEF ActiveYoung
<1>4. KeysYoung'
  BY <1>1 DEF KeysYoung, clockVars
<1>5. QED
  BY <1>2, <1>3, <1>4

\* Range leaves a key in the map only if it had not expired when visited,
\* which is after the tick of the round.
LEMMA RotationPurge ==
  ASSUME RotationInv, NEW k \in Ids, Purge(k), TypeOK'
  PROVE  RotationInv'
<1> USE DEF RotationInv
<1>1. /\ UNCHANGED <<clockVars, requestVars, expire, active, rotator, LastTick, Pending>>
      /\ Alive /\ Busy /\ ~Pending /\ rotator = "purging"
      /\ keys' \subseteq keys /\ unvisited' = unvisited \ {k}
      /\ k \in keys' => expire[k] >= now
  BY Numbers DEF Purge, LastTick, Alive, Busy, Pending, clockVars, RoundShape, Expired
<1>2. IdsKnown' /\ RoundShape' /\ OnTime'
  BY <1>1 DEF IdsKnown, RoundShape, OnTime, clockVars, requestVars, Ids, Alive
<1>3. ActiveYoung'
  BY <1>1 DEF ActiveYoung, clockVars
<1>4. KeysYoung'
  <2>1. k \in keys' => expire[k] >= LastTick
    BY <1>1, Numbers DEF OnTime
  <2>2. ASSUME NEW id \in keys', id # k
        PROVE expire[id] + (IF id \in unvisited' THEN RotationPeriod ELSE 0) >= LastTick
    BY <1>1, <2>2 DEF KeysYoung
  <2>3. QED
    BY <1>1, <2>1, <2>2, Numbers DEF KeysYoung, TypeOK
<1>5. QED
  BY <1>2, <1>3, <1>4

LEMMA RotationPurgeDone ==
  ASSUME RotationInv, PurgeDone, TypeOK'
  PROVE  RotationInv'
<1> USE DEF RotationInv
<1>1. /\ UNCHANGED <<clockVars, requestVars, storeVars, LastTick>>
      /\ Alive /\ Busy /\ ~Pending /\ ~tickReady /\ rotator = "purging"
      /\ rotator' = "waiting" /\ ~Pending' /\ ~Busy' /\ unvisited = {}
  BY DEF PurgeDone, LastTick, Alive, Busy, Pending, clockVars, RoundShape
<1>2. IdsKnown' /\ RoundShape' /\ OnTime'
  BY <1>1 DEF IdsKnown, RoundShape, OnTime, clockVars, storeVars, requestVars, Ids
<1>3. ActiveYoung' /\ KeysYoung'
  BY <1>1 DEF ActiveYoung, KeysYoung, clockVars, storeVars
<1>4. QED
  BY <1>2, <1>3

\* A goroutine that has ended or hangs leaves nothing to show.
LEMMA RotationEnds ==
  ASSUME RotationInv, GenKeyFails \/ StopRotation, TypeOK'
  PROVE  RotationInv'
<1>1. ~Alive' /\ UNCHANGED <<storeVars, requestVars>>
  BY DEF GenKeyFails, StopRotation, Alive
<1>2. QED
  BY <1>1 DEF RotationInv, IdsKnown, RoundShape, OnTime, ActiveYoung, KeysYoung,
              storeVars, requestVars, Ids

\* The users of the store do not disturb the rotation.
LEMMA RotationUsers ==
  ASSUME RotationInv, TypeOK',
         UNCHANGED <<clockVars, expire, active, unvisited, rotator>>,
         keys' \subseteq keys, IdsKnown'
  PROVE  RotationInv'
<1> USE DEF RotationInv
<1>1. UNCHANGED <<LastTick, Pending, Busy, Alive>>
  BY DEF LastTick, Pending, Busy, Alive, clockVars
<1>2. RoundShape' /\ OnTime' /\ ActiveYoung'
  BY <1>1 DEF RoundShape, OnTime, ActiveYoung, clockVars
<1>3. KeysYoung'
  BY <1>1 DEF KeysYoung
<1>4. QED
  BY <1>2, <1>3

LEMMA RotationStep == RotationInv /\ [Next]_vars => RotationInv'
<1> SUFFICES ASSUME RotationInv, [Next]_vars PROVE RotationInv'
  OBVIOUS
<1>0. TypeOK'
  BY TypeStep DEF RotationInv
<1>1. CASE AdvanceTime
  BY <1>0, <1>1, RotationAdvanceTime
<1>2. CASE Rotation
  <2>1. CASE TakeTick
    BY <1>0, <2>1, RotationTakeTick
  <2>2. CASE AddKey
    BY <1>0, <2>2, RotationAddKey
  <2>3. CASE GenKeyFails \/ StopRotation
    BY <1>0, <2>3, RotationEnds
  <2>4. CASE Activate
    BY <1>0, <2>4, RotationActivate
  <2>5. ASSUME NEW id \in Ids, Purge(id) PROVE RotationInv'
    BY <1>0, <2>5, RotationPurge
  <2>6. CASE PurgeDone
    BY <1>0, <2>6, RotationPurgeDone
  <2>7. QED
    BY <1>2, <2>1, <2>2, <2>3, <2>4, <2>5, <2>6 DEF Rotation
<1>3. CASE Signal \/ SignalTakenByMain \/ UNCHANGED vars
  <2>1. UNCHANGED <<clockVars, storeVars, rotator, requestVars>>
    BY <1>3 DEF Signal, SignalTakenByMain, vars
  <2>2. IdsKnown'
    BY <2>1 DEF RotationInv, IdsKnown, Ids, requestVars, storeVars
  <2>3. QED
    BY <1>0, <2>1, <2>2, RotationUsers DEF storeVars
<1>4. ASSUME NEW id \in Ids, Revoke(id) PROVE RotationInv'
  <2>1. IdsKnown'
    BY <1>4 DEF Revoke, RotationInv, IdsKnown, Ids, requestVars
  <2>2. QED
    BY <1>0, <1>4, <2>1, RotationUsers DEF Revoke
<1>5. ASSUME NEW r \in Requests, Request(r) PROVE RotationInv'
  <2>1. UNCHANGED <<clockVars, storeVars, rotator>>
    BY <1>5 DEF Request, NewClaims, ReadActive, Sign
  <2>2. UNCHANGED Ids /\ active \in Ids
    BY <2>1 DEF Ids, storeVars, RotationInv, TypeOK
  <2>3. IdsKnown'
    <3>1. CASE NewClaims(r)
      BY <2>2, <3>1 DEF NewClaims, RotationInv, IdsKnown, TypeOK
    <3>2. CASE ReadActive(r)
      BY <2>2, <3>2 DEF ReadActive, RotationInv, IdsKnown, TypeOK
    <3>3. CASE Sign(r)
      BY <2>2, <3>3 DEF Sign, RotationInv, IdsKnown, TypeOK
    <3>4. QED
      BY <1>5, <3>1, <3>2, <3>3 DEF Request
  <2>4. QED
    BY <1>0, <2>1, <2>3, RotationUsers DEF storeVars
<1>6. QED
  BY <1>1, <1>2, <1>3, <1>4, <1>5 DEF Next

\* The ticks of the clock make Made and LastTick grow together, ...
LEMMA SpacedTick ==
  ASSUME RotationInv, KeysSpaced, AdvanceTime, Alive, now' = nextTick
  PROVE  KeysSpaced'
<1> USE DEF RotationInv
<1>1. /\ UNCHANGED <<expire, rotator>>
      /\ tickReady' /\ nextTick' = nextTick + RotationPeriod
      /\ now' = now + 1
  BY DEF AdvanceTime, storeVars, Alive
<1>2. LastTick' = LastTick + RotationPeriod
  BY <1>1, Numbers DEF LastTick
<1>3. ~Busy
  <2>1. now + 1 = nextTick /\ (Busy => now < LastTick + Lag)
    BY <1>1 DEF AdvanceTime
  <2>2. LastTick + RotationPeriod = nextTick
    BY Numbers, RotationPeriodAssumption DEF LastTick
  <2>3. QED
    BY <2>1, <2>2, Numbers, RotationPeriodAssumption, LagAssumption
<1>4. Made' = Made + 1 /\ Made \in Nat
  BY <1>1, <1>3, Numbers DEF Made, Busy
<1>5. ASSUME NEW id \in Ids
      PROVE expire[id] + (Made' - id) * RotationPeriod
              <= ExpirationPeriod + LastTick' + Lag
  <2>1. expire[id] + (Made - id) * RotationPeriod <= ExpirationPeriod + LastTick + Lag
    BY DEF KeysSpaced
  <2>2. id \in Nat /\ expire[id] \in Nat /\ LastTick \in Int
    BY Numbers
  <2>3. \A n \in Int : (n + 1) * RotationPeriod = n * RotationPeriod + RotationPeriod
    OBVIOUS
  <2>4. (Made' - id) * RotationPeriod = (Made - id) * RotationPeriod + RotationPeriod
    <3>1. Made' - id = (Made - id) + 1 /\ Made - id \in Int
      BY <1>4, <2>2
    <3>2. QED
      BY <2>3, <3>1
  <2>5. (Made - id) * RotationPeriod \in Int /\ (Made' - id) * RotationPeriod \in Int
    BY <1>4, <2>2
  <2>6. QED
    BY <1>2, <2>1, <2>2, <2>4, <2>5
<1>6. QED
  BY <1>1, <1>5 DEF KeysSpaced, Ids

\* ... the key of a round is made at most Lag after its tick, ...
LEMMA SpacedAddKey ==
  ASSUME RotationInv, KeysSpaced, AddKey
  PROVE  KeysSpaced'
<1> USE DEF RotationInv
<1>1. /\ Alive /\ rotator = "adding" /\ rotator' = "activating" /\ Busy
      /\ UNCHANGED <<LastTick, now, tickReady>> /\ ~tickReady
  BY DEF AddKey, Alive, RoundShape, Busy, LastTick, clockVars
<1>2. Made' = Made /\ Made = Len(expire) + 1 /\ Made \in Nat
  BY <1>1, AddKeyExtends, Numbers DEF Made
<1>3. Ids' = Ids \cup {Made}
  BY <1>2, AddKeyExtends, Numbers DEF Ids
<1>4. expire'[Made] + (Made - Made) * RotationPeriod <= ExpirationPeriod + LastTick + Lag
  BY <1>1, <1>2, AddKeyExtends, Numbers DEF OnTime
<1>5. \A id \in Ids : expire'[id] + (Made - id) * RotationPeriod
                        <= ExpirationPeriod + LastTick + Lag
  BY <1>1, AddKeyExtends DEF KeysSpaced
<1>6. QED
  BY <1>1, <1>2, <1>3, <1>4, <1>5 DEF KeysSpaced

\* ... and nothing else makes a key or changes the expiry of one.
LEMMA SpacedStep == RotationInv /\ KeysSpaced /\ [Next]_vars => KeysSpaced'
<1> SUFFICES ASSUME RotationInv, KeysSpaced, [Next]_vars, Alive' PROVE KeysSpaced'
  BY DEF KeysSpaced
<1> USE DEF storeVars, clockVars, Alive
<1>1. CASE AdvanceTime
  <2>1. Alive
    BY <1>1 DEF AdvanceTime
  <2>2. CASE now' = nextTick
    BY <1>1, <2>1, <2>2, SpacedTick
  <2>3. CASE now' # nextTick
    <3>1. UNCHANGED <<expire, rotator, tickReady, nextTick>>
      BY <1>1, <2>3 DEF AdvanceTime
    <3>2. QED
      BY <3>1 DEF KeysSpaced, Ids, Made, LastTick
  <2>4. QED
    BY <2>2, <2>3
<1>2. CASE TakeTick
  <2>1. UNCHANGED <<expire, nextTick>> /\ Alive
    BY <1>2 DEF TakeTick
  <2>2. Made' = Made
    BY <1>2 DEF TakeTick, Made
  <2>3. QED
    BY <2>1, <2>2 DEF KeysSpaced, Ids, LastTick
<1>3. CASE AddKey
  BY <1>3, SpacedAddKey
<1>4. CASE Activate \/ PurgeDone \/ (\E id \in Ids : Purge(id))
  <2>1. UNCHANGED <<expire, nextTick, tickReady>> /\ Alive
    BY <1>4 DEF Activate, PurgeDone, Purge
  <2>2. Made' = Made
    BY <1>4 DEF Activate, PurgeDone, Purge, Made
  <2>3. QED
    BY <2>1, <2>2 DEF KeysSpaced, Ids, LastTick
<1>5. CASE GenKeyFails \/ StopRotation
  BY <1>5 DEF GenKeyFails, StopRotation
<1>6. CASE \/ Signal \/ SignalTakenByMain \/ UNCHANGED vars
           \/ (\E id \in Ids : Revoke(id)) \/ (\E r \in Requests : Request(r))
  <2>1. UNCHANGED <<expire, nextTick, tickReady, rotator>>
    BY <1>6 DEF Signal, SignalTakenByMain, vars, Revoke, Request, NewClaims, ReadActive, Sign
  <2>2. QED
    BY <2>1 DEF KeysSpaced, Ids, Made, LastTick
<1>7. QED
  BY <1>1, <1>2, <1>3, <1>4, <1>5, <1>6 DEF Next, Rotation

LEMMA SpacedInit == Init => KeysSpaced
<1> SUFFICES ASSUME Init, NEW id \in Ids
             PROVE expire[id] + (Made - id) * RotationPeriod
                     <= ExpirationPeriod + LastTick + Lag
  BY DEF KeysSpaced
<1>1. id = 1 /\ expire[1] = ExpirationPeriod /\ Made = 1 /\ LastTick \in 0..Lag
  BY DEF Init, Ids, Made, LastTick
<1>2. QED
  BY <1>1

\* A key in the map is not much older, in rounds, than the youngest key.
LEMMA RecentKeys ==
  ASSUME RotationInv, KeysSpaced, Alive, NEW id \in keys
  PROVE  (Len(expire) - id) * RotationPeriod <= ExpirationPeriod + Lag + RotationPeriod
<1>1. /\ id \in Ids /\ id \in Nat /\ expire[id] \in Nat
      /\ Len(expire) \in Nat /\ LastTick \in Int
  BY Numbers DEF RotationInv, TypeOK
<1>2. expire[id] + RotationPeriod >= LastTick
  BY <1>1, Numbers DEF RotationInv, KeysYoung
<1>3. expire[id] + (Made - id) * RotationPeriod <= ExpirationPeriod + LastTick + Lag
  BY <1>1 DEF KeysSpaced
<1>4. (Len(expire) - id) * RotationPeriod <= (Made - id) * RotationPeriod
  <2>1. Made \in {Len(expire), Len(expire) + 1}
    BY <1>1 DEF Made
  <2>2. \A n \in Int : n * RotationPeriod <= (n + 1) * RotationPeriod
    OBVIOUS
  <2>3. Len(expire) - id \in Int /\ (Len(expire) + 1) - id = (Len(expire) - id) + 1
    BY <1>1
  <2>4. CASE Made = Len(expire)
    <3>1. Len(expire) - id \in Int /\ (Len(expire) - id) * RotationPeriod \in Int
      BY <1>1
    <3>2. QED
      BY <2>4, <3>1
  <2>5. CASE Made = Len(expire) + 1
    BY <2>2, <2>3, <2>5
  <2>6. QED
    BY <2>1, <2>4, <2>5
<1>5. (Len(expire) - id) * RotationPeriod \in Int /\ (Made - id) * RotationPeriod \in Int
  BY <1>1 DEF Made
<1>6. QED
  BY <1>1, <1>2, <1>3, <1>4, <1>5

\* So the map holds the keys of a bounded number of rounds.  Were there more
\* keys, they could not all be among that many of the youngest.
LEMMA FewKeys ==
  ASSUME RotationInv, KeysSpaced, Alive
  PROVE  (Cardinality(keys) - 2) * RotationPeriod <= ExpirationPeriod + Lag
<1> DEFINE last == Len(expire)
           n == Cardinality(keys)
<1>1. last \in Nat /\ keys \subseteq 1..last
  BY Numbers DEF RotationInv, TypeOK, Ids
<1>2. IsFiniteSet(keys) /\ n \in Nat
  <2>1. IsFiniteSet(1..last)
    BY <1>1, FS_Interval
  <2>2. IsFiniteSet(keys)
    BY <1>1, <2>1, FS_Subset
  <2>3. QED
    BY <2>2, FS_CardinalityType
<1>3. CASE n = 0
  <2>1. (n - 2) * RotationPeriod = -2 * RotationPeriod
    BY <1>3
  <2>2. -2 * RotationPeriod <= ExpirationPeriod + Lag
    OBVIOUS
  <2>3. QED
    BY <2>1, <2>2
<1>4. CASE n # 0
  <2>1. PICK id \in keys : id <= last - (n - 1)
    <3> SUFFICES ASSUME \A id \in keys : ~(id <= last - (n - 1)) PROVE FALSE
      OBVIOUS
    <3> HIDE DEF last, n
    <3>1. (last - (n - 1)) + 1 \in Int /\ last \in Int
      BY <1>1, <1>2
    <3>2. keys \subseteq ((last - (n - 1)) + 1)..last
      BY <1>1, <1>2
    <3>3. /\ IsFiniteSet(((last - (n - 1)) + 1)..last)
          /\ Cardinality(((last - (n - 1)) + 1)..last) <= n - 1
      <4>1. /\ IsFiniteSet(((last - (n - 1)) + 1)..last)
            /\ Cardinality(((last - (n - 1)) + 1)..last)
                 = IF (last - (n - 1)) + 1 > last THEN 0 ELSE last - ((last - (n - 1)) + 1) + 1
        BY <3>1, FS_Interval
      <4>2. QED
        BY <1>1, <1>2, <1>4, <4>1
    <3>4. Cardinality(keys) <= Cardinality(((last - (n - 1)) + 1)..last)
      BY <3>2, <3>3, FS_Subset
    <3>5. Cardinality(keys) = n /\ Cardinality(((last - (n - 1)) + 1)..last) \in Nat
      BY <3>3, FS_CardinalityType DEF n
    <3>6. QED
      BY <1>2, <3>3, <3>4, <3>5
  <2>2. (last - id) * RotationPeriod <= ExpirationPeriod + Lag + RotationPeriod
    BY RecentKeys
  <2> HIDE DEF last, n
  <2>3. n - 1 <= last - id /\ n - 1 \in Int /\ last - id \in Int
    BY <1>1, <1>2, <2>1
  <2>4. \A i, j \in Int : i <= j => i * RotationPeriod <= j * RotationPeriod
    OBVIOUS
  <2>5. (n - 1) * RotationPeriod <= (last - id) * RotationPeriod
    BY <2>3, <2>4
  <2>6. (n - 2) * RotationPeriod = (n - 1) * RotationPeriod - RotationPeriod
    BY <1>2
  <2>7. /\ (n - 1) * RotationPeriod \in Int /\ (last - id) * RotationPeriod \in Int
        /\ (n - 2) * RotationPeriod \in Int
    BY <1>2, <2>3
  <2>8. (n - 2) * RotationPeriod <= ExpirationPeriod + Lag
    BY <2>2, <2>5, <2>6, <2>7
  <2>9. QED
    BY <2>8 DEF n
<1>5. QED
  BY <1>3, <1>4

\* A key leaves the map at most a rotation round after its expiry.
LEMMA NoStaleKey ==
  ASSUME RotationInv, Alive, NEW id \in keys
  PROVE  now <= expire[id] + RotationPeriod + Lag
<1>1. id \in Ids /\ expire[id] \in Nat
  BY DEF RotationInv, TypeOK, Ids
<1>2. CASE Busy
  <2>1. now <= LastTick + Lag
    BY <1>2 DEF RotationInv, OnTime
  <2>2. expire[id] + RotationPeriod >= LastTick
    BY <1>1, Numbers DEF RotationInv, KeysYoung
  <2>3. QED
    BY <1>1, <2>1, <2>2, Numbers DEF RotationInv
<1>3. CASE ~Busy
  <2>1. expire[id] >= LastTick
    BY <1>1, <1>3, Numbers DEF RotationInv, KeysYoung, Busy, Pending
  <2>2. now < LastTick + RotationPeriod
    BY Numbers DEF RotationInv, OnTime, LastTick
  <2>3. QED
    BY <1>1, <2>1, <2>2, Numbers DEF RotationInv
<1>4. QED
  BY <1>2, <1>3

\* The map holds no key for longer than a rotation round after its expiry, and
\* never more keys than an expiration period has rounds and two, as long as the
\* goroutine rotates: whatever the periods, and however calls of Revoke and
\* Token interleave with the rounds.
THEOREM PurgeBound == Spec => []ExpiredKeysPurged
<1>1. Init => RotationInv /\ KeysSpaced
  BY RotationInit, SpacedInit
<1>2. RotationInv /\ KeysSpaced /\ [Next]_vars => (RotationInv /\ KeysSpaced)'
  BY RotationStep, SpacedStep
<1>3. RotationInv /\ KeysSpaced => ExpiredKeysPurged
  BY NoStaleKey, FewKeys DEF ExpiredKeysPurged
<1>4. QED
  BY <1>1, <1>2, <1>3, PTL DEF Spec

\* While the goroutine rotates, ks.active names a key that was made at most one
\* round ago: a tick has renewed it, or is about to.
ActiveFresh ==
  Alive => now <= (expire[active] - ExpirationPeriod) + RotationPeriod + 2 * Lag

LEMMA RoundsRenewActive ==
  ASSUME RotationInv
  PROVE  ActiveFresh
<1> SUFFICES ASSUME Alive
             PROVE  now <= (expire[active] - ExpirationPeriod) + RotationPeriod + 2 * Lag
  BY DEF ActiveFresh
<1> DEFINE e == expire[active]
           t == LastTick
<1>1. e \in Nat /\ t \in Int /\ now \in Nat
  BY Numbers DEF RotationInv, TypeOK
<1>2. RotationPeriod \in Nat /\ ExpirationPeriod \in Nat /\ Lag \in Nat
  BY RotationPeriodAssumption, ExpirationPeriodAssumption, LagAssumption
<1> HIDE DEF e, t
<1>3. CASE Pending
  <2>1. e + Lag + RotationPeriod >= ExpirationPeriod + t
    BY <1>3 DEF RotationInv, ActiveYoung, e, t
  <2>2. now <= t + Lag
    BY <1>3 DEF Pending, Busy, RotationInv, OnTime, t
  <2>3. QED
    BY <1>1, <1>2, <2>1, <2>2 DEF e
<1>4. CASE ~Pending
  <2>1. e + Lag >= ExpirationPeriod + t
    <3>1. e + Lag + 0 >= ExpirationPeriod + t
      BY <1>4 DEF RotationInv, ActiveYoung, e, t
    <3>2. QED
      BY <3>1, <1>1, <1>2
  <2>2. now < t + RotationPeriod
    BY Numbers DEF RotationInv, OnTime, LastTick, t
  <2>3. QED
    BY <1>1, <1>2, <2>1, <2>2 DEF e
<1>5. QED
  BY <1>3, <1>4

\* Keys are renewed in time: what is left of TickRenewsActive without fairness.
THEOREM ActiveKeyFresh == Spec => []ActiveFresh
  BY RoundsRenewActive, RotationInit, RotationStep, PTL DEF Spec

-----------------------------------------------------------------------------
(* Tokens and their keys, when the periods are Covered                     *)

Inv == RotationInv /\ CoverInv

\* The expiration period leaves room for one rotation round at least.
LEMMA PeriodsRoom ==
  ASSUME Covered
  PROVE  RotationPeriod + 2 * Lag <= ExpirationPeriod
<1>1. PICK life \in Lifetimes : TRUE
  OBVIOUS
<1>2. life \in Nat /\ RotationPeriod + 2 * Lag + life <= ExpirationPeriod
  BY <1>1 DEF Covered
<1>3. QED
  BY <1>2

\* The active key outlives a token that is signed with it now.
LEMMA ActiveOutlives ==
  ASSUME Covered, RotationInv, Alive, NEW life \in Lifetimes
  PROVE  now + life <= expire[active]
<1>1. life \in Nat /\ RotationPeriod + 2 * Lag + life <= ExpirationPeriod
  BY DEF Covered
<1>2. now \in Nat /\ expire[active] \in Nat
  BY Numbers DEF RotationInv, TypeOK
<1>3. now <= (expire[active] - ExpirationPeriod) + RotationPeriod + 2 * Lag
  BY RoundsRenewActive DEF ActiveFresh
<1>4. QED
  BY <1>1, <1>2, <1>3, RotationPeriodAssumption, ExpirationPeriodAssumption, LagAssumption

\* So the active key has not expired while the goroutine rotates.
LEMMA ActiveUnexpired ==
  ASSUME Covered, RotationInv, Alive
  PROVE  now <= expire[active]
<1>1. PICK life \in Lifetimes : TRUE
  OBVIOUS
<1>2. now + life <= expire[active] /\ life \in Nat
  BY <1>1, ActiveOutlives
<1>3. QED
  BY <1>2, Numbers DEF RotationInv, TypeOK

LEMMA CoverInit == Init => CoverInv
  BY DEF Init, CoverInv, KeysOutliveTokens, GoneIsOver, ActivePresent, IssuanceSucceeds, Alive,
              RevokedGone

\* Steps that change neither the map, nor requests, nor tokens.
LEMMA CoverQuiet ==
  ASSUME CoverInv, RotationInv, UNCHANGED <<expire, keys, requestVars, revoked>>,
         now' = now \/ now' = now + 1,
         Alive' => Alive,
         active' = active \/ (rotator = "activating" /\ active' = Len(expire)),
         rotator' = "activating" => rotator = "activating"
  PROVE  CoverInv'
<1> USE DEF CoverInv, RotationInv
<1>1. now' \in Nat /\ now <= now' /\ now \in Nat
  BY DEF TypeOK
<1>2. KeysOutliveTokens'
  <2>1. ASSUME NEW r \in Requests, stage[r] \in {"claims", "keyed"}
        PROVE \E life \in Lifetimes : exp[r] <= now' + life
    <3>1. PICK life \in Lifetimes : exp[r] <= now + life
      BY <2>1 DEF KeysOutliveTokens
    <3>2. life \in Nat /\ exp[r] \in Nat
      BY DEF TypeOK
    <3>3. QED
      BY <1>1, <3>1, <3>2
  <2>2. QED
    BY <2>1 DEF KeysOutliveTokens, requestVars
<1>3. GoneIsOver'
  BY <1>1 DEF GoneIsOver, requestVars, TypeOK, Token
<1>4. ActivePresent' /\ RevokedGone'
  BY DEF ActivePresent, RevokedGone
<1>5. IssuanceSucceeds'
  BY <1>1 DEF IssuanceSucceeds, requestVars, TypeOK
<1>6. QED
  BY <1>2, <1>3, <1>4, <1>5

LEMMA CoverAddKey ==
  ASSUME CoverInv, RotationInv, AddKey
  PROVE  CoverInv'
<1> USE DEF CoverInv, RotationInv
<1>1. UNCHANGED <<now, active, requestVars, revoked, Alive>> /\ rotator = "adding"
  BY DEF AddKey, Alive, clockVars
<1>2. keys' = keys \cup {Len(expire')} /\ Len(expire') = Len(expire) + 1
  BY AddKeyExtends DEF AddKey
<1>3. KeysOutliveTokens'
  <2>1. \A t \in tokens : expire'[t.kid] = expire[t.kid]
    BY AddKeyExtends DEF IdsKnown
  <2>2. \A r \in Requests : stage[r] = "keyed" => expire'[kid[r]] = expire[kid[r]]
    BY AddKeyExtends DEF IdsKnown
  <2>3. QED
    BY <1>1, <2>1, <2>2 DEF KeysOutliveTokens, requestVars
<1>4. GoneIsOver' /\ IssuanceSucceeds'
  BY <1>1, <1>2 DEF GoneIsOver, IssuanceSucceeds, requestVars
<1>5. ActivePresent' /\ RevokedGone'
  <2>1. Len(expire') \notin revoked
    BY <1>2, Numbers DEF TypeOK, Ids
  <2>2. QED
    BY <1>1, <1>2, <2>1 DEF ActivePresent, RevokedGone
<1>6. QED
  BY <1>3, <1>4, <1>5

\* A key that Range deletes had expired: it is not the active key, and every
\* token that it signed is over.
LEMMA CoverPurge ==
  ASSUME Covered, CoverInv, RotationInv, NEW k \in Ids, Purge(k)
  PROVE  CoverInv'
<1> USE DEF CoverInv, RotationInv
<1>1. /\ UNCHANGED <<now, expire, active, rotator, requestVars, revoked, Alive>>
      /\ Alive /\ rotator = "purging" /\ keys \ {k} \subseteq keys'
      /\ k \notin keys' => k \notin keys \/ expire[k] < now
  BY DEF Purge, Alive, clockVars, Expired
<1>2. KeysOutliveTokens'
  BY <1>1 DEF KeysOutliveTokens, requestVars
<1>3. GoneIsOver'
  <2>1. ASSUME NEW t \in tokens, t.kid = k PROVE t.kid \in keys' \/ t.kid \in revoked \/ t.exp <= now
    <3>1. t.exp <= expire[k] /\ t.exp \in Nat /\ expire[k] \in Nat
      BY <1>1, <2>1, Numbers DEF KeysOutliveTokens, TypeOK, Token
    <3>2. QED
      BY <1>1, <2>1, <3>1, Numbers DEF GoneIsOver
  <2>2. ASSUME NEW r \in Requests, stage[r] = "keyed", kid[r] = k
        PROVE kid[r] \in keys' \/ kid[r] \in revoked \/ exp[r] <= now
    <3>1. exp[r] <= expire[k] /\ exp[r] \in Nat /\ expire[k] \in Nat
      BY <1>1, <2>2, Numbers DEF KeysOutliveTokens, TypeOK
    <3>2. QED
      BY <1>1, <2>2, <3>1, Numbers DEF GoneIsOver
  <2>3. QED
    BY <1>1, <2>1, <2>2 DEF GoneIsOver, requestVars
<1>4. ActivePresent'
  <2>1. now <= expire[active] /\ active \in Ids /\ expire[active] \in Nat
    BY <1>1, ActiveUnexpired, Numbers DEF TypeOK
  <2>2. QED
    BY <1>1, <2>1, Numbers DEF ActivePresent
<1>5. IssuanceSucceeds' /\ RevokedGone'
  <2>1. keys' \subseteq keys
    BY DEF Purge
  <2>2. QED
    BY <1>1, <2>1 DEF IssuanceSucceeds, requestVars, RevokedGone
<1>6. QED
  BY <1>2, <1>3, <1>4, <1>5

LEMMA CoverRevoke ==
  ASSUME CoverInv, RotationInv, NEW k \in Ids, Revoke(k)
  PROVE  CoverInv'
<1>1. /\ UNCHANGED <<now, expire, active, rotator, requestVars, Alive>>
      /\ keys' \cup revoked' = keys \cup revoked /\ revoked \subseteq revoked'
  BY DEF Revoke, Alive, clockVars
<1>2. RevokedGone'
  BY DEF Revoke, CoverInv, RevokedGone
<1>3. KeysOutliveTokens'
  BY <1>1 DEF CoverInv, KeysOutliveTokens, requestVars
<1>4. GoneIsOver' /\ ActivePresent' /\ IssuanceSucceeds'
  BY <1>1 DEF CoverInv, GoneIsOver, ActivePresent, IssuanceSucceeds, requestVars
<1>5. QED
  BY <1>2, <1>3, <1>4 DEF CoverInv

\* The three steps of Auth.Token.
LEMMA CoverRequest ==
  ASSUME Covered, CoverInv, RotationInv, NEW r \in Requests, Request(r)
  PROVE  CoverInv'
<1> USE DEF CoverInv, RotationInv, TypeOK
<1>1. UNCHANGED <<now, expire, keys, active, rotator, revoked, Alive>>
  BY DEF Request, NewClaims, ReadActive, Sign, clockVars, storeVars, Alive
<1>2. ActivePresent' /\ RevokedGone'
  BY <1>1 DEF ActivePresent, RevokedGone
<1>3. CASE NewClaims(r)
  <2>1. /\ \A q \in Requests : q # r => stage'[q] = stage[q] /\ exp'[q] = exp[q]
        /\ stage'[r] = "claims" /\ \E life \in Lifetimes : exp'[r] <= now + life
        /\ UNCHANGED <<kid, tokens>>
    BY <1>3 DEF NewClaims
  <2>2. KeysOutliveTokens'
    BY <1>1, <2>1 DEF KeysOutliveTokens
  <2>3. GoneIsOver' /\ IssuanceSucceeds'
    BY <1>1, <2>1 DEF GoneIsOver, IssuanceSucceeds
  <2>4. QED
    BY <1>2, <2>2, <2>3
<1>4. CASE ReadActive(r)
  <2>1. /\ \A q \in Requests : q # r => stage'[q] = stage[q] /\ kid'[q] = kid[q]
        /\ stage[r] = "claims" /\ stage'[r] = "keyed" /\ kid'[r] = active
        /\ UNCHANGED <<exp, tokens>>
    BY <1>4 DEF ReadActive
  <2>2. Alive => exp[r] <= expire[active]
    <3>1. PICK life \in Lifetimes : exp[r] <= now + life
      BY <2>1 DEF KeysOutliveTokens
    <3>2. Alive => now + life <= expire[active]
      BY ActiveOutlives
    <3>3. life \in Nat /\ exp[r] \in Nat /\ expire[active] \in Nat /\ now \in Nat
      BY Numbers
    <3>4. QED
      BY <3>1, <3>2, <3>3
  <2>3. KeysOutliveTokens'
    BY <1>1, <2>1, <2>2 DEF KeysOutliveTokens
  <2>4. GoneIsOver' /\ IssuanceSucceeds'
    BY <1>1, <2>1 DEF GoneIsOver, IssuanceSucceeds, ActivePresent
  <2>5. QED
    BY <1>2, <2>3, <2>4
<1>5. CASE Sign(r)
  <2>1. /\ \A q \in Requests : q # r => stage'[q] = stage[q]
        /\ stage[r] = "keyed" /\ stage'[r] = IF kid[r] \in keys THEN "issued" ELSE "failed"
        /\ UNCHANGED <<exp, kid>>
    BY <1>5 DEF Sign
  <2>2. \A t \in tokens' :
          t \in tokens \/ (t.kid = kid[r] /\ t.exp = exp[r] /\ kid[r] \in keys)
    BY <1>5 DEF Sign
  <2>3. KeysOutliveTokens'
    BY <1>1, <2>1, <2>2 DEF KeysOutliveTokens
  <2>4. GoneIsOver'
    BY <1>1, <2>1, <2>2 DEF GoneIsOver
  <2>5. IssuanceSucceeds'
    BY <1>1, <2>1 DEF IssuanceSucceeds, GoneIsOver
  <2>6. QED
    BY <1>2, <2>3, <2>4, <2>5
<1>6. QED
  BY <1>3, <1>4, <1>5 DEF Request

LEMMA CoverStep ==
  ASSUME Covered, CoverInv, RotationInv, [Next]_vars
  PROVE  CoverInv'
<1> USE DEF storeVars, requestVars, clockVars, Alive
<1>1. CASE AdvanceTime
  BY <1>1, CoverQuiet DEF AdvanceTime
<1>2. CASE AddKey
  BY <1>2, CoverAddKey
<1>3. CASE Activate
  BY <1>3, CoverQuiet DEF Activate
<1>4. CASE TakeTick \/ GenKeyFails \/ PurgeDone \/ StopRotation
  <2>1. /\ UNCHANGED <<now, storeVars, requestVars, revoked>>
        /\ Alive /\ rotator' # "activating"
    BY <1>4 DEF TakeTick, GenKeyFails, PurgeDone, StopRotation
  <2>2. QED
    BY <2>1, CoverQuiet
<1>5. ASSUME NEW k \in Ids, Purge(k) PROVE CoverInv'
  BY <1>5, CoverPurge
<1>6. CASE Signal \/ SignalTakenByMain \/ UNCHANGED vars
  <2>1. UNCHANGED <<now, storeVars, requestVars, revoked, rotator>>
    BY <1>6 DEF Signal, SignalTakenByMain, vars
  <2>2. QED
    BY <2>1, CoverQuiet
<1>7. ASSUME NEW k \in Ids, Revoke(k) PROVE CoverInv'
  BY <1>7, CoverRevoke
<1>8. ASSUME NEW r \in Requests, Request(r) PROVE CoverInv'
  BY <1>8, CoverRequest
<1>9. QED
  BY <1>1, <1>2, <1>3, <1>4, <1>5, <1>6, <1>7, <1>8 DEF Next, Rotation

\* The inductive invariant, for periods that are Covered.
LEMMA InvHolds == ASSUME Covered PROVE Spec => []Inv
<1>1. Init => Inv
  BY RotationInit, CoverInit DEF Inv
<1>2. Inv /\ [Next]_vars => Inv'
  BY RotationStep, CoverStep DEF Inv
<1>3. QED
  BY <1>1, <1>2, PTL DEF Spec

\* When the expiration period covers a rotation round, twice its delay and the
\* longest token lifetime, a token is accepted until it expires, unless its key
\* was revoked by hand: no rotation, race or dead goroutine cuts it short.
THEOREM Honoured == ASSUME Covered PROVE Spec => []TokensHonoured
<1>1. Inv => TokensHonoured
  <2> SUFFICES ASSUME Inv, NEW t \in tokens, now < t.exp, t.kid \notin revoked
               PROVE Accepts(t)
    BY DEF TokensHonoured
  <2>1. now \in Nat /\ t.exp \in Nat
    BY DEF Inv, RotationInv, TypeOK, Token
  <2>2. QED
    BY <2>1 DEF Inv, CoverInv, GoneIsOver, Accepts
<1>2. QED
  BY <1>1, InvHolds, PTL

\* Under the same hypothesis rotation never makes Token fail, however many
\* rounds pass between its read of ks.active and the lookup of that key.
THEOREM IssuanceNeverRacesPurge == ASSUME Covered PROVE Spec => []IssuanceSucceeds
<1>1. Inv => IssuanceSucceeds
  BY DEF Inv, CoverInv
<1>2. QED
  BY <1>1, InvHolds, PTL

\* Under the same hypothesis the key that ks.active names is in the map and
\* unexpired, in the middle of a round too, unless it was revoked by hand.
THEOREM ActiveKeyUsable == ASSUME Covered PROVE Spec => []ActiveUsable
<1>1. Inv => ActiveUsable
  BY ActiveUnexpired DEF Inv, CoverInv, ActivePresent, ActiveUsable
<1>2. QED
  BY <1>1, InvHolds, PTL

-----------------------------------------------------------------------------
(* Keystore implements TokenService                                        *)

HonouredTokens == {t \in tokens : Accepts(t)}

\* Steps that change neither the tokens nor who accepts them.
LEMMA ServiceQuiet ==
  ASSUME UNCHANGED <<now, tokens, revoked>>, \A t \in tokens : t.kid \in keys <=> t.kid \in keys'
  PROVE  UNCHANGED Service!vars
  BY DEF Service!vars, Accepts

LEMMA ServicePass ==
  ASSUME AdvanceTime, Inv
  PROVE  Service!Pass
<1>1. now' = now + 1 /\ UNCHANGED <<tokens, keys, revoked>>
  BY DEF AdvanceTime, storeVars, requestVars
<1>2. \A t \in tokens : now \in Nat /\ t.exp \in Nat
  BY DEF Inv, RotationInv, TypeOK, Token
<1>3. \A t \in tokens : Accepts(t)' <=> Accepts(t) /\ now' < t.exp
  BY <1>1, <1>2 DEF Accepts
<1>4. QED
  BY <1>1, <1>3 DEF Service!Pass

\* A key that Range deletes has no token left that Parse would accept.
LEMMA ServicePurge ==
  ASSUME Inv, NEW k \in Ids, Purge(k)
  PROVE  UNCHANGED Service!vars
<1>1. /\ Alive /\ keys \ {k} \subseteq keys' /\ keys' \subseteq keys
      /\ k \in keys' \/ k \notin keys \/ expire[k] < now
      /\ UNCHANGED <<now, tokens, revoked>>
  BY DEF Purge, Alive, Expired, requestVars, clockVars
<1>2. ASSUME NEW t \in tokens, now < t.exp
      PROVE t.kid \in keys <=> t.kid \in keys'
  <2>1. t.exp <= expire[t.kid]
    BY <1>1 DEF Inv, CoverInv, KeysOutliveTokens
  <2>2. t.kid \in Ids /\ t.exp \in Nat /\ expire[t.kid] \in Nat /\ now \in Nat
    BY Numbers DEF Inv, RotationInv, IdsKnown, TypeOK, Token
  <2>3. QED
    BY <1>1, <1>2, <2>1, <2>2
<1>3. QED
  BY <1>1, <1>2 DEF Service!vars, Accepts

LEMMA ServiceRevoke ==
  ASSUME Inv, NEW k \in Ids, Revoke(k)
  PROVE  Service!Withdraw \/ UNCHANGED Service!vars
<1>1. UNCHANGED <<now, tokens>> /\ keys' = keys \ {k} /\ revoked' = revoked \cup ({k} \cap keys)
  BY DEF Revoke, requestVars, clockVars
<1>2. CASE k \in keys
  <2>1. revoked' = revoked \cup {k} /\ k \in revoked'
    BY <1>1, <1>2
  <2>2. HonouredTokens' = {t \in HonouredTokens : t.kid # k}
    BY <1>1 DEF HonouredTokens, Accepts
  <2>3. QED
    BY <1>1, <2>1, <2>2 DEF Service!Withdraw, HonouredTokens
<1>3. CASE k \notin keys
  BY <1>1, <1>3 DEF Service!vars, Accepts
<1>4. QED
  BY <1>2, <1>3

LEMMA ServiceSign ==
  ASSUME Inv, NEW r \in Requests, Sign(r)
  PROVE  Service!Issue \/ UNCHANGED Service!vars
<1> DEFINE t == [kid |-> kid[r], exp |-> exp[r]]
<1>1. UNCHANGED <<now, keys, revoked>> /\ stage[r] = "keyed"
  BY DEF Sign, clockVars, storeVars
<1>2. CASE kid[r] \in keys /\ now < exp[r]
  <2>1. HonouredTokens' = HonouredTokens \cup {t} /\ t \in HonouredTokens'
    BY <1>1, <1>2 DEF Sign, HonouredTokens, Accepts
  <2>2. t.kid \notin revoked /\ now < t.exp /\ \E life \in Lifetimes : t.exp <= now + life
    BY <1>1, <1>2 DEF Inv, CoverInv, RevokedGone, KeysOutliveTokens
  <2>3. Service!Issue
    BY <1>1, <2>1, <2>2 DEF Service!Issue, HonouredTokens
  <2>4. QED
    BY <2>3
<1>3. CASE ~(kid[r] \in keys /\ now < exp[r])
  BY <1>1, <1>3 DEF Sign, Service!vars, Accepts
<1>4. QED
  BY <1>2, <1>3

LEMMA ServiceStep ==
  ASSUME Inv, [Next]_vars
  PROVE  Service!Next \/ UNCHANGED Service!vars
<1> USE DEF storeVars, requestVars, clockVars
<1>1. CASE AdvanceTime
  BY <1>1, ServicePass DEF Service!Next
<1>2. CASE AddKey
  <2>1. \A t \in tokens : t.kid # Len(expire) + 1
    BY Numbers DEF Inv, RotationInv, IdsKnown, Ids
  <2>2. QED
    BY <1>2, <2>1, ServiceQuiet DEF AddKey
<1>3. CASE \/ TakeTick \/ GenKeyFails \/ Activate \/ PurgeDone \/ StopRotation
           \/ Signal \/ SignalTakenByMain \/ UNCHANGED vars
  <2>1. UNCHANGED <<now, keys, tokens, revoked>>
    BY <1>3 DEF TakeTick, GenKeyFails, Activate, PurgeDone, StopRotation, Signal,
                SignalTakenByMain, vars
  <2>2. QED
    BY <2>1, ServiceQuiet
<1>4. ASSUME NEW k \in Ids, Purge(k) PROVE UNCHANGED Service!vars
  BY <1>4, ServicePurge
<1>5. ASSUME NEW k \in Ids, Revoke(k) PROVE Service!Next \/ UNCHANGED Service!vars
  BY <1>5, ServiceRevoke DEF Service!Next
<1>6. ASSUME NEW r \in Requests, Request(r) PROVE Service!Next \/ UNCHANGED Service!vars
  <2>1. CASE NewClaims(r) \/ ReadActive(r)
    BY <2>1, ServiceQuiet DEF NewClaims, ReadActive
  <2>2. CASE Sign(r)
    BY <2>2, ServiceSign DEF Service!Next
  <2>3. QED
    BY <1>6, <2>1, <2>2 DEF Request
<1>7. QED
  BY <1>1, <1>2, <1>3, <1>4, <1>5, <1>6 DEF Next, Rotation

\* The store with its rotation keeps the promise of TokenService: a token is
\* honoured from its signature to its expiry or the revocation of its key, and
\* adding, activating and purging keys are invisible to its holders.
THEOREM KeystoreImplementsService == ASSUME Covered PROVE Spec => ImplementsTokenService
<1>1. Init => Service!Init
  BY DEF Init, Service!Init
<1>2. Inv /\ [Next]_vars => [Service!Next]_(Service!vars)
  BY ServiceStep
<1>3. QED
  BY <1>1, <1>2, InvHolds, PTL DEF Spec, Service!Spec, ImplementsTokenService

=============================================================================
