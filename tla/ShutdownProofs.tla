--------------------------- MODULE ShutdownProofs ----------------------------
(***************************************************************************)
(* Theorems about Shutdown, for any number of requests that are in         *)
(* progress at the same time and any bound of the signals.                 *)
(***************************************************************************)
EXTENDS Shutdown, SequenceTheorems, TLAPS

-----------------------------------------------------------------------------
(* The queue of receivers                                                  *)

Nobody == <<>>
MainOnly == <<"main">>
RotationOnly == <<"rotation">>
MainFirst == <<"main", "rotation">>
RotationFirst == <<"rotation", "main">>

\* The queues of at most two receivers, by their elements.
LEMMA QueueElements ==
  /\ Nobody \in Seq(Receivers) /\ Len(Nobody) = 0
  /\ MainOnly \in Seq(Receivers) /\ Len(MainOnly) = 1 /\ MainOnly[1] = "main"
  /\ RotationOnly \in Seq(Receivers) /\ Len(RotationOnly) = 1 /\ RotationOnly[1] = "rotation"
  /\ MainFirst \in Seq(Receivers) /\ Len(MainFirst) = 2
  /\ MainFirst[1] = "main" /\ MainFirst[2] = "rotation"
  /\ RotationFirst \in Seq(Receivers) /\ Len(RotationFirst) = 2
  /\ RotationFirst[1] = "rotation" /\ RotationFirst[2] = "main"
  /\ Queues = {Nobody, MainOnly, RotationOnly, MainFirst, RotationFirst}
  /\ Nobody = <<>>
<1>1. "main" \in Receivers /\ "rotation" \in Receivers
  BY DEF Receivers
<1>2. QED
  BY <1>1 DEF Nobody, MainOnly, RotationOnly, MainFirst, RotationFirst, Queues

\* Who is parked in each of them.
LEMMA QueueMembers ==
  /\ ~Parked(Nobody, "main") /\ ~Parked(Nobody, "rotation")
  /\ Parked(MainOnly, "main") /\ ~Parked(MainOnly, "rotation")
  /\ ~Parked(RotationOnly, "main") /\ Parked(RotationOnly, "rotation")
  /\ Parked(MainFirst, "main") /\ Parked(MainFirst, "rotation")
  /\ Parked(RotationFirst, "main") /\ Parked(RotationFirst, "rotation")
<1>1. \A q \in Seq(Receivers) : DOMAIN q = 1..Len(q)
  OBVIOUS
<1>2. \A q \in Seq(Receivers), who \in Receivers :
        Parked(q, who) <=> \E i \in 1..Len(q) : q[i] = who
  BY <1>1 DEF Parked
<1>3. "main" \in Receivers /\ "rotation" \in Receivers /\ "main" # "rotation"
  BY DEF Receivers
<1>4. \A q \in Seq(Receivers), who \in Receivers :
        /\ Len(q) = 0 => ~Parked(q, who)
        /\ Len(q) = 1 => (Parked(q, who) <=> q[1] = who)
        /\ Len(q) = 2 => (Parked(q, who) <=> q[1] = who \/ q[2] = who)
  BY <1>2
<1>5. ~Parked(Nobody, "main") /\ ~Parked(Nobody, "rotation")
  BY <1>3, <1>4, QueueElements
<1>6. /\ Parked(MainOnly, "main") /\ ~Parked(MainOnly, "rotation")
      /\ ~Parked(RotationOnly, "main") /\ Parked(RotationOnly, "rotation")
  BY <1>3, <1>4, QueueElements
<1>7. /\ Parked(MainFirst, "main") /\ Parked(MainFirst, "rotation")
      /\ Parked(RotationFirst, "main") /\ Parked(RotationFirst, "rotation")
  BY <1>3, <1>4, QueueElements
<1>8. QED
  BY <1>5, <1>6, <1>7

\* How they follow from one another.
LEMMA QueueMoves ==
  /\ Append(Nobody, "main") = MainOnly
  /\ Append(Nobody, "rotation") = RotationOnly
  /\ Append(MainOnly, "rotation") = MainFirst
  /\ Append(RotationOnly, "main") = RotationFirst
  /\ Head(MainOnly) = "main" /\ Tail(MainOnly) = Nobody
  /\ Head(RotationOnly) = "rotation" /\ Tail(RotationOnly) = Nobody
  /\ Head(MainFirst) = "main" /\ Tail(MainFirst) = RotationOnly
  /\ Head(RotationFirst) = "rotation" /\ Tail(RotationFirst) = MainOnly
<1>1. "main" \in Receivers /\ "rotation" \in Receivers
  BY DEF Receivers
<1>2. \A s, t \in Seq(Receivers) :
        /\ Len(s) = 0 /\ Len(t) = 0 => s = t
        /\ Len(s) = 1 /\ Len(t) = 1 /\ s[1] = t[1] => s = t
        /\ Len(s) = 2 /\ Len(t) = 2 /\ s[1] = t[1] /\ s[2] = t[2] => s = t
  <2>1. ASSUME NEW s \in Seq(Receivers), NEW t \in Seq(Receivers),
               Len(s) = Len(t), \A i \in 1..Len(s) : s[i] = t[i]
        PROVE  s = t
    BY <2>1, SeqEqual
  <2>2. QED
    BY <2>1
<1>3. \A s \in Seq(Receivers), who \in Receivers :
        /\ Append(s, who) \in Seq(Receivers) /\ Len(Append(s, who)) = Len(s) + 1
        /\ Append(s, who)[Len(s) + 1] = who
  BY AppendProperties
<1>4. ASSUME NEW s \in Seq(Receivers), NEW who \in Receivers, NEW t \in Seq(Receivers),
              Len(s) = 1, Len(t) = 2, t[1] = s[1], t[2] = who
       PROVE  Append(s, who) = t
  <2>1. /\ Append(s, who) \in Seq(Receivers)
        /\ Len(Append(s, who)) = Len(s) + 1
        /\ \A i \in 1..Len(s) : Append(s, who)[i] = s[i]
        /\ Append(s, who)[Len(s) + 1] = who
    BY AppendProperties
  <2>2. Len(s) + 1 = 2 /\ 1 \in 1..Len(s)
    BY <1>4
  <2>3. Len(Append(s, who)) = 2 /\ Append(s, who)[1] = s[1] /\ Append(s, who)[2] = who
    BY <2>1, <2>2
  <2>4. QED
    BY <1>2, <1>4, <2>1, <2>3
<1>5. \A s \in Seq(Receivers) : s # <<>> =>
        /\ Tail(s) \in Seq(Receivers) /\ Len(Tail(s)) = Len(s) - 1
        /\ Len(s) = 2 => Tail(s)[1] = s[2]
  BY HeadTailProperties
<1>6. Append(Nobody, "main") = MainOnly
  BY <1>1, <1>2, <1>3, QueueElements
<1>7. Append(Nobody, "rotation") = RotationOnly
  BY <1>1, <1>2, <1>3, QueueElements
<1>8. Append(MainOnly, "rotation") = MainFirst
  BY <1>1, <1>4, QueueElements
<1>9. Append(RotationOnly, "main") = RotationFirst
  BY <1>1, <1>4, QueueElements
<1>10. /\ Head(MainOnly) = "main" /\ Head(RotationOnly) = "rotation"
      /\ Head(MainFirst) = "main" /\ Head(RotationFirst) = "rotation"
  BY QueueElements
<1>11. /\ MainOnly # <<>> /\ RotationOnly # <<>> /\ MainFirst # <<>> /\ RotationFirst # <<>>
  BY QueueElements
<1>12. Tail(MainOnly) = Nobody
  <2>1. /\ Tail(MainOnly) \in Seq(Receivers) /\ Len(Tail(MainOnly)) = 0
    BY <1>5, <1>11, QueueElements
  <2>2. QED
    BY <2>1, <1>2, QueueElements
<1>13. Tail(RotationOnly) = Nobody
  <2>1. /\ Tail(RotationOnly) \in Seq(Receivers) /\ Len(Tail(RotationOnly)) = 0
    BY <1>5, <1>11, QueueElements
  <2>2. QED
    BY <2>1, <1>2, QueueElements
<1>14. Tail(MainFirst) = RotationOnly
  <2>1. /\ Tail(MainFirst) \in Seq(Receivers) /\ Len(Tail(MainFirst)) = 1
        /\ Tail(MainFirst)[1] = "rotation"
    BY <1>5, <1>11, QueueElements
  <2>2. QED
    BY <2>1, <1>2, QueueElements
<1>15. Tail(RotationFirst) = MainOnly
  <2>1. /\ Tail(RotationFirst) \in Seq(Receivers) /\ Len(Tail(RotationFirst)) = 1
        /\ Tail(RotationFirst)[1] = "main"
    BY <1>5, <1>11, QueueElements
  <2>2. QED
    BY <2>1, <1>2, QueueElements
<1>16. QED
  BY <1>6, <1>7, <1>8, <1>9, <1>10, <1>12, <1>13, <1>14, <1>15

\* A receiver that parks is the last of the queue and the rest stay.
LEMMA ParkFacts ==
  ASSUME NEW q \in Queues, NEW who \in Receivers, ~Parked(q, who)
  PROVE  /\ Append(q, who) \in Queues
         /\ Parked(Append(q, who), who)
         /\ \A r \in Receivers \ {who} : Parked(Append(q, who), r) <=> Parked(q, r)
<1>1. who = "main" \/ who = "rotation"
  BY DEF Receivers
<1>2. CASE who = "main"
  <2>1. q = Nobody \/ q = RotationOnly
    BY <1>2, QueueElements, QueueMembers
  <2>2. Receivers \ {who} = {"rotation"}
    BY <1>2 DEF Receivers
  <2>3. QED
    BY <1>2, <2>1, <2>2, QueueElements, QueueMembers, QueueMoves
<1>3. CASE who = "rotation"
  <2>1. q = Nobody \/ q = MainOnly
    BY <1>3, QueueElements, QueueMembers
  <2>2. Receivers \ {who} = {"main"}
    BY <1>3 DEF Receivers
  <2>3. QED
    BY <1>3, <2>1, <2>2, QueueElements, QueueMembers, QueueMoves
<1>4. QED
  BY <1>1, <1>2, <1>3

\* The first of the queue leaves it and the rest stay.
LEMMA WakeFacts ==
  ASSUME NEW q \in Queues, q # <<>>
  PROVE  /\ Head(q) \in Receivers /\ Parked(q, Head(q))
         /\ Tail(q) \in Queues /\ ~Parked(Tail(q), Head(q))
         /\ \A r \in Receivers \ {Head(q)} : Parked(Tail(q), r) <=> Parked(q, r)
<1>1. q \in {MainOnly, RotationOnly, MainFirst, RotationFirst}
  BY QueueElements
<1>2. Nobody \in Queues /\ MainOnly \in Queues /\ RotationOnly \in Queues
  BY QueueElements
<1>3. CASE q = MainOnly
  <2>1. Head(q) = "main" /\ Receivers \ {Head(q)} = {"rotation"} /\ Tail(q) = Nobody
    BY <1>3, QueueMoves DEF Receivers
  <2>2. QED
    BY <1>2, <1>3, <2>1, QueueMembers DEF Receivers
<1>4. CASE q = RotationOnly
  <2>1. Head(q) = "rotation" /\ Receivers \ {Head(q)} = {"main"} /\ Tail(q) = Nobody
    BY <1>4, QueueMoves DEF Receivers
  <2>2. QED
    BY <1>2, <1>4, <2>1, QueueMembers DEF Receivers
<1>5. CASE q = MainFirst
  <2>1. Head(q) = "main" /\ Receivers \ {Head(q)} = {"rotation"} /\ Tail(q) = RotationOnly
    BY <1>5, QueueMoves DEF Receivers
  <2>2. QED
    BY <1>2, <1>5, <2>1, QueueMembers DEF Receivers
<1>6. CASE q = RotationFirst
  <2>1. Head(q) = "rotation" /\ Receivers \ {Head(q)} = {"main"} /\ Tail(q) = MainOnly
    BY <1>6, QueueMoves DEF Receivers
  <2>2. QED
    BY <1>2, <1>6, <2>1, QueueMembers DEF Receivers
<1>7. QED
  BY <1>1, <1>3, <1>4, <1>5, <1>6

\* A receiver whose select takes another case leaves the queue.
LEMMA LeaveFacts ==
  ASSUME NEW q \in Queues, NEW who \in Receivers
  PROVE  /\ Others(q, who) \in Queues
         /\ ~Parked(Others(q, who), who)
         /\ \A r \in Receivers \ {who} : Parked(Others(q, who), r) <=> Parked(q, r)
         /\ q = <<>> => Others(q, who) = <<>>
<1>1. /\ Others(Nobody, "main") = Nobody /\ Others(Nobody, "rotation") = Nobody
      /\ Others(RotationOnly, "main") = RotationOnly /\ Others(MainOnly, "rotation") = MainOnly
  BY QueueMembers DEF Others
<1>2. /\ Others(MainOnly, "main") = Nobody /\ Others(RotationOnly, "rotation") = Nobody
      /\ Others(MainFirst, "main") = RotationOnly /\ Others(RotationFirst, "rotation") = MainOnly
  BY QueueMembers, QueueMoves DEF Others
<1>3. Others(MainFirst, "rotation") = <<Head(MainFirst)>>
  <2>1. Head(MainFirst) # "rotation"
    BY QueueMoves
  <2>2. QED
    BY <2>1, QueueMembers DEF Others
<1>4. Others(RotationFirst, "main") = <<Head(RotationFirst)>>
  <2>1. Head(RotationFirst) # "main"
    BY QueueMoves
  <2>2. QED
    BY <2>1, QueueMembers DEF Others
<1>5. Others(MainFirst, "rotation") = MainOnly /\ Others(RotationFirst, "main") = RotationOnly
  BY <1>3, <1>4, QueueMoves DEF MainOnly, RotationOnly
<1>6. who = "main" \/ who = "rotation"
  BY DEF Receivers
<1>7. CASE who = "main"
  <2>1. Receivers \ {who} = {"rotation"}
    BY <1>7 DEF Receivers
  <2>2. QED
    BY <1>7, <2>1, <1>1, <1>2, <1>5, QueueElements, QueueMembers
<1>8. CASE who = "rotation"
  <2>1. Receivers \ {who} = {"main"}
    BY <1>8 DEF Receivers
  <2>2. QED
    BY <1>8, <2>1, <1>1, <1>2, <1>5, QueueElements, QueueMembers
<1>9. QED
  BY <1>6, <1>7, <1>8

-----------------------------------------------------------------------------
(* The invariant                                                           *)

\* The channel: no value is left in it while a goroutine waits for one, and no
\* sender is blocked while it has room.
NoSignalLeftBehind ==
  /\ buffer => waiters = <<>>
  /\ Running /\ Blocked # {} => buffer

\* The rotation goroutine does not exist before the keystore.
Beginning == main = "starting" => rotation = "absent"

ShutdownInv == TypeOK /\ NoSignalLeftBehind /\ Beginning

LEMMA ShutdownInit == Init => ShutdownInv
<1> SUFFICES ASSUME Init PROVE ShutdownInv
  OBVIOUS
<1>1. ~Parked(waiters, "main") /\ ~Parked(waiters, "rotation") /\ waiters \in Queues
  BY QueueMembers DEF Init, Nobody, Queues
<1>2. signals \in 0..MaxSignals
  BY MaxSignalsAssumption DEF Init
<1>3. TypeOK
  BY <1>1, <1>2 DEF Init, TypeOK
<1>4. NoSignalLeftBehind /\ Beginning
  BY DEF Init, NoSignalLeftBehind, Beginning, Blocked
<1>5. QED
  BY <1>3, <1>4 DEF ShutdownInv

\* A signal that is counted stays within the bound.
LEMMA Counted ==
  ASSUME TypeOK, CountSignal
  PROVE  signals' \in 0..MaxSignals
BY MaxSignalsAssumption DEF TypeOK, CountSignal

\* The steps that touch neither the channel nor its receivers.
Aside ==
  \/ StartServer \/ StartFails \/ BeginDrain \/ DrainDone \/ DrainTimeout \/ Listen \/ ServerEnds
  \/ RotationRound
  \/ \E h \in Handlers : Accept(h) \/ Answer(h) \/ LoseIntegrity(h)

LEMMA AsideKeeps ==
  ASSUME ShutdownInv, Aside
  PROVE  ShutdownInv'
<1>1. TypeOK
  BY DEF ShutdownInv
<1>2. waiters' = waiters /\ buffer' = buffer /\ signals' = signals
  BY DEF Aside, StartServer, StartFails, BeginDrain, DrainDone, DrainTimeout, Listen, ServerEnds,
         RotationRound, Accept, Answer, LoseIntegrity
<1>3. CASE StartServer
  <2>1. TypeOK'
    BY <1>1, <1>3 DEF StartServer, TypeOK, Running
  <2>2. NoSignalLeftBehind' /\ Beginning'
    BY <1>3 DEF StartServer, ShutdownInv, NoSignalLeftBehind, Beginning, Running, Blocked, Free
  <2>3. QED
    BY <2>1, <2>2 DEF ShutdownInv
<1>4. CASE StartFails
  <2>1. TypeOK'
    BY <1>1, <1>4 DEF StartFails, TypeOK, Running
  <2>2. NoSignalLeftBehind' /\ Beginning'
    BY <1>4 DEF StartFails, ShutdownInv, NoSignalLeftBehind, Beginning, Running, Blocked, Free
  <2>3. QED
    BY <2>1, <2>2 DEF ShutdownInv
<1>5. CASE BeginDrain \/ DrainDone \/ DrainTimeout
  <2>1. TypeOK'
    BY <1>1, <1>5 DEF BeginDrain, DrainDone, DrainTimeout, TypeOK, Running
  <2>2. NoSignalLeftBehind' /\ Beginning'
    BY <1>5 DEF BeginDrain, DrainDone, DrainTimeout, ShutdownInv, NoSignalLeftBehind,
                Beginning, Running, Blocked, Free
  <2>3. QED
    BY <2>1, <2>2 DEF ShutdownInv
<1>6. CASE Listen
  <2>1. TypeOK'
    BY <1>1, <1>6 DEF Listen, TypeOK, Running
  <2>2. NoSignalLeftBehind' /\ Beginning'
    BY <1>6 DEF Listen, ShutdownInv, NoSignalLeftBehind,
                Beginning, Running, Blocked, Free
  <2>3. QED
    BY <2>1, <2>2 DEF ShutdownInv
<1>7. CASE ServerEnds
  <2>1. TypeOK'
    BY <1>1, <1>7 DEF ServerEnds, TypeOK, Running
  <2>2. NoSignalLeftBehind' /\ Beginning'
    BY <1>7 DEF ServerEnds, ShutdownInv, NoSignalLeftBehind,
                Beginning, Running, Blocked, Free
  <2>3. QED
    BY <2>1, <2>2 DEF ShutdownInv
<1>8. CASE RotationRound
  <2>1. TypeOK'
    BY <1>1, <1>8 DEF RotationRound, TypeOK, Running
  <2>2. NoSignalLeftBehind' /\ Beginning'
    BY <1>8 DEF RotationRound, ShutdownInv, NoSignalLeftBehind,
                Beginning, Running, Blocked, Free
  <2>3. QED
    BY <2>1, <2>2 DEF ShutdownInv
<1>9. CASE \E h \in Handlers : Accept(h) \/ Answer(h) \/ LoseIntegrity(h)
  <2>1. PICK h \in Handlers : Accept(h) \/ Answer(h) \/ LoseIntegrity(h)
    BY <1>9
  <2>2. TypeOK'
    BY <1>1, <2>1 DEF Accept, Answer, LoseIntegrity, TypeOK, Running
  <2>3. Running /\ Blocked' \subseteq Blocked
    BY <1>1, <2>1 DEF Accept, Answer, LoseIntegrity, TypeOK, Blocked
  <2>4. UNCHANGED <<main, rotation, server, exit>>
    BY <2>1 DEF Accept, Answer, LoseIntegrity
  <2>5. NoSignalLeftBehind' /\ Beginning'
    BY <1>2, <2>3, <2>4 DEF ShutdownInv, NoSignalLeftBehind, Beginning, Running
  <2>6. QED
    BY <2>2, <2>5 DEF ShutdownInv
<1>10. QED
  BY <1>3, <1>4, <1>5, <1>6, <1>7, <1>8, <1>9 DEF Aside

\* A receiver parks, while no signal waits.
LEMMA ParkingKeeps ==
  ASSUME ShutdownInv, MainParks \/ RotationParks
  PROVE  ShutdownInv'
<1>1. TypeOK /\ ~buffer
  BY DEF ShutdownInv, MainParks, RotationParks
<1>2. PICK who \in Receivers : /\ ~Parked(waiters, who) /\ waiters' = Append(waiters, who)
                               /\ who = "main" => MainParks
                               /\ who = "rotation" => RotationParks
  <2>1. CASE MainParks
    BY <1>1, <2>1 DEF MainParks, TypeOK, Running, Receivers
  <2>2. CASE RotationParks
    BY <1>1, <2>2 DEF RotationParks, TypeOK, Running, Receivers
  <2>3. QED
    BY <2>1, <2>2
<1>3. waiters \in Queues
  BY <1>1 DEF TypeOK
<1>4. /\ waiters' \in Queues /\ Parked(waiters', who)
      /\ \A r \in Receivers \ {who} : Parked(waiters', r) <=> Parked(waiters, r)
  BY <1>2, <1>3, ParkFacts
<1>5. CASE who = "main"
  <2>1. MainParks /\ Parked(waiters', "main")
        /\ (Parked(waiters', "rotation") <=> Parked(waiters, "rotation"))
    BY <1>2, <1>4, <1>5 DEF Receivers
  <2>2. TypeOK'
    BY <1>1, <1>4, <2>1 DEF MainParks, TypeOK, Running
  <2>3. NoSignalLeftBehind' /\ Beginning'
    BY <1>1, <2>1 DEF MainParks, ShutdownInv, NoSignalLeftBehind,
                      Beginning, Running, Blocked, Free
  <2>4. QED
    BY <2>2, <2>3 DEF ShutdownInv
<1>6. CASE who = "rotation"
  <2>1. RotationParks /\ Parked(waiters', "rotation")
        /\ (Parked(waiters', "main") <=> Parked(waiters, "main"))
    BY <1>2, <1>4, <1>6 DEF Receivers
  <2>2. TypeOK'
    BY <1>1, <1>4, <2>1 DEF RotationParks, TypeOK, Running
  <2>3. NoSignalLeftBehind' /\ Beginning'
    BY <1>1, <2>1 DEF RotationParks, ShutdownInv, NoSignalLeftBehind,
                      Beginning, Running, Blocked, Free
  <2>4. QED
    BY <2>2, <2>3 DEF ShutdownInv
<1>7. QED
  BY <1>5, <1>6 DEF Receivers

\* A select takes another case than the channel of signals.
LEMMA LeavingKeeps ==
  ASSUME ShutdownInv, MainTakesError \/ RotationTick
  PROVE  ShutdownInv'
<1>1. TypeOK /\ waiters \in Queues
  BY DEF ShutdownInv, TypeOK
<1>2. "main" \in Receivers /\ "rotation" \in Receivers
  BY DEF Receivers
<1>3. CASE MainTakesError
  <2>1. waiters' = Others(waiters, "main")
    BY <1>3 DEF MainTakesError
  <2>2. "rotation" \in Receivers \ {"main"}
    BY DEF Receivers
  <2>3. /\ waiters' \in Queues /\ ~Parked(waiters', "main")
        /\ Parked(waiters', "rotation") <=> Parked(waiters, "rotation")
        /\ waiters = <<>> => waiters' = <<>>
    BY <1>1, <1>2, <2>1, <2>2, LeaveFacts
  <2>4. TypeOK'
    BY <1>1, <1>3, <2>3 DEF MainTakesError, TypeOK, Running
  <2>5. NoSignalLeftBehind' /\ Beginning'
    BY <1>3, <2>3 DEF MainTakesError, ShutdownInv, NoSignalLeftBehind,
                      Beginning, Running, Blocked, Free
  <2>6. QED
    BY <2>4, <2>5 DEF ShutdownInv
<1>4. CASE RotationTick
  <2>1. waiters' = Others(waiters, "rotation")
    BY <1>4 DEF RotationTick
  <2>2. "main" \in Receivers \ {"rotation"}
    BY DEF Receivers
  <2>3. /\ waiters' \in Queues /\ ~Parked(waiters', "rotation")
        /\ Parked(waiters', "main") <=> Parked(waiters, "main")
        /\ waiters = <<>> => waiters' = <<>>
    BY <1>1, <1>2, <2>1, <2>2, LeaveFacts
  <2>4. TypeOK'
    BY <1>1, <1>4, <2>3 DEF RotationTick, TypeOK, Running
  <2>5. NoSignalLeftBehind' /\ Beginning'
    BY <1>4, <2>3 DEF RotationTick, ShutdownInv, NoSignalLeftBehind,
                      Beginning, Running, Blocked, Free
  <2>6. QED
    BY <2>4, <2>5 DEF ShutdownInv
<1>5. QED
  BY <1>3, <1>4

\* The keystore starts its goroutine.
LEMMA StartKeeps ==
  ASSUME ShutdownInv, StartKeystore
  PROVE  ShutdownInv'
<1>1. ~Parked(waiters, "rotation")
  BY DEF ShutdownInv, TypeOK, Beginning, StartKeystore
<1>2. TypeOK'
  BY <1>1 DEF ShutdownInv, StartKeystore, TypeOK, Running
<1>3. NoSignalLeftBehind' /\ Beginning'
  BY DEF StartKeystore, ShutdownInv, NoSignalLeftBehind,
         Beginning, Running, Blocked, Free
<1>4. QED
  BY <1>2, <1>3 DEF ShutdownInv

\* A signal is sent while run goes on: it wakes the first of the queue, which
\* has then left its select, or stays in the channel with nobody waiting.
LEMMA DeliverKeeps ==
  ASSUME ShutdownInv, Running, Deliver, UNCHANGED <<server, serverErr, exit>>,
         handler' \in [Handlers -> {"idle", "running", "sending", "blocked"}],
         Blocked' \subseteq Blocked
  PROVE  ShutdownInv'
<1>1. TypeOK /\ waiters \in Queues
  BY DEF ShutdownInv, TypeOK
<1>2. signals' \in 0..MaxSignals
  BY <1>1, Counted DEF Deliver
<1>3. CASE waiters = <<>>
  <2>1. buffer' = TRUE /\ UNCHANGED <<main, rotation, waiters>>
    BY <1>3 DEF Deliver
  <2>2. TypeOK'
    BY <1>1, <1>2, <2>1 DEF TypeOK, Running
  <2>3. NoSignalLeftBehind'
    BY <1>3, <2>1 DEF NoSignalLeftBehind
  <2>4. Beginning'
    BY <1>1, <2>1 DEF ShutdownInv, Beginning
  <2>5. QED
    BY <2>2, <2>3, <2>4 DEF ShutdownInv
<1>4. CASE waiters # <<>>
  <2>1. Receive(Head(waiters)) /\ waiters' = Tail(waiters) /\ buffer' = buffer
    BY <1>4 DEF Deliver
  <2>2. ~buffer /\ Blocked' = {}
    BY <1>4 DEF ShutdownInv, NoSignalLeftBehind
  <2>3. /\ Head(waiters) \in Receivers /\ Parked(waiters, Head(waiters))
        /\ waiters' \in Queues /\ ~Parked(waiters', Head(waiters))
        /\ \A r \in Receivers \ {Head(waiters)} : Parked(waiters', r) <=> Parked(waiters, r)
    BY <1>1, <1>4, <2>1, WakeFacts
  <2>4. NoSignalLeftBehind'
    BY <2>1, <2>2 DEF NoSignalLeftBehind
  <2>5. CASE Head(waiters) = "main"
    <3>1. main' = "stopping" /\ rotation' = rotation
      BY <2>1, <2>5 DEF Receive
    <3>2. ~Parked(waiters', "main") /\ (Parked(waiters', "rotation") <=> Parked(waiters, "rotation"))
      BY <2>3, <2>5 DEF Receivers
    <3>3. TypeOK'
      BY <1>1, <1>2, <2>1, <2>3, <3>1, <3>2 DEF TypeOK, Running
    <3>4. Beginning'
      BY <1>1, <3>1 DEF Beginning
    <3>5. QED
      BY <2>4, <3>3, <3>4 DEF ShutdownInv
  <2>6. CASE Head(waiters) = "rotation"
    <3>1. rotation' = "stopped" /\ UNCHANGED main
      BY <2>1, <2>6 DEF Receive
    <3>2. ~Parked(waiters', "rotation") /\ (Parked(waiters', "main") <=> Parked(waiters, "main"))
      BY <2>3, <2>6 DEF Receivers
    <3>3. main # "starting"
      BY <1>1, <2>3, <2>6 DEF TypeOK, ShutdownInv, Beginning
    <3>4. TypeOK'
      BY <1>1, <1>2, <2>1, <2>3, <3>1, <3>2 DEF TypeOK, Running
    <3>5. Beginning'
      BY <1>1, <3>1, <3>3 DEF ShutdownInv, Beginning
    <3>6. QED
      BY <2>4, <3>4, <3>5 DEF ShutdownInv
  <2>7. QED
    BY <2>3, <2>5, <2>6 DEF Receivers
<1>5. QED
  BY <1>3, <1>4

\* A receive takes the signal in the channel, and a request that is blocked
\* puts its own in its place.
LEMMA TakeKeeps ==
  ASSUME ShutdownInv, MainTakesSignal \/ RotationTakesSignal
  PROVE  ShutdownInv'
<1>1. /\ TypeOK /\ buffer /\ Running
      /\ UNCHANGED <<server, waiters, serverErr, exit>>
  BY DEF ShutdownInv, MainTakesSignal, RotationTakesSignal, TakeBuffered, Running
<1>2. waiters = <<>> /\ waiters' = <<>>
  BY <1>1 DEF ShutdownInv, NoSignalLeftBehind
<1>3. /\ handler' \in [Handlers -> {"idle", "running", "sending", "blocked"}]
      /\ signals' \in 0..MaxSignals
      /\ Blocked' # {} => buffer'
      /\ buffer' \in BOOLEAN
  <2>1. CASE Blocked = {}
    <3>1. buffer' = FALSE /\ UNCHANGED <<handler, signals>>
      BY <2>1 DEF MainTakesSignal, RotationTakesSignal, TakeBuffered
    <3>2. QED
      BY <1>1, <2>1, <3>1 DEF TypeOK, Blocked
  <2>2. CASE Blocked # {}
    <3>1. PICK h \in Blocked : /\ handler' = [handler EXCEPT ![h] = "idle"]
                               /\ CountSignal /\ UNCHANGED buffer
      BY <2>2 DEF MainTakesSignal, RotationTakesSignal, TakeBuffered
    <3>2. signals' \in 0..MaxSignals
      BY <1>1, <3>1, Counted
    <3>3. handler' \in [Handlers -> {"idle", "running", "sending", "blocked"}]
      BY <1>1, <3>1 DEF TypeOK
    <3>4. QED
      BY <1>1, <3>1, <3>2, <3>3
  <2>3. QED
    BY <2>1, <2>2
<1>4. NoSignalLeftBehind'
  BY <1>2, <1>3 DEF NoSignalLeftBehind
<1>5. CASE MainTakesSignal
  <2>1. main = "selecting" /\ main' = "stopping" /\ rotation' = rotation
    BY <1>5 DEF MainTakesSignal, TakeBuffered, Receive
  <2>2. TypeOK'
    BY <1>1, <1>3, <2>1 DEF TypeOK, Running
  <2>3. Beginning'
    BY <1>1, <2>1 DEF Beginning
  <2>4. QED
    BY <1>4, <2>2, <2>3 DEF ShutdownInv
<1>6. CASE RotationTakesSignal
  <2>1. rotation = "selecting" /\ rotation' = "stopped" /\ UNCHANGED main
    BY <1>6 DEF RotationTakesSignal, TakeBuffered, Receive
  <2>2. TypeOK'
    BY <1>1, <1>3, <2>1 DEF TypeOK, Running
  <2>3. Beginning'
    BY <1>1, <2>1 DEF ShutdownInv, Beginning
  <2>4. QED
    BY <1>4, <2>2, <2>3 DEF ShutdownInv
<1>7. QED
  BY <1>5, <1>6

\* A request that lost integrity sends, or blocks on a full channel.
LEMMA SendKeeps ==
  ASSUME ShutdownInv, NEW h \in Handlers, ShutServerDown(h)
  PROVE  ShutdownInv'
<1>1. TypeOK /\ Running /\ handler[h] = "sending" /\ UNCHANGED <<server, serverErr, exit>>
  BY DEF ShutdownInv, ShutServerDown
<1>2. CASE Deliver /\ handler' = [handler EXCEPT ![h] = "idle"]
  <2>1. handler' \in [Handlers -> {"idle", "running", "sending", "blocked"}]
    BY <1>1, <1>2 DEF TypeOK
  <2>2. Blocked' \subseteq Blocked
    BY <1>1, <1>2 DEF TypeOK, Blocked
  <2>3. QED
    BY <1>1, <1>2, <2>1, <2>2, DeliverKeeps
<1>3. CASE /\ ~CanSend
           /\ handler' = [handler EXCEPT ![h] = "blocked"]
           /\ UNCHANGED <<main, rotation, buffer, waiters, signals>>
  <2>1. TypeOK'
    BY <1>1, <1>3 DEF TypeOK, Running
  <2>2. buffer /\ waiters = <<>>
    BY <1>1, <1>3 DEF CanSend, ShutdownInv
  <2>3. NoSignalLeftBehind' /\ Beginning'
    BY <1>1, <1>3, <2>2 DEF ShutdownInv, NoSignalLeftBehind, Beginning
  <2>4. QED
    BY <2>1, <2>3 DEF ShutdownInv
<1>4. QED
  BY <1>2, <1>3 DEF ShutServerDown

LEMMA ShutdownStep == ShutdownInv /\ [Next]_vars => ShutdownInv'
<1> SUFFICES ASSUME ShutdownInv, [Next]_vars PROVE ShutdownInv'
  OBVIOUS
<1>1. CASE Aside
  BY <1>1, AsideKeeps
<1>2. CASE MainParks \/ RotationParks
  BY <1>2, ParkingKeeps
<1>3. CASE MainTakesError \/ RotationTick
  BY <1>3, LeavingKeeps
<1>4. CASE StartKeystore
  BY <1>4, StartKeeps
<1>5. CASE MainTakesSignal \/ RotationTakesSignal
  BY <1>5, TakeKeeps
<1>6. CASE OSSignal
  <2>1. Running /\ Deliver /\ UNCHANGED <<server, serverErr, handler, exit>>
    BY <1>6 DEF OSSignal
  <2>2. handler' \in [Handlers -> {"idle", "running", "sending", "blocked"}] /\ Blocked' \subseteq Blocked
    BY <2>1 DEF ShutdownInv, TypeOK, Blocked
  <2>3. QED
    BY <2>1, <2>2, DeliverKeeps
<1>7. CASE \E h \in Handlers : ShutServerDown(h)
  BY <1>7, SendKeeps
<1>8. CASE UNCHANGED vars
  BY <1>8 DEF vars, ShutdownInv, TypeOK, NoSignalLeftBehind, Beginning, Running, Blocked, Free
<1>9. QED
  BY <1>1, <1>2, <1>3, <1>4, <1>5, <1>6, <1>7, <1>8 DEF Next, Main, Rotation, Aside

LEMMA ShutdownAlways == Spec => []ShutdownInv
BY ShutdownInit, ShutdownStep, PTL DEF Spec

-----------------------------------------------------------------------------
(* Signals are not lost                                                    *)

\* How many signals may have been sent, by where they can be.
LostCases ==
  \/ main \in {"stopping", "draining", "returned"}
  \/ buffer /\ rotation = "stopped" /\ signals <= 2
  \/ buffer /\ rotation # "stopped" /\ signals <= 1
  \/ ~buffer /\ rotation = "stopped" /\ signals <= 1
  \/ ~buffer /\ rotation # "stopped" /\ signals <= 0

LEMMA LostByCases == LostCases <=> NoSignalLost
<1>1. CASE buffer /\ rotation = "stopped"
  BY <1>1 DEF NoSignalLost, LostCases
<1>2. CASE buffer /\ rotation # "stopped"
  BY <1>2 DEF NoSignalLost, LostCases
<1>3. CASE ~buffer /\ rotation = "stopped"
  BY <1>3 DEF NoSignalLost, LostCases
<1>4. CASE ~buffer /\ rotation # "stopped"
  BY <1>4 DEF NoSignalLost, LostCases
<1>5. QED
  BY <1>1, <1>2, <1>3, <1>4

\* A signal more, at most.
LEMMA CountedOnce ==
  ASSUME TypeOK, CountSignal
  PROVE  \A n \in Nat : signals <= n => signals' <= n + 1
  BY MaxSignalsAssumption DEF TypeOK, CountSignal

\* A signal that is sent goes into the empty channel or to a goroutine that waits.
LEMMA DeliverLosesNone ==
  ASSUME TypeOK, LostCases, Deliver
  PROVE  LostCases'
<1>1. main' \notin {"stopping", "draining", "returned"} =>
        \/ ~buffer /\ buffer' /\ rotation' = rotation /\ main' = main
        \/ buffer' = buffer /\ rotation # "stopped" /\ rotation' = "stopped" /\ main' = main
  <2>1. CASE waiters = <<>>
    BY <2>1 DEF Deliver, CanSend
  <2>2. CASE waiters # <<>>
    <3>1. Receive(Head(waiters)) /\ buffer' = buffer
      BY <2>2 DEF Deliver
    <3>2. Parked(waiters, Head(waiters))
      BY <2>2, WakeFacts DEF TypeOK
    <3>3. Head(waiters) = "rotation" => rotation = "waiting"
      BY <3>2 DEF TypeOK
    <3>4. QED
      BY <3>1, <3>3 DEF Receive
  <2>3. QED
    BY <2>1, <2>2
<1>2. /\ signals <= 0 => signals' <= 1
      /\ signals <= 1 => signals' <= 2
  BY CountedOnce DEF Deliver
<1>3. QED
  BY <1>1, <1>2 DEF LostCases

\* A signal that is taken from the channel stops a goroutine.
LEMMA TakeLosesNone ==
  ASSUME TypeOK, LostCases, MainTakesSignal \/ RotationTakesSignal
  PROVE  LostCases'
<1>1. CASE MainTakesSignal
  BY <1>1 DEF MainTakesSignal, TakeBuffered, Receive, LostCases
<1>2. CASE RotationTakesSignal
  <2>1. buffer /\ rotation # "stopped" /\ rotation' = "stopped" /\ main' = main
    BY <1>2 DEF RotationTakesSignal, TakeBuffered, Receive
  <2>2. (~buffer' /\ signals' = signals) \/ (buffer' /\ CountSignal)
    BY <1>2, <2>1 DEF RotationTakesSignal, TakeBuffered
  <2>3. (signals <= 1 /\ CountSignal) => signals' <= 2
    BY CountedOnce
  <2>4. QED
    BY <2>1, <2>2, <2>3 DEF LostCases
<1>3. QED
  BY <1>1, <1>2

\* The other steps neither send nor take one.
LEMMA RestLosesNone ==
  ASSUME ShutdownInv, TypeOK', LostCases,
         \/ Aside \/ MainParks \/ RotationParks \/ MainTakesError \/ RotationTick
         \/ StartKeystore \/ UNCHANGED vars
  PROVE  LostCases'
<1>1. UNCHANGED <<buffer, signals>>
  BY DEF Aside, StartServer, StartFails, BeginDrain, DrainDone, DrainTimeout, Listen, ServerEnds, RotationRound,
         Accept, Answer, LoseIntegrity, MainParks, RotationParks, MainTakesError, RotationTick,
         StartKeystore, vars
<1>2. main \in {"stopping", "draining", "returned"} => main' \in {"stopping", "draining", "returned"}
  BY DEF Aside, StartServer, StartFails, BeginDrain, DrainDone, DrainTimeout, Listen, ServerEnds, RotationRound,
         Accept, Answer, LoseIntegrity, MainParks, RotationParks, MainTakesError, RotationTick,
         StartKeystore, vars
<1>3. rotation' = "stopped" <=> rotation = "stopped"
  BY DEF Aside, StartServer, StartFails, BeginDrain, DrainDone, DrainTimeout, Listen, ServerEnds, RotationRound,
         Accept, Answer, LoseIntegrity, MainParks, RotationParks, MainTakesError, RotationTick,
         StartKeystore, vars, ShutdownInv, Beginning
<1>4. QED
  BY <1>1, <1>2, <1>3 DEF LostCases

LEMMA LosesNone == ShutdownInv /\ LostCases /\ [Next]_vars => LostCases'
<1> SUFFICES ASSUME ShutdownInv, LostCases, [Next]_vars PROVE LostCases'
  OBVIOUS
<1>1. TypeOK /\ TypeOK'
  BY ShutdownStep DEF ShutdownInv
<1>2. CASE OSSignal
  BY <1>1, <1>2, DeliverLosesNone DEF OSSignal
<1>3. CASE \E h \in Handlers : ShutServerDown(h)
  <2>1. CASE Deliver
    BY <1>1, <2>1, DeliverLosesNone
  <2>2. CASE ~Deliver
    <3>1. UNCHANGED <<main, rotation, buffer, signals>>
      BY <1>3, <2>2 DEF ShutServerDown
    <3>2. QED
      BY <3>1 DEF LostCases
  <2>3. QED
    BY <2>1, <2>2
<1>4. CASE MainTakesSignal \/ RotationTakesSignal
  BY <1>1, <1>4, TakeLosesNone
<1>5. CASE \/ Aside \/ MainParks \/ RotationParks \/ MainTakesError \/ RotationTick
           \/ StartKeystore \/ UNCHANGED vars
  BY <1>1, <1>5, RestLosesNone
<1>6. QED
  BY <1>2, <1>3, <1>4, <1>5 DEF Next, Main, Rotation, Aside

LEMMA NoneLost == Spec => []LostCases
<1>1. Init => LostCases
  BY DEF Init, LostCases
<1>2. QED
  BY <1>1, LosesNone, ShutdownAlways, PTL DEF Spec

-----------------------------------------------------------------------------
(* Theorems                                                                *)

\* main and the rotation goroutine are in the queue of the channel exactly
\* while they wait there, each once, however many requests send on it.
THEOREM ShutdownTypes == Spec => []TypeOK
<1>1. ShutdownInv => TypeOK
  BY DEF ShutdownInv
<1>2. QED
  BY ShutdownAlways, <1>1, PTL

\* A signal that was sent is in the channel until it stops the rotation goroutine or
\* main, whatever requests send and whatever the two receivers do besides.
THEOREM SignalsNotLost == Spec => []NoSignalLost
  BY LostByCases, NoneLost, PTL

\* With two signals sent and none of them dropped main is not in its select for
\* long: it has not parked there, for one of them is in the channel.
SecondSignalWaits ==
  signals >= 2 => main \in {"stopping", "draining", "returned"} \/ (buffer /\ main # "waiting")

\* The second signal is there for main to take, whatever the rotation goroutine
\* and the requests do: that main goes on is all that SecondSignalStops needs.
THEOREM SecondSignalIsThere == Spec => []SecondSignalWaits
<1>1. ShutdownInv /\ LostCases => SecondSignalWaits
  <2> SUFFICES ASSUME ShutdownInv, LostCases, signals >= 2,
                      main \notin {"stopping", "draining", "returned"}
               PROVE  buffer /\ main # "waiting"
    BY DEF SecondSignalWaits
  <2>1. TypeOK /\ signals \in Nat
    BY MaxSignalsAssumption DEF ShutdownInv, TypeOK
  <2>2. ~(signals <= 1) /\ ~(signals <= 0)
    BY <2>1
  <2>3. buffer
    BY <2>1, <2>2 DEF LostCases
  <2>4. ~Parked(waiters, "main")
    BY <2>3, QueueMembers DEF ShutdownInv, NoSignalLeftBehind, Nobody
  <2>5. main # "waiting"
    BY <2>1, <2>4 DEF TypeOK, Running
  <2>6. QED
    BY <2>3, <2>5
<1>2. QED
  BY <1>1, ShutdownAlways, NoneLost, PTL
=============================================================================
