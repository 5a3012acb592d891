------------------------- MODULE TestDatabaseProofs --------------------------
(***************************************************************************)
(* Theorems about TestDatabase, for any number of tests that run at the    *)
(* same time and any time limits.                                          *)
(***************************************************************************)
EXTENDS TestDatabase, SequenceTheorems, TLAPS

-----------------------------------------------------------------------------
(* Types and cleaners                                                      *)

\* What the steps before Up have added, and what Close has not run yet.
CleanerFacts(t) ==
  /\ pc[t] = "new" => cleaners[t] = NoCleaner
  /\ pc[t] = "up" => cleaners[t] = FileCleaner

TypeInv == TypeOK /\ \A t \in Testers : CleanerFacts(t)

LEMMA TypeInit == Init => TypeInv
<1> SUFFICES ASSUME Init PROVE TypeInv
  OBVIOUS
<1>1. TypeOK
  <2>1. pc \in [Testers -> Steps]
    BY DEF Init, Steps
  <2>2. file \in [Testers -> BOOLEAN] /\ accepting \in BOOLEAN
    BY DEF Init
  <2>3. cleaners \in [Testers -> {NoCleaner, FileCleaner, AllCleaners}]
    BY DEF Init
  <2>4. /\ listed \in [Testers -> Testers \cup {Nobody}]
        /\ maker \in Testers \cup {Nobody} /\ migrator \in Testers \cup {Nobody}
    BY DEF Init
  <2>5. host \in [Testers -> {5432, 55432}] /\ port \in {5432, 55432}
    BY DEF Init, DefaultPort
  <2>6. attempts \in [Testers -> Nat] /\ elapsed \in [Testers -> Nat]
    BY DEF Init
  <2>7. /\ result \in [Testers -> Results]
        /\ data \in {"empty", "dirty", "migrated", "seeded"}
        /\ faults \subseteq Testers /\ crowded \subseteq Testers
    BY DEF Init, Results
  <2>8. \A t \in Testers : pc[t] = "new"
    BY DEF Init
  <2>9. QED
    BY <2>1, <2>2, <2>3, <2>4, <2>5, <2>6, <2>7, <2>8 DEF TypeOK, Steps
<1>2. ASSUME NEW t \in Testers PROVE CleanerFacts(t)
  BY DEF Init, CleanerFacts
<1>3. QED
  BY <1>1, <1>2 DEF TypeInv

\* Cleaners are run in the reverse of the order in which they were added.
LEMMA CleanerOrder ==
  /\ Append(NoCleaner, "Remove") = FileCleaner
  /\ Append(FileCleaner, "Down") = AllCleaners
  /\ Front(AllCleaners) = FileCleaner /\ Last(AllCleaners) = "Down"
  /\ Front(FileCleaner) = NoCleaner /\ Last(FileCleaner) = "Remove"
  /\ FileCleaner # NoCleaner /\ AllCleaners # NoCleaner /\ AllCleaners # FileCleaner
<1> DEFINE S == {"Remove", "Down"}
<1>1. /\ NoCleaner \in Seq(S) /\ FileCleaner \in Seq(S) /\ AllCleaners \in Seq(S)
      /\ Len(NoCleaner) = 0 /\ Len(FileCleaner) = 1 /\ Len(AllCleaners) = 2
      /\ FileCleaner[1] = "Remove" /\ AllCleaners[1] = "Remove" /\ AllCleaners[2] = "Down"
  BY DEF NoCleaner, FileCleaner, AllCleaners
<1> HIDE DEF S
<1>2. "Remove" \in S /\ "Down" \in S
  BY DEF S
<1>3. ASSUME NEW s \in Seq(S), NEW f \in S
      PROVE  /\ Append(s, f) \in Seq(S) /\ Len(Append(s, f)) = Len(s) + 1
             /\ \A i \in 1..Len(s) : Append(s, f)[i] = s[i]
             /\ Append(s, f)[Len(s) + 1] = f
  BY AppendProperties
<1>4. Append(NoCleaner, "Remove") = FileCleaner
  <2>1. NoCleaner \in Seq(S) /\ FileCleaner \in Seq(S)
    BY <1>1
  <2>2. Len(NoCleaner) + 1 = 1 /\ (\A i \in 1..1 : i = 1)
    BY <1>1
  <2>3. /\ Append(NoCleaner, "Remove") \in Seq(S)
        /\ Len(Append(NoCleaner, "Remove")) = 1
        /\ Append(NoCleaner, "Remove")[1] = "Remove"
    BY <1>2, <1>3, <2>1, <2>2
  <2>4. QED
    BY <1>1, <2>2, <2>3, SeqEqual
<1>5. Append(FileCleaner, "Down") = AllCleaners
  <2>1. FileCleaner \in Seq(S)
    BY <1>1
  <2>2. /\ Len(FileCleaner) + 1 = 2 /\ 1 \in 1..Len(FileCleaner)
        /\ \A i \in 1..2 : i = 1 \/ i = 2
    BY <1>1
  <2>3. /\ Append(FileCleaner, "Down") \in Seq(S)
        /\ Len(Append(FileCleaner, "Down")) = 2
        /\ Append(FileCleaner, "Down")[1] = FileCleaner[1]
        /\ Append(FileCleaner, "Down")[2] = "Down"
    BY <1>2, <1>3, <2>1, <2>2
  <2>4. QED
    BY <1>1, <2>2, <2>3, SeqEqual
<1>6. Last(AllCleaners) = "Down" /\ Last(FileCleaner) = "Remove"
  BY <1>1 DEF Last
<1>7. Front(AllCleaners) = FileCleaner
  <2>1. Len(AllCleaners) - 1 = 1 /\ \A i \in 1..1 : i = 1 /\ AllCleaners[i] \in S
    BY <1>1, <1>2
  <2>2. Front(AllCleaners) = SubSeq(AllCleaners, 1, 1)
    BY <2>1 DEF Front
  <2>3. /\ SubSeq(AllCleaners, 1, 1) \in Seq(S)
        /\ Len(SubSeq(AllCleaners, 1, 1)) = 1
        /\ SubSeq(AllCleaners, 1, 1)[1] = AllCleaners[1]
    BY <2>1, SubSeqProperties
  <2>4. QED
    BY <1>1, <2>1, <2>2, <2>3, SeqEqual
<1>8. Front(FileCleaner) = NoCleaner
  BY <1>1, SubSeqEmpty DEF Front, NoCleaner
<1>9. QED
  BY <1>1, <1>4, <1>5, <1>6, <1>7, <1>8

\* A test that gives up is at its Close or at its end.
LEMMA GivenUp ==
  ASSUME TypeOK, NEW t \in Testers, GiveUp(t)
  PROVE  /\ pc' \in [Testers -> Steps] /\ result' \in [Testers -> Results]
         /\ pc'[t] \in {"close", "ended"} /\ result'[t] = "error"
         /\ \A u \in Testers \ {t} : pc'[u] = pc[u] /\ result'[u] = result[u]
         /\ listed' \in [Testers -> Testers \cup {Nobody}]
         /\ host' \in [Testers -> {5432, 55432}]
         /\ attempts' \in [Testers -> Nat] /\ elapsed' \in [Testers -> Nat]
  BY DEF GiveUp, Forget, TypeOK, Steps, DefaultPort, Results

LEMMA BroughtUp ==
  ASSUME TypeOK, NEW t \in Testers, BringUp(t)
  PROVE  /\ maker' \in Testers \cup {Nobody} /\ port' \in {5432, 55432} /\ accepting' \in BOOLEAN
         /\ data' \in {"empty", "dirty", "migrated", "seeded"} /\ migrator' \in Testers \cup {Nobody}
         /\ crowded' \subseteq Testers
<1>1. accepting' \in BOOLEAN
  <2>1. accepting \in BOOLEAN
    BY DEF TypeOK
  <2>2. accepting' = FALSE \/ accepting' = accepting
    BY DEF BringUp, docker
  <2>3. QED
    BY <2>1, <2>2
<1>2. port' \in {5432, 55432}
  BY DEF BringUp, docker, TypeOK, Port
<1>3. /\ maker' \in Testers \cup {Nobody} /\ migrator' \in Testers \cup {Nobody}
      /\ data' \in {"empty", "dirty", "migrated", "seeded"}
  BY DEF BringUp, docker, TypeOK
<1>4. crowded' \subseteq Testers
  BY DEF BringUp, Holding, TypeOK
<1>5. QED
  BY <1>1, <1>2, <1>3, <1>4

LEMMA TakenDown ==
  ASSUME TakeDown
  PROVE  /\ maker' = Nobody /\ port' \in {5432, 55432} /\ accepting' \in BOOLEAN
         /\ data' \in {"empty", "dirty", "migrated", "seeded"} /\ migrator' = Nobody
<1>1. port' \in {5432, 55432}
  BY DEF TakeDown, DefaultPort
<1>2. accepting' = FALSE
  BY DEF TakeDown
<1>3. accepting' \in BOOLEAN
  BY <1>2
<1>4. QED
  BY <1>1, <1>3 DEF TakeDown

\* What Close does with a cleaner: it runs the one of the file, it runs the one
\* of the container, or it meets an error.
RunsRemove(t) ==
  /\ pc[t] = "close" /\ cleaners[t] = FileCleaner
  /\ cleaners' = [cleaners EXCEPT ![t] = NoCleaner] /\ file' = [file EXCEPT ![t] = FALSE]
  /\ UNCHANGED <<pc, result, docker, faults, locals, crowded>>

RunsDown(t) ==
  /\ pc[t] = "close" /\ cleaners[t] = AllCleaners /\ file[t] = TRUE
  /\ cleaners' = [cleaners EXCEPT ![t] = FileCleaner] /\ TakeDown
  /\ UNCHANGED <<pc, result, file, faults, locals, crowded>>

CleanerFails(t) ==
  /\ pc[t] = "close" /\ cleaners[t] # NoCleaner /\ CloseFails(t)
  /\ (cleaners[t] = AllCleaners /\ file[t] # TRUE) \/ Fault(t)
  /\ faults' \in {faults, faults \cup {t}}
  /\ UNCHANGED docker \/ (cleaners[t] = AllCleaners /\ TakeDown)
  /\ UNCHANGED <<file, cleaners, locals, crowded>>

LEMMA CleanerRuns ==
  ASSUME TypeOK, NEW t \in Testers, RunCleaner(t)
  PROVE  RunsRemove(t) \/ RunsDown(t) \/ CleanerFails(t)
<1>1. cleaners[t] \in {NoCleaner, FileCleaner, AllCleaners}
  BY DEF TypeOK
<1>2. pc[t] = "close" /\ cleaners[t] # NoCleaner /\ UNCHANGED <<locals, crowded>>
  BY DEF RunCleaner
<1>3. CASE /\ cleaners' = [cleaners EXCEPT ![t] = Front(cleaners[t])]
           /\ \/ NextCleaner(t) = "Remove" /\ file' = [file EXCEPT ![t] = FALSE] /\ UNCHANGED docker
              \/ NextCleaner(t) = "Down" /\ file[t] /\ TakeDown /\ UNCHANGED file
           /\ UNCHANGED <<pc, result, faults>>
  <2>1. CASE cleaners[t] = FileCleaner
    BY <1>2, <1>3, <2>1, CleanerOrder DEF NextCleaner, RunsRemove
  <2>2. CASE cleaners[t] = AllCleaners
    <3>1. file \in [Testers -> BOOLEAN]
      BY DEF TypeOK
    <3>2. QED
      BY <1>2, <1>3, <2>2, <3>1, CleanerOrder DEF NextCleaner, RunsDown
  <2>3. QED
    BY <1>1, <1>2, <2>1, <2>2
<1>4. CASE /\ CloseFails(t)
           /\ \/ NextCleaner(t) = "Down" /\ ~file[t] /\ UNCHANGED <<docker, faults>>
              \/ Fault(t) /\ (UNCHANGED docker \/ (NextCleaner(t) = "Down" /\ file[t] /\ TakeDown))
           /\ UNCHANGED <<file, cleaners>>
  <2>1. NextCleaner(t) = "Down" => cleaners[t] = AllCleaners
    BY <1>1, <1>2, CleanerOrder DEF NextCleaner
  <2>2. QED
    BY <1>2, <1>4, <2>1 DEF CleanerFails, Fault
<1>5. QED
  BY <1>3, <1>4 DEF RunCleaner

\* What all steps of Close have in common.
LEMMA Closing ==
  ASSUME TypeOK, NEW t \in Testers, Close(t)
  PROVE  /\ pc[t] = "close" /\ pc'[t] \in {"close", "ended"}
         /\ UNCHANGED locals /\ (UNCHANGED docker \/ TakeDown)
<1>0. pc \in [Testers -> Steps]
  BY DEF TypeOK
<1>1. CASE Closed(t)
  BY <1>0, <1>1 DEF Closed
<1>2. CASE RunsRemove(t)
  BY <1>2 DEF RunsRemove
<1>3. CASE RunsDown(t)
  BY <1>3 DEF RunsDown
<1>4. CASE CleanerFails(t)
  BY <1>0, <1>4 DEF CleanerFails, CloseFails
<1>5. QED
  BY <1>1, <1>2, <1>3, <1>4, CleanerRuns DEF Close

LEMMA TypeStep ==
  ASSUME TypeInv, NEW t \in Testers, Step(t)
  PROVE  TypeInv'
<1>0. ASSUME pc[t] = "new", addCleaner(t, "Remove")
      PROVE  cleaners' = [cleaners EXCEPT ![t] = FileCleaner]
  <2>1. cleaners[t] = NoCleaner
    BY <1>0 DEF TypeInv, CleanerFacts
  <2>2. cleaners' = [cleaners EXCEPT ![t] = Append(cleaners[t], "Remove")]
    BY <1>0 DEF addCleaner
  <2>3. QED
    BY <2>1, <2>2, CleanerOrder
<1> USE DEF TypeInv, TypeOK, CleanerFacts, GoTo, Fault, locals, docker
<1>1. CASE New(t)
  <2>1. CASE GiveUp(t) /\ Fault(t) /\ UNCHANGED <<cleaners, docker, crowded>>
    <3>1. file' \in [Testers -> BOOLEAN]
      <4>1. CASE UNCHANGED file
        BY <4>1
      <4>2. CASE file' = [file EXCEPT ![t] = TRUE]
        BY <4>2
      <4>3. QED
        BY <1>1, <4>1, <4>2 DEF New
    <3>2. QED
      BY <2>1, <3>1, GivenUp
  <2>2. CASE /\ GoTo(t, "up") /\ file' = [file EXCEPT ![t] = TRUE] /\ addCleaner(t, "Remove")
             /\ UNCHANGED <<locals, faults, docker, crowded>>
    <3>1. cleaners' = [cleaners EXCEPT ![t] = FileCleaner]
      BY <1>0, <1>1, <2>2 DEF New
    <3>2. pc' = [pc EXCEPT ![t] = "up"] /\ UNCHANGED result
      BY <2>2
    <3>3. file' \in [Testers -> BOOLEAN]
      BY <2>2
    <3>4. QED
      BY <2>2, <3>1, <3>2, <3>3 DEF Steps
  <2>3. QED
    BY <1>1, <2>1, <2>2 DEF New
<1>2. CASE Up(t)
  <2>1. CASE GiveUp(t)
    BY <1>2, <2>1, GivenUp, BroughtUp DEF Up
  <2>2. CASE BringUp(t) /\ GoTo(t, "list") /\ addCleaner(t, "Down")
    BY <1>2, <2>2, BroughtUp, CleanerOrder DEF Up, addCleaner, Steps
  <2>3. QED
    BY <1>2, <2>1, <2>2 DEF Up
<1>3. CASE List(t)
  <2>1. CASE GiveUp(t)
    BY <1>3, <2>1, GivenUp DEF List
  <2>2. CASE ~GiveUp(t)
    BY <1>3, <2>2 DEF List, Steps, DefaultPort
  <2>3. QED
    BY <2>1, <2>2
<1>4. CASE Ping(t)
  BY <1>4, TimesAssumption DEF Ping, Wait, Steps
<1>5. CASE PingAgain(t) \/ Query(t)
  <2>1. CASE GiveUp(t)
    BY <1>5, <2>1, GivenUp DEF PingAgain, Query
  <2>2. CASE ~GiveUp(t)
    BY <1>5, <2>2 DEF PingAgain, Query, Steps
  <2>3. QED
    BY <2>1, <2>2
<1>6. CASE Migrate(t) \/ Seed(t)
  <2>1. CASE GiveUp(t)
    BY <1>6, <2>1, GivenUp DEF Migrate, Seed
  <2>2. CASE ~GiveUp(t)
    BY <1>6, <2>2 DEF Migrate, Seed, Steps
  <2>3. QED
    BY <2>1, <2>2
<1>7. CASE CloseDatabase(t)
  BY <1>7 DEF CloseDatabase, Forget, Steps, DefaultPort, Results
<1>8. CASE WaitForHealthy(t) \/ Use(t)
  <2>1. CASE GiveUp(t)
    BY <1>8, <2>1, GivenUp DEF WaitForHealthy, Use
  <2>2. CASE ~GiveUp(t)
    BY <1>8, <2>2 DEF WaitForHealthy, Use, Steps, Forget, DefaultPort, waitInterval
  <2>3. QED
    BY <2>1, <2>2
<1>9. CASE RunCleaner(t)
  <2>1. CASE RunsRemove(t)
    BY <2>1, CleanerOrder DEF RunsRemove
  <2>2. CASE RunsDown(t)
    BY <2>2, CleanerOrder, TakenDown DEF RunsDown
  <2>3. CASE CleanerFails(t)
    <3>1. /\ pc' \in [Testers -> Steps] /\ pc'[t] = "ended"
          /\ \A u \in Testers \ {t} : pc'[u] = pc[u]
          /\ result' \in [Testers -> Results]
      BY <2>3 DEF CleanerFails, CloseFails, Steps, Results
    <3>2. CASE UNCHANGED docker
      BY <2>3, <3>1, <3>2 DEF CleanerFails
    <3>3. CASE TakeDown
      BY <2>3, <3>1, <3>3, TakenDown DEF CleanerFails
    <3>4. QED
      BY <2>3, <3>2, <3>3 DEF CleanerFails
  <2>4. QED
    BY <1>9, <2>1, <2>2, <2>3, CleanerRuns
<1>10. CASE Closed(t)
  BY <1>10 DEF Closed, Steps, Results
<1>11. QED
  BY <1>1, <1>2, <1>3, <1>4, <1>5, <1>6, <1>7, <1>8, <1>9, <1>10 DEF Step, NewDatabase, Close

LEMMA TypeNext == TypeInv /\ [Next]_vars => TypeInv'
<1> SUFFICES ASSUME TypeInv, [Next]_vars PROVE TypeInv'
  OBVIOUS
<1>1. CASE Accepts
  BY <1>1 DEF Accepts, TypeInv, TypeOK, CleanerFacts, locals
<1>2. CASE UNCHANGED vars
  BY <1>2 DEF vars, TypeInv, TypeOK, CleanerFacts, locals, docker
<1>3. QED
  BY <1>1, <1>2, TypeStep DEF Next

LEMMA TypeHolds == Spec => []TypeInv
  BY TypeInit, TypeNext, PTL DEF Spec

\* Tests are at steps that exist and their cleaners are those of their file and
\* their container, for any number of tests.
THEOREM TesterTypes == Spec => []TypeOK
<1>1. TypeInv => TypeOK
  BY DEF TypeInv
<1>2. QED
  BY <1>1, TypeHolds, PTL

\* A test is not affected by the steps of another one, but for the container.
LEMMA OthersKept ==
  ASSUME TypeInv, NEW t \in Testers, Step(t), NEW u \in Testers, u # t
  PROVE  /\ pc'[u] = pc[u] /\ file'[u] = file[u] /\ cleaners'[u] = cleaners[u]
         /\ listed'[u] = listed[u] /\ host'[u] = host[u]
         /\ attempts'[u] = attempts[u] /\ elapsed'[u] = elapsed[u] /\ result'[u] = result[u]
<1> USE DEF TypeInv, TypeOK, GoTo, GiveUp, Forget, locals
<1>1. CASE New(t) \/ Up(t) \/ List(t)
  BY <1>1 DEF New, Up, List, addCleaner
<1>2. CASE NewDatabase(t)
  BY <1>2 DEF NewDatabase, Ping, PingAgain, Query, Migrate, Seed, CloseDatabase
<1>3. CASE WaitForHealthy(t) \/ Use(t)
  BY <1>3 DEF WaitForHealthy, Use
<1>4. CASE Close(t)
  <2>1. CASE Closed(t)
    BY <2>1 DEF Closed
  <2>2. CASE RunsRemove(t)
    BY <2>2 DEF RunsRemove
  <2>3. CASE RunsDown(t)
    BY <2>3 DEF RunsDown
  <2>4. CASE CleanerFails(t)
    BY <2>4 DEF CleanerFails, CloseFails
  <2>5. QED
    BY <1>4, <2>1, <2>2, <2>3, <2>4, CleanerRuns DEF Close
<1>5. QED
  BY <1>1, <1>2, <1>3, <1>4 DEF Step

-----------------------------------------------------------------------------
(* The pings of StatusCheck                                                *)

\* The sleeps add up to at least half the square of the number of pings.
PingFacts(t) ==
  t \in Databases =>
    /\ pc[t] \notin {"health", "use"}
    /\ attempts[t] >= 1
    /\ attempts[t] * (attempts[t] - 1) <= 2 * ConnectTimeout
    /\ elapsed[t] <= ConnectTimeout + PingTime + attempts[t]
    /\ pc[t] = "ping" => /\ elapsed[t] < ConnectTimeout \/ (attempts[t] = 1 /\ elapsed[t] = 0)
                         /\ attempts[t] * (attempts[t] - 1) <= 2 * elapsed[t]
    /\ pc[t] = "slept" => (attempts[t] + 1) * attempts[t] <= 2 * elapsed[t]
    /\ pc[t] \notin {"ping", "slept", "query"} => attempts[t] = 1 /\ elapsed[t] = 0

PingInv == TypeInv /\ \A t \in Testers : PingFacts(t)

LEMMA PingInit == Init => PingInv
<1> SUFFICES ASSUME Init, NEW t \in Testers PROVE PingFacts(t)
  BY TypeInit DEF PingInv
<1>1. pc[t] = "new" /\ attempts[t] = 1 /\ elapsed[t] = 0
  BY DEF Init
<1>2. QED
  BY <1>1, TimesAssumption DEF PingFacts

\* One more ping after one more sleep.
LEMMA Squares == \A n \in Nat : n * (n - 1) + 2 * n = (n + 1) * n /\ (n + 1) * (n + 1 - 1) = (n + 1) * n
  OBVIOUS

\* Outside of StatusCheck there are no attempts and no time of it.
LEMMA NoPing ==
  ASSUME NEW t \in Testers, attempts'[t] = 1, elapsed'[t] = 0,
         pc'[t] \notin {"slept"}, t \in Databases => pc'[t] \notin {"health", "use"}
  PROVE  PingFacts(t)'
  BY TimesAssumption DEF PingFacts

LEMMA PingStep ==
  ASSUME PingInv, NEW t \in Testers, Step(t)
  PROVE  PingFacts(t)'
<1>0. /\ pc \in [Testers -> Steps] /\ attempts \in [Testers -> Nat] /\ elapsed \in [Testers -> Nat]
      /\ PingFacts(t)
  BY DEF PingInv, TypeInv, TypeOK
<1> SUFFICES ASSUME t \in Databases PROVE PingFacts(t)'
  BY DEF PingFacts
<1>1. ASSUME GiveUp(t) PROVE PingFacts(t)'
  BY <1>0, <1>1, NoPing DEF GiveUp, Forget
<1>2. ASSUME ~GiveUp(t), New(t) \/ Up(t) \/ List(t) \/ Migrate(t) \/ Seed(t) PROVE PingFacts(t)'
  <2>1. attempts'[t] = attempts[t] /\ elapsed'[t] = elapsed[t]
    BY <1>2 DEF New, Up, List, Migrate, Seed, locals
  <2>2. pc[t] \in {"new", "up", "list", "migrate", "seed"} /\ pc'[t] \in {"up", "list", "ping", "seed", "ready"}
    BY <1>0, <1>2 DEF New, Up, List, Migrate, Seed, GoTo
  <2>3. attempts[t] = 1 /\ elapsed[t] = 0
    BY <1>0, <2>2 DEF PingFacts
  <2>4. QED
    BY <2>1, <2>2, <2>3, NoPing
<1>3. CASE Ping(t)
  <2>1. PICK d \in 0..PingTime :
          \/ GoTo(t, "query") /\ elapsed' = [elapsed EXCEPT ![t] = @ + d]
          \/ GoTo(t, "slept") /\ elapsed' = [elapsed EXCEPT ![t] = @ + d + Wait(attempts[t])]
    BY <1>3 DEF Ping
  <2>2. pc[t] = "ping" /\ attempts' = attempts
    BY <1>3 DEF Ping
  <2> DEFINE n == attempts[t]
             e == elapsed[t]
  <2>3. /\ n \in Nat /\ e \in Nat /\ d \in Nat /\ d <= PingTime /\ PingTime \in Nat /\ ConnectTimeout \in Nat
        /\ n >= 1 /\ n * (n - 1) <= 2 * ConnectTimeout /\ n * (n - 1) <= 2 * e
        /\ e < ConnectTimeout \/ (n = 1 /\ e = 0)
    BY <1>0, <2>2, TimesAssumption DEF PingFacts
  <2>4. CASE GoTo(t, "query") /\ elapsed' = [elapsed EXCEPT ![t] = @ + d]
    <3>1. pc'[t] = "query" /\ elapsed'[t] = e + d /\ attempts'[t] = n
      BY <1>0, <2>2, <2>4 DEF GoTo
    <3>2. e + d <= ConnectTimeout + PingTime + n
      BY <2>3
    <3>3. QED
      BY <2>3, <3>1, <3>2 DEF PingFacts
  <2>5. CASE GoTo(t, "slept") /\ elapsed' = [elapsed EXCEPT ![t] = @ + d + Wait(attempts[t])]
    <3>1. pc'[t] = "slept" /\ elapsed'[t] = e + d + n /\ attempts'[t] = n
      BY <1>0, <2>2, <2>5 DEF GoTo, Wait
    <3>2. e + d + n <= ConnectTimeout + PingTime + n
      BY <2>3
    <3>3. (n + 1) * n <= 2 * (e + d + n)
      <4>1. (n + 1) * n = n * (n - 1) + 2 * n
        BY <2>3, Squares
      <4> DEFINE k == n * (n - 1)
      <4>2. k \in Int
        BY <2>3
      <4> HIDE DEF k
      <4>3. k <= 2 * e => k + 2 * n <= 2 * (e + d + n)
        BY <2>3, <4>2
      <4>4. QED
        BY <2>3, <4>1, <4>3 DEF k
    <3>4. QED
      BY <2>3, <3>1, <3>2, <3>3 DEF PingFacts
  <2>6. QED
    BY <2>1, <2>4, <2>5
<1>4. CASE PingAgain(t) /\ ~GiveUp(t)
  <2>1. /\ pc[t] = "slept" /\ pc'[t] = "ping" /\ elapsed[t] < ConnectTimeout
        /\ attempts'[t] = attempts[t] + 1 /\ elapsed'[t] = elapsed[t]
    BY <1>0, <1>4 DEF PingAgain, GoTo
  <2> DEFINE n == attempts[t]
             e == elapsed[t]
  <2>2. /\ n \in Nat /\ e \in Nat /\ PingTime \in Nat /\ ConnectTimeout \in Nat
        /\ (n + 1) * n <= 2 * e /\ e < ConnectTimeout
    BY <1>0, <2>1, TimesAssumption DEF PingFacts
  <2>3. (n + 1) * (n + 1 - 1) = (n + 1) * n
    BY <2>2, Squares
  <2>4. (n + 1) * (n + 1 - 1) <= 2 * e /\ (n + 1) * (n + 1 - 1) <= 2 * ConnectTimeout
    <3> DEFINE k == (n + 1) * n
    <3>1. k \in Int
      BY <2>2
    <3> HIDE DEF k
    <3>2. k <= 2 * e => k <= 2 * ConnectTimeout
      BY <2>2, <3>1
    <3>3. QED
      BY <2>2, <2>3, <3>2 DEF k
  <2>5. e <= ConnectTimeout + PingTime + (n + 1) /\ n + 1 >= 1
    BY <2>2
  <2>6. QED
    BY <2>1, <2>2, <2>4, <2>5 DEF PingFacts
<1>5. CASE Query(t) /\ ~GiveUp(t)
  BY <1>0, <1>5, NoPing DEF Query, GoTo
<1>6. CASE CloseDatabase(t)
  BY <1>0, <1>6, NoPing DEF CloseDatabase, Forget
<1>7. CASE WaitForHealthy(t) \/ Use(t)
  BY <1>0, <1>7 DEF WaitForHealthy, Use, PingFacts
<1>8. CASE Close(t)
  <2>1. pc[t] = "close" /\ pc'[t] \in {"close", "ended"} /\ UNCHANGED locals
    BY <1>8, Closing DEF PingInv, TypeInv
  <2>2. attempts'[t] = 1 /\ elapsed'[t] = 0
    BY <1>0, <2>1 DEF PingFacts, locals
  <2>3. QED
    BY <2>1, <2>2, NoPing
<1>9. QED
  BY <1>1, <1>2, <1>3, <1>4, <1>5, <1>6, <1>7, <1>8 DEF Step, NewDatabase

LEMMA PingNext == PingInv /\ [Next]_vars => PingInv'
<1> SUFFICES ASSUME PingInv, [Next]_vars, NEW u \in Testers PROVE PingFacts(u)'
  BY TypeNext DEF PingInv
<1>1. ASSUME NEW t \in Testers, Step(t) PROVE PingFacts(u)'
  <2>1. CASE u = t
    BY <1>1, <2>1, PingStep
  <2>2. CASE u # t
    BY <1>1, <2>2, OthersKept DEF PingInv, PingFacts
  <2>3. QED
    BY <2>1, <2>2
<1>2. CASE Accepts \/ UNCHANGED vars
  BY <1>2 DEF Accepts, vars, locals, PingInv, PingFacts
<1>3. QED
  BY <1>1, <1>2 DEF Next

\* StatusCheck ends at the latest one ping and one sleep after its deadline and
\* has pinged at most about sqrt(2 * deadline) times by then, for any deadline.
THEOREM PingsAreBounded == Spec => []PingsBounded
<1>1. PingInv => PingsBounded
  BY DEF PingInv, PingFacts, PingsBounded, Testers
<1>2. QED
  BY <1>1, PingInit, PingNext, PTL DEF Spec

-----------------------------------------------------------------------------
(* What is left behind                                                     *)

\* Until Close only an error is known of, and before it none.
ResultFacts(t) ==
  /\ pc[t] # "ended" => result[t] \in {"none", "error", "discarded"}
  /\ pc[t] \notin {"close", "ended"} => result[t] = "none"

\* Tests that are going to remove the container, or that have failed, also if they
\* do not say so.
Keeper(t) ==
  \/ /\ pc[t] \notin {"new", "up", "ended"}
     /\ cleaners[t] = AllCleaners \/ result[t] = "error"
  \/ /\ pc[t] = "ended"
     /\ \/ result[t] \in {"error", "panic"}
        \/ result[t] = "discarded" /\ cleaners[t] = AllCleaners

LeftInv == /\ TypeInv
           /\ \A t \in Testers : ResultFacts(t)
           /\ maker # Nobody => \E t \in Testers : Keeper(t)

LEMMA LeftInit == Init => LeftInv
  BY TypeInit DEF Init, LeftInv, ResultFacts

\* A test remains a keeper while there is a container, and becomes one when it
\* makes one.
LEMMA KeeperStep ==
  ASSUME TypeInv, NEW t \in Testers, ResultFacts(t), Step(t)
  PROVE  /\ ResultFacts(t)'
         /\ maker' # Nobody /\ (Keeper(t) \/ maker = Nobody) => Keeper(t)'
<1>0. /\ pc \in [Testers -> Steps] /\ result \in [Testers -> Results]
      /\ cleaners \in [Testers -> {NoCleaner, FileCleaner, AllCleaners}]
      /\ CleanerFacts(t)
      /\ pc[t] \in Steps \ {"new", "up", "close", "ended"} => cleaners[t] = AllCleaners
  BY DEF TypeInv, TypeOK
<1>1. ASSUME GiveUp(t) PROVE ResultFacts(t)' /\ Keeper(t)'
  BY <1>1, GivenUp DEF TypeInv, ResultFacts, Keeper
<1>2. CASE New(t) /\ ~GiveUp(t)
  <2>1. pc[t] = "new" /\ pc'[t] = "up" /\ result'[t] = result[t] /\ maker' = maker
    BY <1>0, <1>2 DEF New, GoTo, docker
  <2>2. QED
    BY <2>1 DEF ResultFacts, Keeper
<1>3. CASE Up(t) /\ ~GiveUp(t)
  <2>1. pc[t] = "up" /\ pc'[t] = "list" /\ result'[t] = result[t] /\ addCleaner(t, "Down")
    BY <1>0, <1>3 DEF Up, GoTo
  <2>2. cleaners[t] = FileCleaner
    BY <1>0, <2>1 DEF CleanerFacts
  <2>3. cleaners'[t] = AllCleaners
    BY <1>0, <2>1, <2>2, CleanerOrder DEF addCleaner
  <2>4. QED
    BY <2>1, <2>3 DEF ResultFacts, Keeper
<1>4. CASE (List(t) \/ WaitForHealthy(t) \/ Use(t) \/ NewDatabase(t)) /\ ~GiveUp(t)
  <2>1. pc[t] \in Steps \ {"new", "up", "close", "ended"}
    BY <1>4 DEF List, WaitForHealthy, Use, NewDatabase, Ping, PingAgain, Query, Migrate, Seed,
                CloseDatabase, Steps
  <2>2. cleaners' = cleaners
    BY <1>4 DEF List, WaitForHealthy, Use, NewDatabase, Ping, PingAgain, Query, Migrate, Seed,
                CloseDatabase
  <2>3. /\ pc'[t] \notin {"new", "up", "ended"}
        /\ result'[t] = result[t] \/ (pc'[t] = "close" /\ result'[t] = "discarded")
    <3>1. CASE CloseDatabase(t)
      BY <1>0, <3>1 DEF CloseDatabase
    <3>2. CASE List(t) \/ WaitForHealthy(t) \/ Use(t)
      BY <1>0, <1>4, <3>2 DEF List, WaitForHealthy, Use, GoTo
    <3>3. CASE Ping(t) \/ PingAgain(t) \/ Query(t) \/ Migrate(t) \/ Seed(t)
      BY <1>0, <1>4, <3>3 DEF Ping, PingAgain, Query, Migrate, Seed, GoTo
    <3>4. QED
      BY <1>4, <3>1, <3>2, <3>3 DEF NewDatabase
  <2>4. QED
    BY <1>0, <2>1, <2>2, <2>3 DEF ResultFacts, Keeper
<1>5. CASE RunsRemove(t)
  <2>1. /\ pc[t] = "close" /\ cleaners[t] = FileCleaner
        /\ UNCHANGED <<pc, result, docker>>
    BY <1>5 DEF RunsRemove
  <2>2. QED
    BY <2>1, CleanerOrder DEF ResultFacts, Keeper, docker
<1>6. CASE RunsDown(t)
  BY <1>6, TakenDown DEF RunsDown, ResultFacts
<1>7. CASE CleanerFails(t)
  <2>1. /\ pc[t] = "close" /\ pc'[t] = "ended" /\ cleaners' = cleaners
        /\ result'[t] \in {"panic", "error"} \/ (result'[t] = "discarded" /\ result[t] = "discarded")
    BY <1>0, <1>7 DEF CleanerFails, CloseFails, ResultFacts, Testers
  <2>2. maker' = maker \/ maker' = Nobody
    BY <1>7 DEF CleanerFails, docker, TakeDown
  <2>3. QED
    BY <2>1, <2>2 DEF ResultFacts, Keeper
<1>8. CASE Closed(t)
  <2>1. /\ pc[t] = "close" /\ pc'[t] = "ended" /\ cleaners[t] = NoCleaner
        /\ result'[t] = IF result[t] = "none" THEN "ok" ELSE result[t]
        /\ maker' = maker
    BY <1>0, <1>8 DEF Closed, docker
  <2>2. QED
    BY <2>1, CleanerOrder DEF ResultFacts, Keeper
<1>9. QED
  BY <1>1, <1>2, <1>3, <1>4, <1>5, <1>6, <1>7, <1>8, CleanerRuns DEF Step, Close, TypeInv

LEMMA LeftNext == LeftInv /\ [Next]_vars => LeftInv'
<1> SUFFICES ASSUME LeftInv, [Next]_vars PROVE LeftInv'
  OBVIOUS
<1>0. TypeInv /\ TypeInv'
  BY TypeNext DEF LeftInv
<1>1. ASSUME NEW t \in Testers, Step(t) PROVE LeftInv'
  <2>1. ASSUME NEW u \in Testers, u # t
        PROVE  /\ ResultFacts(u)'
               /\ Keeper(u) => Keeper(u)'
    BY <1>0, <1>1, <2>1, OthersKept DEF LeftInv, ResultFacts, Keeper
  <2>2. /\ ResultFacts(t)'
        /\ maker' # Nobody /\ (Keeper(t) \/ maker = Nobody) => Keeper(t)'
    BY <1>0, <1>1, KeeperStep DEF LeftInv
  <2>3. maker' # Nobody => \E u \in Testers : Keeper(u)'
    BY <2>1, <2>2 DEF LeftInv
  <2>4. QED
    BY <1>0, <2>1, <2>2, <2>3 DEF LeftInv
<1>2. CASE Accepts \/ UNCHANGED vars
  BY <1>0, <1>2 DEF Accepts, vars, docker, LeftInv, ResultFacts, Keeper
<1>3. QED
  BY <1>1, <1>2 DEF Next

\* A container stays behind only after a test that fails, or after one that has
\* met two failures and drops them, however many tests make, share and remove it.
THEOREM NothingIsLeftSilently == Spec => []NothingLeftSilently
<1>1. LeftInv => NothingLeftSilently
  BY DEF LeftInv, Keeper, NothingLeftSilently, Holding
<1>2. QED
  BY <1>1, LeftInit, LeftNext, PTL DEF Spec

-----------------------------------------------------------------------------
(* Whose database a test works on                                          *)

\* No test makes a second container: one that was listed and is gone does not
\* come back, and nobody but its migrator finds a container without a schema.
OwnFacts(t) ==
  /\ listed[t] # Nobody => pc[listed[t]] \notin {"new", "up"} /\ host[t] = Port(listed[t])
  /\ pc[t] \in {"seed", "ready"} /\ maker # Nobody /\ maker = listed[t] =>
       migrator = t /\ HasSchema /\ (pc[t] = "ready" => data = "seeded")

MakerFacts == maker # Nobody => pc[maker] \notin {"new", "up"} /\ port = Port(maker)

OwnInv == TypeInv /\ MakerFacts /\ \A t \in Testers : OwnFacts(t)

LEMMA OwnInit == Init => OwnInv
<1> SUFFICES ASSUME Init PROVE OwnInv
  OBVIOUS
<1>1. maker = Nobody /\ \A t \in Testers : listed[t] = Nobody
  BY DEF Init
<1>2. QED
  BY <1>1, TypeInit DEF OwnInv, MakerFacts, OwnFacts

\* A step of a test on the container and on its own variables.
LEMMA OwnStep ==
  ASSUME OwnInv, NEW t \in Testers, Step(t)
  PROVE  OwnInv'
<1>0. /\ TypeInv /\ pc \in [Testers -> Steps] /\ listed \in [Testers -> Testers \cup {Nobody}]
      /\ host \in [Testers -> {5432, 55432}] /\ maker \in Testers \cup {Nobody}
      /\ MakerFacts /\ \A u \in Testers : OwnFacts(u)
      /\ Nobody \notin Testers
  BY TestersAssumption DEF OwnInv, TypeInv, TypeOK, Testers
<1>1. TypeInv'
  BY TypeNext DEF OwnInv, Next
<1>2. \A u \in Testers : pc[u] \notin {"new", "up"} => pc'[u] \notin {"new", "up"}
  <2>1. pc[t] \notin {"new", "up"} => pc'[t] \notin {"new", "up"}
    <3>1. CASE GiveUp(t)
      BY <1>0, <3>1, GivenUp DEF TypeInv
    <3>2. CASE (New(t) \/ Up(t) \/ List(t) \/ WaitForHealthy(t) \/ Use(t)) /\ ~GiveUp(t)
      BY <1>0, <3>2 DEF New, Up, List, WaitForHealthy, Use, GoTo
    <3>3. CASE NewDatabase(t) /\ ~GiveUp(t)
      BY <1>0, <3>3 DEF NewDatabase, Ping, PingAgain, Query, Migrate, Seed, CloseDatabase, GoTo
    <3>4. CASE Close(t)
      BY <1>0, <3>4, Closing DEF TypeInv
    <3>5. QED
      BY <3>1, <3>2, <3>3, <3>4 DEF Step
  <2>2. QED
    BY <1>0, <2>1, OthersKept
<1>3. ASSUME listed'[t] = Nobody, UNCHANGED docker PROVE OwnInv'
  <2>1. ASSUME NEW u \in Testers, u # t PROVE OwnFacts(u)'
    BY <1>0, <1>2, <1>3, <2>1, OthersKept DEF OwnFacts, HasSchema, docker, Port
  <2>2. OwnFacts(t)'
    BY <1>0, <1>3 DEF OwnFacts, docker
  <2>3. QED
    BY <1>0, <1>1, <1>2, <1>3, <2>1, <2>2 DEF OwnInv, MakerFacts, docker, Port
<1>4. CASE GiveUp(t) /\ UNCHANGED docker
  BY <1>0, <1>3, <1>4 DEF GiveUp, Forget
<1>5. ASSUME pc[t] = "up", BringUp(t), pc'[t] \notin {"new", "up"},
             \/ UNCHANGED <<listed, host>> /\ pc'[t] \notin {"seed", "ready"}
             \/ listed'[t] = Nobody
      PROVE  OwnInv'
  <2>1. \A u \in Testers : listed[u] # t
    BY <1>0, <1>5 DEF OwnFacts
  <2>2. CASE maker' = t /\ port' = Port(t)
    <3>1. MakerFacts'
      BY <1>5, <2>2 DEF MakerFacts, Port
    <3>2. ASSUME NEW u \in Testers, u # t PROVE OwnFacts(u)'
      BY <1>0, <1>2, <2>1, <2>2, <3>2, OthersKept DEF OwnFacts, Port
    <3>3. OwnFacts(t)'
      BY <1>0, <1>2, <1>5, <2>1, <2>2 DEF OwnFacts, Port
    <3>4. QED
      BY <1>1, <3>1, <3>2, <3>3 DEF OwnInv
  <2>3. CASE UNCHANGED docker
    <3>1. ASSUME NEW u \in Testers, u # t PROVE OwnFacts(u)'
      BY <1>0, <1>2, <2>3, <3>1, OthersKept DEF OwnFacts, HasSchema, docker, Port
    <3>2. OwnFacts(t)'
      BY <1>0, <1>2, <1>5, <2>3 DEF OwnFacts, docker, Port
    <3>3. QED
      BY <1>0, <1>1, <1>2, <2>3, <3>1, <3>2 DEF OwnInv, MakerFacts, docker, Port
  <2>4. QED
    BY <1>5, <2>2, <2>3 DEF BringUp
<1>6. CASE New(t) /\ ~GiveUp(t)
  <2>1. /\ UNCHANGED <<docker, listed, host>> /\ pc'[t] = "up" /\ pc[t] = "new"
    BY <1>0, <1>6 DEF New, GoTo, locals
  <2>2. ASSUME NEW u \in Testers PROVE OwnFacts(u)'
    BY <1>0, <1>2, <2>1, <2>2, OthersKept DEF OwnFacts, HasSchema, docker, Port
  <2>3. QED
    BY <1>0, <1>1, <1>2, <2>1, <2>2 DEF OwnInv, MakerFacts, docker, Port
<1>7. CASE Up(t)
  <2>1. CASE GiveUp(t) /\ UNCHANGED docker
    BY <1>4, <2>1
  <2>2. CASE GiveUp(t) /\ BringUp(t)
    BY <1>0, <1>5, <1>7, <2>2, GivenUp DEF Up, GiveUp, Forget, TypeInv
  <2>3. CASE BringUp(t) /\ GoTo(t, "list") /\ UNCHANGED locals
    BY <1>0, <1>5, <1>7, <2>3 DEF Up, GoTo, locals
  <2>4. QED
    BY <1>7, <2>1, <2>2, <2>3 DEF Up
<1>8. CASE List(t) /\ ~GiveUp(t)
  <2>1. /\ UNCHANGED docker /\ pc'[t] \in {"ping", "health"}
        /\ listed'[t] = maker /\ host'[t] = IF maker = Nobody THEN DefaultPort ELSE port
    BY <1>0, <1>8 DEF List, GoTo
  <2>2. ASSUME NEW u \in Testers, u # t PROVE OwnFacts(u)'
    BY <1>0, <1>2, <2>1, <2>2, OthersKept DEF OwnFacts, HasSchema, docker, Port
  <2>3. OwnFacts(t)'
    BY <1>0, <1>2, <2>1 DEF OwnFacts, MakerFacts, docker, Port
  <2>4. QED
    BY <1>0, <1>1, <1>2, <2>1, <2>2, <2>3 DEF OwnInv, MakerFacts, docker, Port
<1>9. CASE (Ping(t) \/ PingAgain(t) \/ Query(t) \/ WaitForHealthy(t)) /\ ~GiveUp(t)
  <2>1. UNCHANGED <<docker, listed, host>> /\ pc'[t] \in {"query", "slept", "ping", "migrate", "health", "use"}
    BY <1>0, <1>9 DEF Ping, PingAgain, Query, WaitForHealthy, GoTo
  <2>2. ASSUME NEW u \in Testers PROVE OwnFacts(u)'
    BY <1>0, <1>2, <2>1, <2>2, OthersKept DEF OwnFacts, HasSchema, docker, Port
  <2>3. QED
    BY <1>0, <1>1, <1>2, <2>1, <2>2 DEF OwnInv, MakerFacts, docker, Port
<1>10. CASE Migrate(t)
  <2>1. UNCHANGED <<maker, port>>
    BY <1>10 DEF Migrate
  <2>2. CASE data # "empty" \/ UNCHANGED <<data, migrator>>
    <3>1. GiveUp(t) /\ UNCHANGED docker
      BY <1>10, <2>1, <2>2 DEF Migrate, docker
    <3>2. QED
      BY <1>4, <3>1
  <2>3. CASE data = "empty"
    <3>1. \A u \in Testers : ~(pc[u] \in {"seed", "ready"} /\ maker # Nobody /\ maker = listed[u])
      BY <1>0, <2>3 DEF OwnFacts, HasSchema
    <3>2. ASSUME NEW u \in Testers, u # t PROVE OwnFacts(u)'
      BY <1>0, <1>2, <2>1, <3>1, <3>2, OthersKept DEF OwnFacts, Port
    <3>3. CASE GiveUp(t)
      <4>1. listed'[t] = Nobody /\ pc'[t] \in {"close", "ended"}
        BY <1>0, <3>3 DEF GiveUp, Forget
      <4>2. OwnFacts(t)'
        BY <4>1 DEF OwnFacts
      <4>3. QED
        BY <1>0, <1>1, <1>2, <2>1, <3>2, <4>2 DEF OwnInv, MakerFacts, Port
    <3>4. CASE data' = "migrated" /\ migrator' = t /\ GoTo(t, "seed") /\ UNCHANGED locals
      <4>1. pc'[t] = "seed" /\ UNCHANGED <<listed, host>>
        BY <1>0, <3>4 DEF GoTo, locals
      <4>2. OwnFacts(t)'
        BY <1>0, <1>2, <3>4, <4>1 DEF OwnFacts, HasSchema, Port
      <4>3. QED
        BY <1>0, <1>1, <1>2, <2>1, <3>2, <4>2 DEF OwnInv, MakerFacts, Port
    <3>5. QED
      BY <1>10, <3>3, <3>4 DEF Migrate
  <2>4. QED
    BY <2>2, <2>3
<1>11. CASE Seed(t)
  <2>1. CASE GiveUp(t)
    <3>1. UNCHANGED docker
      BY <1>0, <1>11, <2>1, GivenUp DEF Seed, GoTo, docker, TypeInv
    <3>2. QED
      BY <1>4, <2>1, <3>1
  <2>2. CASE ~GiveUp(t)
    <3>1. /\ pc[t] = "seed" /\ pc'[t] = "ready" /\ data' = "seeded"
          /\ UNCHANGED <<maker, port, migrator, listed, host>>
      BY <1>0, <1>11, <2>2 DEF Seed, GoTo, locals
    <3>2. ASSUME NEW u \in Testers, u # t PROVE OwnFacts(u)'
      BY <1>0, <1>2, <3>1, <3>2, OthersKept DEF OwnFacts, HasSchema, Port
    <3>3. OwnFacts(t)'
      BY <1>0, <1>2, <3>1 DEF OwnFacts, HasSchema, Port
    <3>4. QED
      BY <1>0, <1>1, <1>2, <3>1, <3>2, <3>3 DEF OwnInv, MakerFacts, Port
  <2>3. QED
    BY <2>1, <2>2
<1>12. CASE CloseDatabase(t) \/ Use(t)
  BY <1>0, <1>3, <1>12 DEF CloseDatabase, Use, GiveUp, Forget
<1>13. CASE Close(t)
  <2>1. /\ pc[t] = "close" /\ pc'[t] \in {"close", "ended"} /\ UNCHANGED <<listed, host>>
        /\ UNCHANGED docker \/ TakeDown
    BY <1>0, <1>13, Closing DEF TypeInv, locals
  <2>2. CASE UNCHANGED docker
    <3>1. ASSUME NEW u \in Testers PROVE OwnFacts(u)'
      BY <1>0, <1>2, <2>1, <2>2, <3>1, OthersKept DEF OwnFacts, HasSchema, docker, Port
    <3>2. QED
      BY <1>0, <1>1, <1>2, <2>2, <3>1 DEF OwnInv, MakerFacts, docker, Port
  <2>3. CASE TakeDown
    <3>1. maker' = Nobody
      BY <2>3 DEF TakeDown
    <3>2. ASSUME NEW u \in Testers PROVE OwnFacts(u)'
      BY <1>0, <1>2, <2>1, <3>1, <3>2, OthersKept DEF OwnFacts, Port
    <3>3. QED
      BY <1>1, <3>1, <3>2 DEF OwnInv, MakerFacts
  <2>4. QED
    BY <2>1, <2>2, <2>3
<1>14. CASE GiveUp(t) /\ (New(t) \/ List(t) \/ Ping(t) \/ PingAgain(t) \/ Query(t) \/ WaitForHealthy(t))
  <2>1. UNCHANGED docker
    BY <1>14 DEF New, List, Ping, PingAgain, Query, WaitForHealthy
  <2>2. QED
    BY <1>4, <1>14, <2>1
<1>15. QED
  BY <1>6, <1>7, <1>8, <1>9, <1>10, <1>11, <1>12, <1>13, <1>14 DEF Step, NewDatabase

LEMMA OwnNext == OwnInv /\ [Next]_vars => OwnInv'
<1> SUFFICES ASSUME OwnInv, [Next]_vars PROVE OwnInv'
  OBVIOUS
<1>1. CASE Accepts \/ UNCHANGED vars
  <2>1. TypeInv'
    BY TypeNext DEF OwnInv
  <2>2. UNCHANGED <<pc, locals, maker, port, data, migrator>>
    BY <1>1 DEF Accepts, vars, docker
  <2>3. QED
    BY <2>1, <2>2 DEF OwnInv, MakerFacts, OwnFacts, HasSchema, Port, locals
<1>2. QED
  BY <1>1, OwnStep DEF Next

\* A test that has its database works on one that it has migrated itself, unless
\* somebody has taken its container away meanwhile.
THEOREM DatabasesAreOwn == Spec => []ReadyIsOwn
<1>1. OwnInv => ReadyIsOwn
  BY DEF OwnInv, OwnFacts, MakerFacts, ReadyIsOwn, Testers
<1>2. QED
  BY <1>1, OwnInit, OwnNext, PTL DEF Spec

-----------------------------------------------------------------------------
(* A test that is alone                                                    *)

Untroubled(t) == t \notin faults \cup crowded

\* Beside a test that is alone another one may only be removing its own file.
Quiet(u) == pc[u] \in {"new", "up", "ended"} \/ (pc[u] = "close" /\ cleaners[u] # AllCleaners)

\* What is known of an untroubled test: the container is its own, answers on the
\* port that was listed, and has what the test has put there.
AloneFacts(t) ==
  Untroubled(t) =>
    /\ pc[t] \notin {"new", "up", "ended"} => \A u \in Testers \ {t} : Quiet(u)
    /\ pc[t] # "ended" => result[t] = "none"
    /\ pc[t] = "ended" => result[t] = "ok" /\ ~file[t]
    /\ pc[t] \notin {"new", "close", "ended"} => file[t]
    /\ pc[t] = "close" => (file[t] <=> cleaners[t] # NoCleaner)
    /\ pc[t] \notin {"new", "up", "close", "ended"} => maker = t /\ port = Port(t)
    /\ pc[t] \notin {"new", "up", "list", "close", "ended"} => listed[t] = t /\ host[t] = Port(t)
    /\ pc[t] \in {"query", "migrate", "seed", "ready", "use"} => accepting
    /\ pc[t] \in {"list", "ping", "slept", "query", "migrate"} => data = "empty"
    /\ pc[t] = "seed" => data = "migrated"

AloneInv == TypeInv /\ \A t \in Testers : AloneFacts(t)

LEMMA AloneInit == Init => AloneInv
<1> SUFFICES ASSUME Init, NEW t \in Testers PROVE AloneFacts(t)
  BY TypeInit DEF AloneInv
<1>1. pc[t] = "new" /\ result[t] = "none"
  BY DEF Init
<1>2. QED
  BY <1>1 DEF AloneFacts

\* A test that was troubled remains so.
LEMMA TroubleStays ==
  ASSUME NEW t \in Testers, Step(t)
  PROVE  faults \subseteq faults' /\ crowded \subseteq crowded'
<1>1. CASE New(t) \/ List(t)
  BY <1>1 DEF New, List, Fault
<1>2. CASE Up(t)
  BY <1>2 DEF Up, BringUp, Fault
<1>3. CASE NewDatabase(t)
  BY <1>3 DEF NewDatabase, Ping, PingAgain, Query, Migrate, Seed, CloseDatabase, Fault
<1>4. CASE WaitForHealthy(t) \/ Use(t)
  BY <1>4 DEF WaitForHealthy, Use, Fault
<1>5. CASE Close(t)
  BY <1>5 DEF Close, RunCleaner, Closed, Fault
<1>6. QED
  BY <1>1, <1>2, <1>3, <1>4, <1>5 DEF Step

\* The steps of an untroubled test: nothing that it meets makes it give up.
LEMMA AloneStep ==
  ASSUME AloneInv, NEW t \in Testers, Step(t), Untroubled(t)'
  PROVE  AloneFacts(t)'
<1>0. /\ TypeInv /\ pc \in [Testers -> Steps] /\ listed \in [Testers -> Testers \cup {Nobody}]
      /\ host \in [Testers -> {5432, 55432}] /\ maker \in Testers \cup {Nobody}
      /\ result \in [Testers -> Results]
      /\ cleaners \in [Testers -> {NoCleaner, FileCleaner, AllCleaners}]
      /\ pc[t] \in Steps \ {"new", "up", "close", "ended"} => cleaners[t] = AllCleaners
      /\ CleanerFacts(t) /\ t # Nobody
  BY TestersAssumption DEF AloneInv, TypeInv, TypeOK, Testers
<1>1. file \in [Testers -> BOOLEAN]
  BY DEF AloneInv, TypeInv, TypeOK
<1>2. Untroubled(t) /\ AloneFacts(t) /\ ~Fault(t)
  BY TroubleStays DEF Untroubled, AloneInv, Fault
<1>3. \A u \in Testers \ {t} : Quiet(u) => Quiet(u)'
  BY <1>0, OthersKept DEF Quiet
<1>4. CASE New(t)
  <2>1. pc'[t] = "up" /\ result'[t] = result[t] /\ pc[t] = "new"
    BY <1>0, <1>2, <1>4 DEF New, GoTo
  <2>2. file'[t]
    BY <1>1, <1>2, <1>4 DEF New
  <2>3. QED
    BY <1>2, <2>1, <2>2 DEF AloneFacts
<1>5. CASE Up(t)
  <2>1. /\ pc[t] = "up" /\ BringUp(t) /\ pc'[t] = "list" /\ result'[t] = result[t] /\ file' = file
    BY <1>0, <1>2, <1>5 DEF Up, GoTo
  <2>2. maker = Nobody /\ Holding = {}
    BY <2>1 DEF BringUp, Untroubled
  <2>3. maker' = t /\ port' = Port(t) /\ data' = "empty"
    BY <2>1, <2>2 DEF BringUp
  <2>4. \A u \in Testers \ {t} : Quiet(u)'
    BY <1>3, <2>2 DEF Holding, Quiet
  <2>5. QED
    BY <1>2, <2>1, <2>3, <2>4 DEF AloneFacts, Port
<1>6. CASE List(t)
  <2>1. /\ pc[t] = "list" /\ pc'[t] \in {"ping", "health"} /\ result'[t] = result[t]
        /\ listed'[t] = maker /\ host'[t] = IF maker = Nobody THEN DefaultPort ELSE port
        /\ UNCHANGED <<file, cleaners, docker>>
    BY <1>0, <1>2, <1>6 DEF List, GoTo
  <2>2. QED
    BY <1>0, <1>2, <1>3, <2>1 DEF AloneFacts, Port, docker
<1>7. CASE Ping(t) \/ PingAgain(t) \/ Query(t)
  <2>1. /\ pc[t] \in {"ping", "slept", "query"} /\ result'[t] = result[t]
        /\ UNCHANGED <<file, cleaners, listed, host, docker>>
        /\ \/ pc'[t] \in {"ping", "slept"}
           \/ pc'[t] \in {"query", "migrate"} /\ Reachable(t)
    BY <1>0, <1>2, <1>7 DEF Ping, PingAgain, Query, GoTo
  <2>2. QED
    BY <1>2, <1>3, <2>1 DEF AloneFacts, Port, docker, Reachable
<1>8. CASE Migrate(t) \/ Seed(t)
  <2>1. Reachable(t)
    BY <1>0, <1>2, <1>8 DEF AloneFacts, Reachable, Migrate, Seed
  <2>2. /\ result'[t] = result[t]
        /\ UNCHANGED <<file, cleaners, listed, host, maker, port, accepting>>
        /\ \/ pc[t] = "migrate" /\ pc'[t] = "seed" /\ data' = "migrated"
           \/ pc[t] = "seed" /\ pc'[t] = "ready"
    <3>1. CASE Migrate(t)
      <4>1. pc[t] = "migrate" /\ data = "empty"
        BY <1>2, <3>1 DEF AloneFacts, Migrate
      <4>2. QED
        BY <1>0, <1>2, <2>1, <3>1, <4>1 DEF Migrate, GoTo, locals
    <3>2. CASE Seed(t)
      <4>1. pc[t] = "seed" /\ HasSchema
        BY <1>2, <3>2 DEF AloneFacts, Seed, HasSchema
      <4>2. QED
        BY <1>0, <1>2, <2>1, <3>2, <4>1 DEF Seed, GoTo, locals
    <3>3. QED
      BY <1>8, <3>1, <3>2
  <2>3. QED
    BY <1>2, <1>3, <2>2 DEF AloneFacts, Port
<1>9. CASE CloseDatabase(t) \/ Use(t)
  <2>1. CASE Use(t)
    <3>1. Reachable(t)
      BY <1>0, <1>2, <2>1 DEF AloneFacts, Reachable, Use
    <3>2. /\ pc[t] = "use" /\ pc'[t] = "close" /\ result'[t] = result[t]
          /\ UNCHANGED <<file, cleaners>>
      BY <1>0, <1>2, <2>1, <3>1 DEF Use, GoTo
    <3>3. QED
      BY <1>0, <1>2, <1>3, <3>2, CleanerOrder DEF AloneFacts, Steps
  <2>2. CASE CloseDatabase(t)
    <3>1. /\ pc[t] = "ready" /\ pc'[t] = "close" /\ result'[t] = result[t]
          /\ UNCHANGED <<file, cleaners>>
      BY <1>0, <1>2, <2>2 DEF CloseDatabase
    <3>2. QED
      BY <1>0, <1>2, <1>3, <3>1, CleanerOrder DEF AloneFacts, Steps
  <2>3. QED
    BY <1>9, <2>1, <2>2
<1>10. CASE WaitForHealthy(t)
  <2>1. maker = listed[t] /\ maker # Nobody
    BY <1>0, <1>2, <1>10 DEF AloneFacts, WaitForHealthy
  <2>2. /\ pc[t] = "health" /\ result'[t] = result[t]
        /\ UNCHANGED <<file, cleaners, listed, host, docker>>
        /\ pc'[t] = "health" \/ (pc'[t] = "use" /\ accepting)
    BY <1>0, <1>2, <1>10, <2>1 DEF WaitForHealthy, GoTo
  <2>3. QED
    BY <1>2, <1>3, <2>2 DEF AloneFacts, Port, docker
<1>11. CASE Close(t)
  <2>1. CASE Closed(t)
    <3>1. /\ pc[t] = "close" /\ pc'[t] = "ended" /\ cleaners[t] = NoCleaner /\ file' = file
          /\ result[t] = "none" => result'[t] = "ok"
      BY <1>0, <2>1 DEF Closed
    <3>2. QED
      BY <1>2, <3>1 DEF AloneFacts
  <2>2. CASE RunsRemove(t)
    <3>1. /\ pc[t] = "close" /\ pc'[t] = "close" /\ cleaners'[t] = NoCleaner
          /\ result'[t] = result[t]
      BY <1>0, <2>2 DEF RunsRemove
    <3>2. ~file'[t]
      BY <1>1, <2>2 DEF RunsRemove
    <3>3. QED
      BY <1>2, <1>3, <3>1, <3>2 DEF AloneFacts
  <2>3. CASE RunsDown(t)
    <3>1. /\ pc[t] = "close" /\ pc'[t] = "close" /\ cleaners[t] = AllCleaners
          /\ cleaners'[t] = FileCleaner /\ result'[t] = result[t] /\ file' = file
      BY <1>0, <2>3 DEF RunsDown
    <3>2. QED
      BY <1>2, <1>3, <3>1, CleanerOrder DEF AloneFacts
  <2>4. CASE CleanerFails(t)
    <3>1. pc[t] = "close" /\ cleaners[t] # NoCleaner /\ (file[t] # TRUE \/ Fault(t))
      BY <2>4 DEF CleanerFails
    <3>2. file[t] = TRUE
      BY <1>1, <1>2, <3>1 DEF AloneFacts
    <3>3. QED
      BY <1>2, <3>1, <3>2
  <2>5. QED
    BY <1>0, <1>11, <2>1, <2>2, <2>3, <2>4, CleanerRuns DEF Close, TypeInv
<1>12. QED
  BY <1>4, <1>5, <1>6, <1>7, <1>8, <1>9, <1>10, <1>11 DEF Step, NewDatabase

\* The steps of another test: it is not let in without trouble for both.
LEMMA BesideStep ==
  ASSUME AloneInv, NEW t \in Testers, NEW u \in Testers, u # t, Step(u), Untroubled(t)'
  PROVE  AloneFacts(t)'
<1>0. /\ TypeInv /\ pc \in [Testers -> Steps]
      /\ cleaners \in [Testers -> {NoCleaner, FileCleaner, AllCleaners}] /\ CleanerFacts(u)
  BY DEF AloneInv, TypeInv, TypeOK
<1>1. Untroubled(t) /\ AloneFacts(t)
  BY TroubleStays DEF Untroubled, AloneInv
<1>2. CASE pc[t] \in {"new", "up", "ended"}
  BY <1>0, <1>1, <1>2, OthersKept DEF AloneFacts
<1>3. CASE pc[t] \notin {"new", "up", "ended"}
  <2>1. Quiet(u)
    BY <1>1, <1>3 DEF AloneFacts
  <2>2. \A v \in Testers \ {t, u} : Quiet(v) => Quiet(v)'
    BY <1>0, OthersKept DEF Quiet
  <2>3. UNCHANGED docker /\ Quiet(u)'
    <3>1. CASE New(u)
      <4>1. UNCHANGED docker /\ pc'[u] \in {"up", "ended"}
        BY <1>0, <3>1 DEF New, GoTo, GiveUp
      <4>2. QED
        BY <4>1 DEF Quiet
    <3>2. CASE Up(u)
      <4>1. ~BringUp(u)
        BY <1>3 DEF BringUp, Holding, Untroubled
      <4>2. UNCHANGED <<docker, cleaners>> /\ pc[u] = "up" /\ GiveUp(u)
        BY <3>2, <4>1 DEF Up
      <4>3. pc'[u] \in {"close", "ended"} /\ cleaners'[u] = FileCleaner
        BY <1>0, <4>2 DEF GiveUp, CleanerFacts
      <4>4. QED
        BY <4>2, <4>3, CleanerOrder DEF Quiet
    <3>3. CASE Close(u)
      <4>1. pc[u] = "close" /\ cleaners[u] # AllCleaners
        BY <1>0, <2>1, <3>3, Closing DEF Quiet, TypeInv
      <4>2. CASE Closed(u)
        BY <1>0, <4>1, <4>2 DEF Closed, Quiet
      <4>3. CASE RunsRemove(u)
        BY <1>0, <4>3, CleanerOrder DEF RunsRemove, Quiet
      <4>4. CASE CleanerFails(u)
        BY <1>0, <4>1, <4>4 DEF CleanerFails, CloseFails, Quiet
      <4>5. QED
        BY <1>0, <3>3, <4>1, <4>2, <4>3, <4>4, CleanerRuns DEF Close, RunsDown, TypeInv
    <3>4. CASE List(u) \/ NewDatabase(u) \/ WaitForHealthy(u) \/ Use(u)
      BY <2>1, <3>4 DEF List, NewDatabase, Ping, PingAgain, Query, Migrate, Seed, CloseDatabase,
                        WaitForHealthy, Use, Quiet
    <3>5. QED
      BY <3>1, <3>2, <3>3, <3>4 DEF Step
  <2>4. QED
    BY <1>0, <1>1, <1>3, <2>2, <2>3, OthersKept DEF AloneFacts, docker, Port
<1>4. QED
  BY <1>2, <1>3

LEMMA AloneNext == AloneInv /\ [Next]_vars => AloneInv'
<1> SUFFICES ASSUME AloneInv, [Next]_vars, NEW t \in Testers PROVE AloneFacts(t)'
  BY TypeNext DEF AloneInv
<1> SUFFICES ASSUME Untroubled(t)' PROVE AloneFacts(t)'
  BY DEF AloneFacts
<1>1. ASSUME NEW u \in Testers, Step(u) PROVE AloneFacts(t)'
  BY <1>1, AloneStep, BesideStep
<1>2. CASE Accepts \/ UNCHANGED vars
  <2>1. /\ UNCHANGED <<pc, file, cleaners, locals, result, maker, port, data, faults, crowded>>
        /\ accepting => accepting'
    BY <1>2 DEF Accepts, vars, docker
  <2>2. \A u \in Testers : Quiet(u) => Quiet(u)'
    BY <2>1 DEF Quiet
  <2>3. QED
    BY <2>1, <2>2 DEF AloneInv, AloneFacts, Untroubled, Port, locals
<1>3. QED
  BY <1>1, <1>2 DEF Next

\* A test that has met no other one and no failure from outside ends well and
\* removes its file, however many others come and go before and after it.
THEOREM AloneMeansTidy == Spec => []AloneIsTidy
<1>1. AloneInv => AloneIsTidy
  BY DEF AloneInv, AloneFacts, AloneIsTidy, Untroubled
<1>2. QED
  BY <1>1, AloneInit, AloneNext, PTL DEF Spec

-----------------------------------------------------------------------------
(* How long a test can go on                                               *)

\* Only a test that has ended has no step left.
WorkIsBounded ==
  \A t \in Testers : /\ Work(t) \in 0..(12 + 2 * ConnectTimeout + HealthTimeout)
                     /\ Work(t) = 0 <=> pc[t] = "ended"

\* The sleep after a ping takes some time.
Attempted == \A t \in Testers : attempts[t] >= 1

LEMMA Lengths == Len(NoCleaner) = 0 /\ Len(FileCleaner) = 1 /\ Len(AllCleaners) = 2
  BY DEF NoCleaner, FileCleaner, AllCleaners

LEMMA LeftValues ==
  \A spent, limit \in Nat : /\ Left(spent, limit) \in 0..limit
                            /\ spent < limit => Left(spent, limit) = limit - spent
                            /\ ~(spent < limit) => Left(spent, limit) = 0
  BY DEF Left

LEMMA LeftFalls ==
  ASSUME NEW limit \in Nat, NEW spent \in Nat, NEW later \in Nat, spent < later
  PROVE  /\ Left(spent, limit) \in Nat /\ Left(later, limit) \in Nat
         /\ spent < limit => Left(later, limit) < Left(spent, limit)
  BY DEF Left

LEMMA EarlyWork ==
  ASSUME NEW spent \in Nat, NEW n \in 0..2
  PROVE  /\ WorkAt("new", spent, n) = 12 + 2 * ConnectTimeout + HealthTimeout
         /\ WorkAt("up", spent, n) = 11 + 2 * ConnectTimeout + HealthTimeout
         /\ WorkAt("list", spent, n) = 10 + 2 * ConnectTimeout + HealthTimeout
  BY DEF WorkAt

LEMMA WaitWork ==
  ASSUME NEW spent \in Nat, NEW n \in 0..2
  PROVE  /\ WorkAt("ping", spent, n) = 9 + 2 * Left(spent, ConnectTimeout)
         /\ spent < ConnectTimeout =>
              WorkAt("slept", spent, n) = 10 + 2 * Left(spent, ConnectTimeout)
         /\ ~(spent < ConnectTimeout) => WorkAt("slept", spent, n) = 8
         /\ WorkAt("health", spent, n) = 5 + Left(spent, HealthTimeout)
  BY DEF WorkAt

LEMMA LateWork ==
  ASSUME NEW spent \in Nat, NEW n \in 0..2
  PROVE  /\ WorkAt("query", spent, n) = 7 /\ WorkAt("migrate", spent, n) = 6
         /\ WorkAt("seed", spent, n) = 5
         /\ WorkAt("ready", spent, n) = 4 /\ WorkAt("use", spent, n) = 4
         /\ WorkAt("close", spent, n) = 1 + n /\ WorkAt("ended", spent, n) = 0
  BY DEF WorkAt

\* The work at a step is a number, and less than 4 only in Close.
LEMMA WorkRange ==
  ASSUME NEW step \in Steps, NEW spent \in Nat, NEW n \in 0..2
  PROVE  /\ WorkAt(step, spent, n) \in 0..(12 + 2 * ConnectTimeout + HealthTimeout)
         /\ WorkAt(step, spent, n) = 0 <=> step = "ended"
         /\ step \notin {"close", "ended"} => WorkAt(step, spent, n) >= 4
         /\ step \in {"close", "ended"} => WorkAt(step, spent, n) <= 3
<1>1. CASE step \in {"new", "up", "list"}
  BY <1>1, EarlyWork, TimesAssumption
<1>2. CASE step \in {"ping", "slept", "health"}
  <2>1. /\ Left(spent, ConnectTimeout) \in 0..ConnectTimeout
        /\ Left(spent, HealthTimeout) \in 0..HealthTimeout
    BY LeftValues, TimesAssumption
  <2>2. \/ WorkAt(step, spent, n) = 9 + 2 * Left(spent, ConnectTimeout)
        \/ WorkAt(step, spent, n) = 5 + Left(spent, HealthTimeout)
        \/ WorkAt(step, spent, n) = 8
        \/ WorkAt(step, spent, n) = 10 + 2 * Left(spent, ConnectTimeout)
    BY <1>2, WaitWork
  <2>3. step \notin {"close", "ended"}
    BY <1>2
  <2>4. QED
    BY <2>1, <2>2, <2>3, TimesAssumption
<1>3. CASE step \in {"query", "migrate", "seed", "ready", "use", "close", "ended"}
  BY <1>3, LateWork, TimesAssumption
<1>4. QED
  BY <1>1, <1>2, <1>3 DEF Steps

\* What the work of a test is made of.
LEMMA WorkParts ==
  ASSUME TypeInv, NEW t \in Testers
  PROVE  /\ pc \in [Testers -> Steps] /\ elapsed \in [Testers -> Nat]
         /\ cleaners \in [Testers -> {NoCleaner, FileCleaner, AllCleaners}]
         /\ pc[t] \in Steps /\ elapsed[t] \in Nat /\ Len(cleaners[t]) \in 0..2
<1>1. cleaners[t] \in {NoCleaner, FileCleaner, AllCleaners}
  BY DEF TypeInv, TypeOK
<1>2. QED
  BY <1>1, Lengths DEF TypeInv, TypeOK

LEMMA WorkNumber ==
  ASSUME NEW step \in Steps, NEW spent \in Nat, NEW n \in 0..2
  PROVE  WorkAt(step, spent, n) \in Int
<1>1. WorkAt(step, spent, n) \in 0..(12 + 2 * ConnectTimeout + HealthTimeout)
  BY WorkRange
<1>2. QED
  BY <1>1

LEMMA PartsHold == TypeInv => \A t \in Testers :
                     pc[t] \in Steps /\ elapsed[t] \in Nat /\ Len(cleaners[t]) \in 0..2
  BY WorkParts

LEMMA PartsKept == TypeInv /\ [Next]_vars => \A t \in Testers :
                     pc'[t] \in Steps /\ elapsed'[t] \in Nat /\ Len(cleaners'[t]) \in 0..2
<1> SUFFICES ASSUME TypeInv, [Next]_vars, NEW t \in Testers
             PROVE  pc'[t] \in Steps /\ elapsed'[t] \in Nat /\ Len(cleaners'[t]) \in 0..2
  OBVIOUS
<1>1. TypeInv'
  BY TypeNext
<1>2. cleaners'[t] \in {NoCleaner, FileCleaner, AllCleaners}
  BY <1>1 DEF TypeInv, TypeOK
<1>3. QED
  BY <1>1, <1>2, Lengths DEF TypeInv, TypeOK

LEMMA WorkBounded == TypeInv => WorkIsBounded
  BY PartsHold, WorkRange DEF WorkIsBounded, Work

\* The steps of the waits: each ping and sleep takes time, and with no time left
\* StatusCheck goes on or gives up.
LEMMA WorkPing ==
  ASSUME NEW spent \in Nat, NEW later \in Nat, NEW n \in 0..2, NEW m \in 0..2, spent < later
  PROVE  /\ WorkAt("slept", later, m) < WorkAt("ping", spent, n)
         /\ spent < HealthTimeout => WorkAt("health", later, m) < WorkAt("health", spent, n)
<1>1. /\ Left(spent, ConnectTimeout) \in Nat /\ Left(later, ConnectTimeout) \in Nat
      /\ spent < ConnectTimeout => Left(later, ConnectTimeout) < Left(spent, ConnectTimeout)
  BY LeftFalls, TimesAssumption
<1>2. later < ConnectTimeout => Left(later, ConnectTimeout) < Left(spent, ConnectTimeout)
  BY <1>1, TimesAssumption
<1>3. /\ Left(spent, HealthTimeout) \in Nat /\ Left(later, HealthTimeout) \in Nat
      /\ spent < HealthTimeout => Left(later, HealthTimeout) < Left(spent, HealthTimeout)
  BY LeftFalls, TimesAssumption
<1>4. WorkAt("slept", later, m) < WorkAt("ping", spent, n)
  BY <1>1, <1>2, WaitWork
<1>5. spent < HealthTimeout => WorkAt("health", later, m) < WorkAt("health", spent, n)
  BY <1>3, WaitWork
<1>6. QED
  BY <1>4, <1>5

\* With time left a sleep is followed by another ping.
LEMMA WorkAgain ==
  ASSUME NEW spent \in Nat, NEW n \in 0..2, NEW m \in 0..2, spent < ConnectTimeout
  PROVE  WorkAt("ping", spent, m) < WorkAt("slept", spent, n)
<1>1. Left(spent, ConnectTimeout) \in Nat
  BY LeftValues, TimesAssumption
<1>2. QED
  BY <1>1, WaitWork

\* The steps between the waits.
LEMMA WorkOn ==
  ASSUME NEW spent \in Nat, NEW later \in Nat, NEW n \in 0..2, NEW m \in 0..2
  PROVE  /\ WorkAt("up", later, m) < WorkAt("new", spent, n)
         /\ WorkAt("list", later, m) < WorkAt("up", spent, n)
         /\ WorkAt("ping", later, m) < WorkAt("list", spent, n)
         /\ WorkAt("health", later, m) < WorkAt("list", spent, n)
         /\ WorkAt("query", later, m) < WorkAt("ping", spent, n)
         /\ WorkAt("migrate", later, m) < WorkAt("query", spent, n)
         /\ WorkAt("seed", later, m) < WorkAt("migrate", spent, n)
         /\ WorkAt("ready", later, m) < WorkAt("seed", spent, n)
         /\ WorkAt("use", later, m) < WorkAt("health", spent, n)
         /\ m < n => WorkAt("close", later, m) < WorkAt("close", spent, n)
         /\ WorkAt("ended", later, m) < WorkAt("close", spent, n)
<1>1. /\ Left(later, ConnectTimeout) \in 0..ConnectTimeout
      /\ Left(later, HealthTimeout) \in 0..HealthTimeout
      /\ Left(spent, HealthTimeout) \in 0..HealthTimeout
  BY LeftValues, TimesAssumption
<1>2. WorkAt("up", later, m) < WorkAt("new", spent, n)
  BY EarlyWork, TimesAssumption
<1>3. WorkAt("list", later, m) < WorkAt("up", spent, n)
  BY EarlyWork, TimesAssumption
<1>4. /\ WorkAt("ping", later, m) < WorkAt("list", spent, n)
      /\ WorkAt("health", later, m) < WorkAt("list", spent, n)
  BY <1>1, EarlyWork, WaitWork, TimesAssumption
<1>5. WorkAt("use", later, m) < WorkAt("health", spent, n)
  BY <1>1, WaitWork, LateWork, TimesAssumption
<1>6. WorkAt("query", later, m) < WorkAt("ping", spent, n)
  <2>1. Left(spent, ConnectTimeout) \in 0..ConnectTimeout
    BY LeftValues, TimesAssumption
  <2>2. QED
    BY <2>1, WaitWork, LateWork, TimesAssumption
<1>7. QED
  BY <1>2, <1>3, <1>4, <1>5, <1>6, LateWork

\* A step that gives up leaves at most the cleaners to run, and so does the end of
\* the wait or of the tests.
LEMMA WorkLeaves ==
  ASSUME NEW step \in Steps \ {"close", "ended"}, NEW last \in {"close", "ended"},
         NEW spent \in Nat, NEW later \in Nat, NEW n \in 0..2, NEW m \in 0..2
  PROVE  WorkAt(last, later, m) < WorkAt(step, spent, n)
<1>1. WorkAt(step, spent, n) >= 4 /\ WorkAt(step, spent, n) \in Int
  BY WorkRange
<1>2. WorkAt(last, later, m) <= 3 /\ WorkAt(last, later, m) \in Int
  <2>1. last \in Steps
    BY DEF Steps
  <2>2. WorkAt(last, later, m) <= 3
    BY <2>1, WorkRange
  <2>3. WorkAt(last, later, m) \in 0..(12 + 2 * ConnectTimeout + HealthTimeout)
    BY <2>1, WorkRange
  <2>4. QED
    BY <2>2, <2>3
<1>3. QED
  BY <1>1, <1>2

LEMMA WorkStep ==
  ASSUME TypeInv, Attempted, NEW t \in Testers, Step(t)
  PROVE  Work(t)' < Work(t)
<1>0. /\ pc \in [Testers -> Steps] /\ elapsed \in [Testers -> Nat]
      /\ attempts \in [Testers -> Nat]
      /\ cleaners \in [Testers -> {NoCleaner, FileCleaner, AllCleaners}]
  BY DEF TypeInv, TypeOK
<1>1. /\ pc[t] \in Steps /\ elapsed[t] \in Nat /\ Len(cleaners[t]) \in 0..2
      /\ pc'[t] \in Steps /\ elapsed'[t] \in Nat /\ Len(cleaners'[t]) \in 0..2
  BY PartsHold, PartsKept DEF Next
<1> SUFFICES WorkAt(pc'[t], elapsed'[t], Len(cleaners'[t]))
               < WorkAt(pc[t], elapsed[t], Len(cleaners[t]))
  BY DEF Work
<1>2. CASE Close(t)
  <2>1. pc[t] = "close"
    BY <1>2, Closing DEF TypeInv
  <2>2. CASE Closed(t) \/ CleanerFails(t)
    <3>1. pc'[t] = "ended"
      BY <1>0, <2>2 DEF Closed, CleanerFails, CloseFails
    <3>2. QED
      BY <1>1, <2>1, <3>1, WorkOn
  <2>3. CASE RunsRemove(t) \/ RunsDown(t)
    <3>1. /\ pc'[t] = "close"
          /\ \/ cleaners[t] = AllCleaners /\ cleaners'[t] = FileCleaner
             \/ cleaners[t] = FileCleaner /\ cleaners'[t] = NoCleaner
      BY <1>0, <2>1, <2>3 DEF RunsRemove, RunsDown
    <3>2. Len(cleaners'[t]) < Len(cleaners[t])
      <4>1. CASE cleaners[t] = AllCleaners /\ cleaners'[t] = FileCleaner
        <5>1. Len(cleaners[t]) = 2 /\ Len(cleaners'[t]) = 1
          BY <4>1, Lengths
        <5>2. QED
          BY <5>1
      <4>2. CASE cleaners[t] = FileCleaner /\ cleaners'[t] = NoCleaner
        <5>1. Len(cleaners[t]) = 1 /\ Len(cleaners'[t]) = 0
          BY <4>2, Lengths
        <5>2. QED
          BY <5>1
      <4>3. QED
        BY <3>1, <4>1, <4>2
    <3>3. QED
      BY <1>1, <2>1, <3>1, <3>2, WorkOn
  <2>4. QED
    BY <1>2, <2>2, <2>3, CleanerRuns DEF Close, TypeInv
<1>3. CASE ~Close(t) /\ (GiveUp(t) \/ CloseDatabase(t) \/ Use(t))
  <2>1. pc'[t] \in {"close", "ended"}
    BY <1>0, <1>3, GivenUp DEF CloseDatabase, Use, GoTo, TypeInv
  <2>2. pc[t] \in Steps \ {"close", "ended"}
    BY <1>1, <1>3 DEF Step, New, Up, List, NewDatabase, Ping, PingAgain, Query, Migrate, Seed,
                      CloseDatabase, WaitForHealthy, Use
  <2>3. QED
    BY <1>1, <2>1, <2>2, WorkLeaves
<1>4. CASE Ping(t)
  <2>1. PICK d \in 0..PingTime :
          \/ pc'[t] = "query" /\ elapsed'[t] = elapsed[t] + d
          \/ pc'[t] = "slept" /\ elapsed'[t] = elapsed[t] + d + attempts[t]
    BY <1>0, <1>4 DEF Ping, GoTo, Wait
  <2>2. pc[t] = "ping" /\ d \in Nat /\ attempts[t] \in Nat /\ attempts[t] >= 1
    BY <1>0, <1>4, TimesAssumption DEF Ping, Attempted
  <2>3. CASE pc'[t] = "query"
    BY <1>1, <2>2, <2>3, WorkOn
  <2>4. CASE pc'[t] = "slept"
    <3>1. elapsed[t] < elapsed'[t]
      BY <1>1, <2>1, <2>2, <2>4
    <3>2. QED
      BY <1>1, <2>2, <2>4, <3>1, WorkPing
  <2>5. QED
    BY <2>1, <2>3, <2>4
<1>5. CASE PingAgain(t) /\ ~GiveUp(t)
  <2>1. /\ pc[t] = "slept" /\ pc'[t] = "ping"
        /\ elapsed[t] < ConnectTimeout /\ elapsed'[t] = elapsed[t]
    BY <1>0, <1>5 DEF PingAgain, GoTo
  <2>2. QED
    BY <1>1, <2>1, WorkAgain
<1>6. CASE WaitForHealthy(t) /\ ~GiveUp(t)
  <2>1. /\ pc[t] = "health" /\ elapsed[t] < HealthTimeout
        /\ pc'[t] = "use" \/ (pc'[t] = "health" /\ elapsed'[t] = elapsed[t] + 5)
    BY <1>0, <1>6 DEF WaitForHealthy, GoTo, waitInterval
  <2>2. CASE pc'[t] = "use"
    BY <1>1, <2>1, <2>2, WorkOn
  <2>3. CASE pc'[t] = "health" /\ elapsed'[t] = elapsed[t] + 5
    <3>1. elapsed[t] < elapsed'[t]
      BY <1>1, <2>3
    <3>2. QED
      BY <1>1, <2>1, <2>3, <3>1, WorkPing
  <2>4. QED
    BY <2>1, <2>2, <2>3
<1>7. CASE ~GiveUp(t) /\ (New(t) \/ Up(t) \/ List(t) \/ Query(t) \/ Migrate(t) \/ Seed(t))
  <2>1. \/ pc[t] = "new" /\ pc'[t] = "up"
        \/ pc[t] = "up" /\ pc'[t] = "list"
        \/ pc[t] = "list" /\ pc'[t] \in {"ping", "health"}
        \/ pc[t] = "query" /\ pc'[t] = "migrate"
        \/ pc[t] = "migrate" /\ pc'[t] = "seed"
        \/ pc[t] = "seed" /\ pc'[t] = "ready"
    BY <1>0, <1>7 DEF New, Up, List, Query, Migrate, Seed, GoTo
  <2>2. QED
    BY <1>1, <2>1, WorkOn
<1>8. QED
  BY <1>2, <1>3, <1>4, <1>5, <1>6, <1>7 DEF Step, NewDatabase

LEMMA AttemptedNext == TypeInv /\ Attempted /\ [Next]_vars => Attempted'
<1> SUFFICES ASSUME TypeInv, Attempted, [Next]_vars, NEW u \in Testers PROVE attempts'[u] >= 1
  BY DEF Attempted
<1>0. attempts \in [Testers -> Nat] /\ attempts[u] >= 1
  BY DEF TypeInv, TypeOK, Attempted
<1>1. ASSUME NEW t \in Testers, Step(t) PROVE attempts'[u] >= 1
  <2>1. CASE u # t
    BY <1>0, <1>1, <2>1, OthersKept
  <2>2. CASE u = t
    <3>1. \/ attempts' = attempts
          \/ attempts' = [attempts EXCEPT ![t] = 1]
          \/ attempts' = [attempts EXCEPT ![t] = @ + 1]
      <4>1. CASE New(t) \/ Up(t) \/ List(t)
        BY <4>1 DEF New, Up, List, GiveUp, Forget, locals
      <4>2. CASE NewDatabase(t)
        BY <4>2 DEF NewDatabase, Ping, PingAgain, Query, Migrate, Seed, CloseDatabase, GiveUp,
                    Forget, locals
      <4>3. CASE WaitForHealthy(t) \/ Use(t)
        BY <4>3 DEF WaitForHealthy, Use, GiveUp, Forget, locals
      <4>4. CASE Close(t)
        BY <4>4 DEF Close, RunCleaner, Closed, locals
      <4>5. QED
        BY <1>1, <4>1, <4>2, <4>3, <4>4 DEF Step
    <3>2. QED
      BY <1>0, <2>2, <3>1
  <2>3. QED
    BY <2>1, <2>2
<1>2. CASE Accepts \/ UNCHANGED vars
  BY <1>0, <1>2 DEF Accepts, vars, locals
<1>3. QED
  BY <1>1, <1>2 DEF Next

LEMMA WorkNext == TypeInv /\ Attempted /\ [Next]_vars => Shortens
<1> SUFFICES ASSUME TypeInv, Attempted, [Next]_vars, NEW t \in Testers
             PROVE  Work(t)' <= Work(t) /\ (Step(t) => Work(t)' < Work(t))
  BY DEF Shortens
<1>0. Work(t) \in Int
  BY WorkBounded DEF WorkIsBounded
<1>1. CASE Step(t)
  <2>1. pc'[t] \in Steps /\ elapsed'[t] \in Nat /\ Len(cleaners'[t]) \in 0..2
    BY PartsKept
  <2>2. Work(t)' \in Int
    <3>1. WorkAt(pc'[t], elapsed'[t], Len(cleaners'[t])) \in Int
      BY <2>1, WorkNumber
    <3>2. QED
      BY <3>1 DEF Work
  <2>3. Work(t)' < Work(t)
    BY <1>1, WorkStep
  <2>4. QED
    BY <1>0, <2>2, <2>3
<1>2. CASE ~Step(t)
  <2>1. pc'[t] = pc[t] /\ cleaners'[t] = cleaners[t] /\ elapsed'[t] = elapsed[t]
    <3>1. ASSUME NEW u \in Testers, Step(u) PROVE u # t
      BY <1>2, <3>1
    <3>2. CASE Accepts \/ UNCHANGED vars
      BY <3>2 DEF Accepts, vars, locals
    <3>3. QED
      BY <3>1, <3>2, OthersKept DEF Next
  <2>2. Work(t)' = Work(t)
    BY <2>1 DEF Work
  <2>3. QED
    BY <1>0, <1>2, <2>2
<1>3. QED
  BY <1>1, <1>2

\* Every test runs out of steps: it takes no more of them than the two timeouts
\* allow, however the container, the pings and the other tests behave.
THEOREM StepsAreBounded == Spec => StepsRunOut /\ []WorkIsBounded
<1>1. Init => Attempted
  BY DEF Init, Attempted
<1>2. Spec => [](TypeInv /\ Attempted)
  BY <1>1, TypeInit, TypeNext, AttemptedNext, PTL DEF Spec
<1>3. QED
  BY <1>2, WorkBounded, WorkNext, PTL DEF Spec, StepsRunOut
=============================================================================
