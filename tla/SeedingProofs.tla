--------------------------- MODULE SeedingProofs ----------------------------
(***************************************************************************)
(* Theorems about Seeding, for any number of pods, migrations and          *)
(* failures.  The schema and the seed are argued for separately: where a   *)
(* pod is tells how far the schema is, and what rows it has inserted.      *)
(***************************************************************************)
EXTENDS Seeding, TLAPS

\* Steps that come after a complete migration.
Seeds == {"connectToSeed", "test", "hosein", "parisa", "rest", "serving"}

\* The pod at work has marked the schema; one that seeds has found it complete.
SchemaAt(p) ==
  /\ At(p, "run") => dirty /\ tables = 1..(version - 1)
  /\ At(p, "clean") => dirty /\ tables = 1..version
  /\ pc[p] \in Seeds => version = Last /\ ~dirty

SchemaInv == TypeOK /\ SchemaTold /\ \A p \in Pods : SchemaAt(p)

\* One pod at most has inserted its first row, with no user committed; it has
\* drawn one id for each of its rows.
SeedAt(p) ==
  /\ HoldsHosein(p) => users = {} /\ \A q \in Pods : HoldsHosein(q) => p = q
  /\ pc[p] \in {"hosein", "parisa"} => \A i, j \in ids[p] : i = j
  /\ At(p, "rest") => \E i, j \in 1..Beyond : ids[p] = {i, j}
  /\ At(p, "serving") => users # {}

SeedInv == TypeOK /\ SeedWhole /\ \A p \in Pods : SeedAt(p)

-----------------------------------------------------------------------------
(* Types                                                                   *)

LEMMA TypeInit == Init => TypeOK
<1> SUFFICES ASSUME Init PROVE TypeOK
  OBVIOUS
<1>1. pc \in [Pods -> Steps] /\ \A p \in Pods : pc[p] = "down"
  BY DEF Init, Steps
<1>2. holder = {p \in Pods : pc[p] \in {"locked", "run", "clean"}}
  BY <1>1 DEF Init
<1>3. ids \in [Pods -> SUBSET (1..Beyond)] /\ \A p \in Pods : ids[p] = {}
  BY DEF Init
<1>4. version \in 0..Last /\ lastId \in 0..Beyond /\ failures \in 0..MaxFailures
  BY LastAssumption, MaxFailuresAssumption DEF Init, Beyond
<1>5. QED
  BY <1>1, <1>2, <1>3, <1>4 DEF Init, TypeOK

\* Every step keeps the types: the lock goes with the places that hold it.
LEMMA TypeStep == TypeOK /\ [Next]_vars => TypeOK'
<1> SUFFICES ASSUME TypeOK, [Next]_vars PROVE TypeOK'
  OBVIOUS
<1> USE LastAssumption, MaxFailuresAssumption
    DEF TypeOK, At, GoTo, Steps, Beyond, schema, data
<1>1. ASSUME NEW p \in Pods, MigrateUp(p) PROVE TypeOK'
  <2>1. CASE Start(p)
    BY <2>1 DEF Start
  <2>2. CASE StatusCheck(p)
    BY <2>2 DEF StatusCheck
  <2>3. CASE Lock(p)
    BY <2>3 DEF Lock
  <2>4. CASE RefuseDirty(p)
    BY <2>4 DEF RefuseDirty
  <2>5. CASE MarkDirty(p)
    BY <2>5 DEF MarkDirty
  <2>6. CASE RunMigration(p)
    BY <2>6 DEF RunMigration
  <2>7. CASE MarkClean(p)
    BY <2>7 DEF MarkClean
  <2>8. CASE MigrateUpDone(p)
    BY <2>8 DEF MigrateUpDone
  <2>9. QED
    BY <1>1, <2>1, <2>2, <2>3, <2>4, <2>5, <2>6, <2>7, <2>8 DEF MigrateUp
<1>2. ASSUME NEW p \in Pods, Seed(p) PROVE TypeOK'
  <2>1. CASE SeedTest(p)
    BY <2>1 DEF SeedTest
  <2>2. CASE DrawHosein(p)
    BY <2>2 DEF DrawHosein, Draw
  <2>3. CASE InsertHosein(p)
    BY <2>3 DEF InsertHosein
  <2>4. CASE InsertParisa(p)
    BY <2>4 DEF InsertParisa, Draw
  <2>5. CASE InsertRest(p)
    BY <2>5 DEF InsertRest
  <2>6. QED
    BY <1>2, <2>1, <2>2, <2>3, <2>4, <2>5 DEF Seed
<1>3. ASSUME NEW p \in Pods, Fails(p) PROVE TypeOK'
  BY <1>3 DEF Fails
<1>4. ASSUME NEW p \in Pods, AnswerLost(p) PROVE TypeOK'
  <2>1. /\ pc[p] = "rest" /\ failures' = failures + 1 /\ failures < MaxFailures
        /\ users' = users \cup ids[p] /\ ids' = [ids EXCEPT ![p] = {}]
        /\ pc' = [pc EXCEPT ![p] = "down"] /\ UNCHANGED <<holder, schema, lastId>>
    BY <1>4 DEF AnswerLost
  <2>2. failures' \in 0..MaxFailures
    BY <2>1
  <2>3. users' \subseteq 1..Beyond
    <3>1. ids[p] \subseteq 1..3 /\ users \subseteq 1..3
      OBVIOUS
    <3>2. QED
      BY <2>1, <3>1
  <2>4. holder' = {q \in Pods : pc'[q] \in {"locked", "run", "clean"}}
    BY <2>1
  <2>5. QED
    BY <2>1, <2>2, <2>3, <2>4
<1>5. CASE UNCHANGED vars
  BY <1>5 DEF vars
<1>6. QED
  BY <1>1, <1>2, <1>3, <1>4, <1>5 DEF Next

\* TypeOK: transactions are open only while a pod seeds, and the lock is held
\* by one pod at most, whatever fails.
THEOREM SeedingTypes == Spec => []TypeOK
<1>1. QED
  BY TypeInit, TypeStep, PTL DEF Spec

-----------------------------------------------------------------------------
(* The schema                                                              *)

LEMMA SchemaInit == Init => SchemaInv
<1> SUFFICES ASSUME Init PROVE SchemaInv
  OBVIOUS
<1>1. SchemaTold
  BY DEF Init, SchemaTold
<1>2. \A p \in Pods : SchemaAt(p)
  BY DEF Init, SchemaAt, At, Seeds
<1>3. QED
  BY <1>1, <1>2, TypeInit DEF SchemaInv

\* Steps that leave the schema alone keep the invariant: none but those of the
\* pod with the lock lead to a place where it says more.
LEMMA SchemaQuiet ==
  ASSUME SchemaInv, TypeOK', UNCHANGED schema, NEW p \in Pods,
         \A q \in Pods \ {p} : pc'[q] = pc[q],
         pc'[p] \in {"run", "clean"} => pc'[p] = pc[p],
         pc'[p] \in Seeds => pc[p] \in Seeds \/ (version = Last /\ ~dirty)
  PROVE  SchemaInv'
<1>1. SchemaTold'
  BY DEF SchemaInv, SchemaTold, schema
<1>2. ASSUME NEW q \in Pods PROVE SchemaAt(q)'
  <2>1. CASE q = p
    BY <2>1 DEF SchemaInv, SchemaAt, At, schema
  <2>2. CASE q # p
    BY <2>2 DEF SchemaInv, SchemaAt, At, schema
  <2>3. QED
    BY <2>1, <2>2
<1>3. QED
  BY <1>1, <1>2 DEF SchemaInv

\* A pod with the lock is alone in the places that need it.
LEMMA AloneWithLock ==
  ASSUME TypeOK, NEW p \in Pods, pc[p] \in {"locked", "run", "clean"},
         NEW q \in Pods, q # p
  PROVE  pc[q] \notin {"locked", "run", "clean"}
  BY DEF TypeOK

\* While the schema is dirty, or not yet complete, no pod seeds.
LEMMA SchemaMoves ==
  ASSUME SchemaInv, TypeOK', NEW p \in Pods,
         MarkDirty(p) \/ RunMigration(p) \/ MarkClean(p)
  PROVE  SchemaInv'
<1> USE LastAssumption DEF At, GoTo
<1>1. TypeOK /\ SchemaTold /\ SchemaAt(p)
  BY DEF SchemaInv
<1>2. pc[p] \in {"locked", "run", "clean"} /\ (dirty \/ version # Last)
  BY <1>1, LastAssumption DEF MarkDirty, RunMigration, MarkClean, SchemaAt, TypeOK
<1>3. \A q \in Pods \ {p} : pc'[q] = pc[q]
  BY <1>1 DEF MarkDirty, RunMigration, MarkClean, TypeOK
<1>4. ASSUME NEW q \in Pods \ {p} PROVE SchemaAt(q)'
  <2>1. pc[q] \notin {"run", "clean"} /\ pc[q] \notin Seeds
    BY <1>1, <1>2, AloneWithLock DEF SchemaInv, SchemaAt
  <2>2. QED
    BY <1>3, <2>1 DEF SchemaAt
<1>5. SchemaTold' /\ SchemaAt(p)'
  <2>1. CASE MarkDirty(p)
    <3>1. /\ version \in Nat /\ version' = version + 1 /\ dirty' /\ tables' = tables
          /\ tables = 1..version /\ pc'[p] = "run"
      BY <1>1, <2>1 DEF MarkDirty, SchemaTold, TypeOK
    <3>2. version' - 1 = version /\ version' > 0
      BY <3>1
    <3>3. QED
      BY <3>1, <3>2 DEF SchemaTold, SchemaAt, Seeds
  <2>2. CASE RunMigration(p)
    <3>1. /\ version \in Nat /\ version > 0 /\ version' = version /\ dirty /\ dirty' = dirty
          /\ tables = 1..(version - 1) /\ tables' = tables \cup {version} /\ pc'[p] = "clean"
      BY <1>1, <2>2, LastAssumption DEF RunMigration, SchemaAt, TypeOK
    <3>2. tables' = 1..version
      BY <3>1
    <3>3. QED
      BY <3>1, <3>2 DEF SchemaTold, SchemaAt, Seeds
  <2>3. CASE MarkClean(p)
    <3>1. version' = version /\ ~dirty' /\ tables = 1..version /\ tables' = tables /\ pc'[p] = "locked"
      BY <1>1, <2>3 DEF MarkClean, SchemaAt, TypeOK
    <3>2. QED
      BY <3>1 DEF SchemaTold, SchemaAt, Seeds
  <2>4. QED
    BY <2>1, <2>2, <2>3
<1>6. QED
  BY <1>4, <1>5 DEF SchemaInv

LEMMA SchemaStep == SchemaInv /\ [Next]_vars => SchemaInv'
<1> SUFFICES ASSUME SchemaInv, [Next]_vars PROVE SchemaInv'
  OBVIOUS
<1>1. TypeOK /\ TypeOK'
  BY TypeStep DEF SchemaInv
<1>2. ASSUME NEW p \in Pods, MigrateUp(p) PROVE SchemaInv'
  <2>1. CASE MarkDirty(p) \/ RunMigration(p) \/ MarkClean(p)
    BY <1>1, <2>1, SchemaMoves
  <2>2. CASE Start(p) \/ StatusCheck(p) \/ Lock(p) \/ RefuseDirty(p) \/ MigrateUpDone(p)
    <3>1. /\ UNCHANGED schema
          /\ \A q \in Pods \ {p} : pc'[q] = pc[q]
          /\ pc'[p] \notin {"run", "clean"}
          /\ pc'[p] \in Seeds => pc[p] \in Seeds \/ (version = Last /\ ~dirty)
      BY <1>1, <2>2 DEF Start, StatusCheck, Lock, RefuseDirty, MigrateUpDone, TypeOK, At, GoTo, Seeds
    <3>2. QED
      BY <1>1, <3>1, SchemaQuiet
  <2>3. QED
    BY <1>2, <2>1, <2>2 DEF MigrateUp
<1>3. ASSUME NEW p \in Pods, Seed(p) \/ Fails(p) \/ AnswerLost(p) PROVE SchemaInv'
  <2>1. /\ UNCHANGED schema
        /\ \A q \in Pods \ {p} : pc'[q] = pc[q]
        /\ pc'[p] \notin {"run", "clean"}
        /\ pc'[p] \in Seeds => pc[p] \in Seeds
    BY <1>1, <1>3 DEF Seed, SeedTest, DrawHosein, InsertHosein, InsertParisa, InsertRest, Fails,
                      AnswerLost, TypeOK, At, GoTo, Seeds
  <2>2. QED
    BY <1>1, <2>1, SchemaQuiet
<1>4. CASE UNCHANGED vars
  BY <1>1, <1>4 DEF vars, schema, SchemaInv, SchemaTold, SchemaAt, At
<1>5. QED
  BY <1>2, <1>3, <1>4 DEF Next

LEMMA SchemaHolds == Spec => []SchemaInv
  BY SchemaInit, SchemaStep, PTL DEF Spec

\* SchemaTold: no crash between two steps of a migration leaves a schema that
\* claims more than it has.
THEOREM SchemaIsTold == Spec => []SchemaTold
<1>1. SchemaInv => SchemaTold
  BY DEF SchemaInv
<1>2. QED
  BY <1>1, SchemaHolds, PTL

-----------------------------------------------------------------------------
(* The seed                                                                *)

LEMMA SeedInit == Init => SeedInv
<1> SUFFICES ASSUME Init PROVE SeedInv
  OBVIOUS
<1>1. \A p \in Pods : SeedAt(p)
  BY DEF Init, SeedAt, HoldsHosein, At
<1>2. QED
  BY <1>1, TypeInit DEF SeedInv, SeedWhole, Init

\* What holds of a pod that does not move is kept while no other inserts its
\* first row and no user is committed, unless the one that held the row does.
LEMMA SeedOthers ==
  ASSUME SeedInv, TypeOK', NEW p \in Pods,
         \A q \in Pods \ {p} : pc'[q] = pc[q] /\ ids'[q] = ids[q],
         HoldsHosein(p)' => HoldsHosein(p) \/ \A q \in Pods : ~HoldsHosein(q),
         users' = users \/ (HoldsHosein(p) /\ users' # {})
  PROVE  \A q \in Pods \ {p} : SeedAt(q)'
<1> SUFFICES ASSUME NEW q \in Pods \ {p} PROVE SeedAt(q)'
  OBVIOUS
<1>1. pc'[q] = pc[q] /\ ids'[q] = ids[q] /\ SeedAt(q) /\ SeedAt(p)
  BY DEF SeedInv
<1>2. ASSUME HoldsHosein(q)' PROVE users' = {} /\ \A r \in Pods : HoldsHosein(r)' => q = r
  <2>1. HoldsHosein(q) /\ users = {} /\ ~HoldsHosein(p)
    BY <1>1, <1>2 DEF HoldsHosein, SeedAt
  <2>2. ~HoldsHosein(p)' /\ users' = {}
    BY <2>1
  <2>3. ASSUME NEW r \in Pods, HoldsHosein(r)' PROVE q = r
    <3>1. r # p
      BY <2>2, <2>3
    <3>2. HoldsHosein(r)
      BY <2>3, <3>1 DEF HoldsHosein
    <3>3. QED
      BY <1>1, <2>1, <3>2 DEF SeedAt
  <2>4. QED
    BY <2>2, <2>3
<1>3. QED
  BY <1>1, <1>2 DEF SeedAt, At

LEMMA SeedStep == SeedInv /\ [Next]_vars => SeedInv'
<1> SUFFICES ASSUME SeedInv, [Next]_vars PROVE SeedInv'
  OBVIOUS
<1>1. TypeOK /\ TypeOK' /\ SeedWhole /\ \A q \in Pods : SeedAt(q)
  BY TypeStep DEF SeedInv
<1>2. ASSUME NEW p \in Pods, MigrateUp(p) \/ Fails(p) PROVE SeedInv'
  <2>1. /\ users' = users
        /\ \A q \in Pods \ {p} : pc'[q] = pc[q] /\ ids'[q] = ids[q]
        /\ pc'[p] \notin {"hosein", "parisa", "rest", "serving"}
    BY <1>1, <1>2 DEF MigrateUp, Start, StatusCheck, Lock, RefuseDirty, MarkDirty, RunMigration,
                      MarkClean, MigrateUpDone, Fails, TypeOK, At, GoTo, data
  <2>2. ~HoldsHosein(p)' /\ SeedAt(p)'
    BY <2>1 DEF HoldsHosein, SeedAt, At
  <2>3. \A q \in Pods \ {p} : SeedAt(q)'
    BY <1>1, <2>1, <2>2, SeedOthers
  <2>4. QED
    BY <1>1, <2>1, <2>2, <2>3 DEF SeedInv, SeedWhole
<1>3. ASSUME NEW p \in Pods, SeedTest(p) PROVE SeedInv'
  <2>1. /\ users' = users /\ ids' = ids /\ ids[p] = {}
        /\ \A q \in Pods \ {p} : pc'[q] = pc[q]
        /\ pc'[p] = IF users # {} THEN "serving" ELSE "hosein"
    BY <1>1, <1>3 DEF SeedTest, TypeOK, At, GoTo, data
  <2>2. ~HoldsHosein(p)' /\ SeedAt(p)'
    BY <2>1 DEF HoldsHosein, SeedAt, At
  <2>3. \A q \in Pods \ {p} : SeedAt(q)'
    BY <1>1, <2>1, <2>2, SeedOthers
  <2>4. QED
    BY <1>1, <2>1, <2>2, <2>3 DEF SeedInv, SeedWhole
<1>4. ASSUME NEW p \in Pods, DrawHosein(p) PROVE SeedInv'
  <2>1. /\ users' = users /\ pc' = pc /\ pc[p] = "hosein" /\ ids'[p] = {lastId'}
        /\ \A q \in Pods \ {p} : ids'[q] = ids[q]
    BY <1>1, <1>4 DEF DrawHosein, Draw, TypeOK, At
  <2>2. ~HoldsHosein(p)' /\ SeedAt(p)'
    BY <2>1 DEF HoldsHosein, SeedAt, At
  <2>3. \A q \in Pods \ {p} : SeedAt(q)'
    BY <1>1, <2>1, <2>2, SeedOthers
  <2>4. QED
    BY <1>1, <2>1, <2>2, <2>3 DEF SeedInv, SeedWhole
<1>5. ASSUME NEW p \in Pods, InsertHosein(p) PROVE SeedInv'
  <2>1. /\ users' = users /\ pc[p] = "hosein" /\ \A q \in Pods : ~HoldsHosein(q)
        /\ \A q \in Pods \ {p} : pc'[q] = pc[q] /\ ids'[q] = ids[q]
        /\ \/ users = {} /\ pc'[p] = "parisa" /\ ids'[p] = ids[p]
           \/ pc'[p] = "down"
    BY <1>1, <1>5 DEF InsertHosein, TypeOK, At, GoTo
  <2>2. \A q \in Pods \ {p} : SeedAt(q)'
    BY <1>1, <2>1, SeedOthers
  <2>3. SeedAt(p)'
    <3>1. \A q \in Pods \ {p} : ~HoldsHosein(q)'
      BY <2>1 DEF HoldsHosein
    <3>2. QED
      BY <1>1, <2>1, <3>1 DEF SeedAt, HoldsHosein, At
  <2>4. QED
    BY <1>1, <2>1, <2>2, <2>3 DEF SeedInv, SeedWhole
<1>6. ASSUME NEW p \in Pods, InsertParisa(p) PROVE SeedInv'
  <2>1. /\ users' = users /\ pc[p] = "parisa" /\ pc'[p] = "rest"
        /\ ids'[p] = ids[p] \cup {lastId'} /\ lastId' \in 1..Beyond
        /\ \A q \in Pods \ {p} : pc'[q] = pc[q] /\ ids'[q] = ids[q]
    BY <1>1, <1>6 DEF InsertParisa, Draw, TypeOK, At, GoTo, Beyond
  <2>2. \A q \in Pods \ {p} : SeedAt(q)'
    BY <1>1, <2>1, SeedOthers DEF HoldsHosein
  <2>3. \E i, j \in 1..Beyond : ids'[p] = {i, j}
    <3>1. (\A i, j \in ids[p] : i = j) /\ ids[p] \subseteq 1..Beyond
      BY <1>1, <2>1 DEF SeedAt, TypeOK
    <3>2. CASE ids[p] = {}
      BY <2>1, <3>2
    <3>3. CASE ids[p] # {}
      <4>1. PICK i \in ids[p] : TRUE
        BY <3>3
      <4>2. ids[p] = {i}
        BY <3>1, <4>1
      <4>3. QED
        BY <2>1, <3>1, <4>1, <4>2
    <3>4. QED
      BY <3>2, <3>3
  <2>4. SeedAt(p)'
    <3>1. users = {} /\ \A q \in Pods : HoldsHosein(q) => p = q
      BY <1>1, <2>1 DEF SeedAt, HoldsHosein
    <3>2. \A q \in Pods : HoldsHosein(q)' => p = q
      BY <2>1, <3>1 DEF HoldsHosein
    <3>3. QED
      BY <2>1, <2>3, <3>1, <3>2 DEF SeedAt, HoldsHosein, At
  <2>5. QED
    BY <1>1, <2>1, <2>2, <2>4 DEF SeedInv, SeedWhole
<1>7. ASSUME NEW p \in Pods, InsertRest(p) \/ AnswerLost(p) PROVE SeedInv'
  <2>1. /\ pc[p] = "rest"
        /\ \A q \in Pods \ {p} : pc'[q] = pc[q] /\ ids'[q] = ids[q]
        /\ \/ /\ Owners \subseteq users \cup ids[p] /\ users' = users \cup ids[p]
              /\ pc'[p] \in {"serving", "down"}
           \/ users' = users /\ pc'[p] = "down"
    BY <1>1, <1>7 DEF InsertRest, AnswerLost, TypeOK, At, GoTo
  <2>2. users = {} /\ \E i, j \in 1..Beyond : ids[p] = {i, j}
    BY <1>1, <2>1 DEF SeedAt, HoldsHosein, At
  <2>3. users' \in {users, Owners} /\ (users' = users => pc'[p] = "down")
    BY <2>1, <2>2 DEF Owners, Beyond
  <2>4. Owners # {}
    BY DEF Owners
  <2>5. ~HoldsHosein(p)' /\ SeedAt(p)'
    BY <2>1, <2>3, <2>4 DEF HoldsHosein, SeedAt, At
  <2>6. \A q \in Pods \ {p} : SeedAt(q)'
    <3>1. HoldsHosein(p)
      BY <2>1 DEF HoldsHosein
    <3>2. QED
      BY <1>1, <2>1, <2>3, <2>4, <2>5, <3>1, SeedOthers
  <2>7. QED
    BY <1>1, <2>3, <2>5, <2>6 DEF SeedInv, SeedWhole
<1>8. CASE UNCHANGED vars
  BY <1>1, <1>8 DEF vars, data, SeedInv, SeedWhole, SeedAt, HoldsHosein, At
<1>9. QED
  BY <1>2, <1>3, <1>4, <1>5, <1>6, <1>7, <1>8 DEF Next, Seed

LEMMA SeedHolds == Spec => []SeedInv
  BY SeedInit, SeedStep, PTL DEF Spec

\* SeedWhole: the table holds no user, or the two that the wishlists name.
THEOREM SeedIsWhole == Spec => []SeedWhole
<1>1. SeedInv => SeedWhole
  BY DEF SeedInv
<1>2. QED
  BY <1>1, SeedHolds, PTL

\* SeedOnce: only the pod that holds the first row commits, with no user in
\* the table.
THEOREM SeededOnce == Spec => SeedOnce
<1>1. SeedInv /\ [Next]_vars => [users # {} => users' = users]_vars
  <2> SUFFICES ASSUME SeedInv, Next, users # {} PROVE users' = users
    BY DEF vars, data
  <2>1. \A p \in Pods : pc[p] # "rest"
    BY DEF SeedInv, SeedAt, HoldsHosein
  <2>2. QED
    BY <2>1 DEF Next, MigrateUp, Start, StatusCheck, Lock, RefuseDirty, MarkDirty, RunMigration,
                MarkClean, MigrateUpDone, Seed, SeedTest, DrawHosein, InsertHosein, InsertParisa,
                InsertRest, Fails, AnswerLost, At, data
<1>2. QED
  BY <1>1, SeedHolds, PTL DEF Spec, SeedOnce

\* ServesReady: no server starts before its pod has seen the complete schema
\* and the seed, however pods interleave and fail.
THEOREM Ready == Spec => []ServesReady
<1>1. SchemaInv /\ SeedInv => ServesReady
  BY DEF SchemaInv, SchemaAt, SchemaTold, SeedInv, SeedAt, ServesReady, Seeds, At
<1>2. QED
  BY <1>1, SchemaHolds, SeedHolds, PTL

-----------------------------------------------------------------------------
(* The promises of Rollout                                                 *)

Serving == {p \in Pods : At(p, "serving")}

\* A step that takes a pod somewhere changes whether this pod serves, no more.
LEMMA ServingMoves ==
  ASSUME TypeOK, NEW p \in Pods, NEW step, GoTo(p, step)
  PROVE  /\ step = "serving" => Serving' = Serving \cup {p}
         /\ step # "serving" => Serving' = Serving \ {p}
<1>1. \A q \in Pods : pc'[q] = IF q = p THEN step ELSE pc[q]
  BY DEF TypeOK, GoTo
<1>2. QED
  BY <1>1 DEF Serving, At

\* Only the end of a migration is seen of the way to the complete schema.
LEMMA RolloutMigrates ==
  ASSUME SchemaInv, NEW p \in Pods, MigrateUp(p)
  PROVE  Promise!Next \/ UNCHANGED <<tables, users, Serving>>
<1>0. TypeOK
  BY DEF SchemaInv
<1>1. pc[p] # "serving" /\ UNCHANGED users /\ \E step \in Steps \ {"serving"} : GoTo(p, step)
  BY DEF MigrateUp, Start, StatusCheck, Lock, RefuseDirty, MarkDirty, RunMigration, MarkClean,
         MigrateUpDone, At, Steps, data
<1>2. UNCHANGED Serving
  <2>1. Serving' = Serving \ {p}
    BY <1>0, <1>1, ServingMoves
  <2>2. p \notin Serving
    BY <1>1 DEF Serving, At
  <2>3. QED
    BY <2>1, <2>2
<1>3. CASE RunMigration(p)
  <2>1. version \in 1..Last /\ tables = 1..(version - 1) /\ tables' = tables \cup {version}
    BY <1>0, <1>3, LastAssumption DEF SchemaInv, SchemaAt, RunMigration, TypeOK, At
  <2>2. tables' = 1..version
    BY <2>1, LastAssumption
  <2>3. Promise!Migrate(version)
    BY <1>1, <1>2, <2>1, <2>2 DEF Promise!Migrate, Serving
  <2>4. QED
    BY <2>1, <2>3 DEF Promise!Next
<1>4. CASE ~RunMigration(p)
  <2>1. UNCHANGED tables
    BY <1>4 DEF MigrateUp, Start, StatusCheck, Lock, RefuseDirty, MarkDirty, MarkClean,
                MigrateUpDone, schema
  <2>2. QED
    BY <1>1, <1>2, <2>1
<1>5. QED
  BY <1>3, <1>4

\* A pod that tests or seeds has the complete schema; it finds the seed as a
\* whole, or commits it as a whole.
LEMMA RolloutSeeds ==
  ASSUME SchemaInv, SeedInv, NEW p \in Pods, Seed(p) \/ AnswerLost(p)
  PROVE  Promise!Next \/ UNCHANGED <<tables, users, Serving>>
<1>0. TypeOK /\ SeedWhole /\ SeedAt(p)
  BY DEF SeedInv
<1>1. /\ UNCHANGED tables /\ tables = 1..Last
      /\ p \notin Serving
  BY DEF Seed, SeedTest, DrawHosein, InsertHosein, InsertParisa, InsertRest, AnswerLost, At,
         SchemaInv, SchemaAt, SchemaTold, Seeds, Serving, schema
<1>2. CASE SeedTest(p)
  <2>1. CASE users # {}
    <3>1. Serving' = Serving \cup {p}
      BY <1>0, <1>2, <2>1, ServingMoves DEF SeedTest
    <3>2. users = Owners /\ users' = users
      BY <1>0, <1>2, <2>1 DEF SeedTest, SeedWhole, data
    <3>3. Promise!Serve(p)
      BY <1>1, <3>1, <3>2 DEF Promise!Serve, Serving
    <3>4. QED
      BY <3>3 DEF Promise!Next
  <2>2. CASE users = {}
    <3>1. Serving' = Serving \ {p}
      BY <1>0, <1>2, <2>2, ServingMoves DEF SeedTest
    <3>2. QED
      BY <1>1, <1>2, <3>1 DEF SeedTest, data
  <2>3. QED
    BY <2>1, <2>2
<1>3. CASE DrawHosein(p) \/ InsertHosein(p) \/ InsertParisa(p)
  <2>1. UNCHANGED users
    BY <1>3 DEF DrawHosein, InsertHosein, InsertParisa
  <2>2. UNCHANGED pc \/ GoTo(p, "parisa") \/ GoTo(p, "rest") \/ GoTo(p, "down")
    BY <1>3 DEF DrawHosein, InsertHosein, InsertParisa
  <2>3. CASE UNCHANGED pc
    BY <1>1, <2>1, <2>3 DEF Serving, At
  <2>4. CASE GoTo(p, "parisa") \/ GoTo(p, "rest") \/ GoTo(p, "down")
    <3>1. Serving' = Serving \ {p}
      BY <1>0, <2>4, ServingMoves
    <3>2. QED
      BY <1>1, <2>1, <3>1
  <2>5. QED
    BY <2>2, <2>3, <2>4
<1>4. CASE InsertRest(p) \/ AnswerLost(p)
  <2>1. /\ At(p, "rest")
        /\ \/ /\ Owners \subseteq users \cup ids[p] /\ users' = users \cup ids[p]
              /\ GoTo(p, "serving") \/ GoTo(p, "down")
           \/ users' = users /\ GoTo(p, "down")
    BY <1>4 DEF InsertRest, AnswerLost
  <2>2. users = {} /\ \E i, j \in 1..Beyond : ids[p] = {i, j}
    BY <1>0, <2>1 DEF SeedAt, HoldsHosein, At
  <2>3. Serving' = Serving \/ (Serving' = Serving \cup {p} /\ GoTo(p, "serving"))
    <3>1. GoTo(p, "serving") => Serving' = Serving \cup {p}
      BY <1>0, ServingMoves
    <3>2. GoTo(p, "down") => Serving' = Serving \ {p}
      BY <1>0, ServingMoves
    <3>3. QED
      BY <1>1, <2>1, <3>1, <3>2
  <2>4. CASE Owners \subseteq users \cup ids[p] /\ users' = users \cup ids[p]
    <3>1. users' = Owners
      BY <2>2, <2>4 DEF Owners, Beyond
    <3>2. Promise!Seed(p)
      BY <1>1, <2>2, <2>3, <3>1 DEF Promise!Seed, Serving
    <3>3. QED
      BY <3>2 DEF Promise!Next
  <2>5. CASE users' = users /\ GoTo(p, "down")
    <3>1. Serving' = Serving \ {p}
      BY <1>0, <2>5, ServingMoves
    <3>2. QED
      BY <1>1, <2>5, <3>1
  <2>6. QED
    BY <2>1, <2>4, <2>5
<1>5. QED
  BY <1>2, <1>3, <1>4 DEF Seed

LEMMA RolloutStep == SchemaInv /\ SeedInv /\ [Next]_vars => [Promise!Next]_(Promise!vars)
<1> SUFFICES ASSUME SchemaInv, SeedInv, [Next]_vars PROVE [Promise!Next]_(Promise!vars)
  OBVIOUS
<1>1. UNCHANGED <<tables, users, Serving>> => UNCHANGED Promise!vars
  BY DEF Promise!vars, Serving
<1>2. ASSUME NEW p \in Pods, MigrateUp(p) \/ Seed(p) \/ AnswerLost(p)
      PROVE  Promise!Next \/ UNCHANGED <<tables, users, Serving>>
  BY <1>2, RolloutMigrates, RolloutSeeds
<1>3. ASSUME NEW p \in Pods, Fails(p) PROVE Promise!Next
  <2>1. Serving' = Serving \ {p}
    BY <1>3, ServingMoves DEF Fails, SeedInv
  <2>2. UNCHANGED <<tables, users>>
    BY <1>3 DEF Fails, schema
  <2>3. Promise!Stop(p)
    BY <2>1, <2>2 DEF Promise!Stop, Serving
  <2>4. QED
    BY <2>3 DEF Promise!Next
<1>4. CASE UNCHANGED vars
  BY <1>4 DEF vars, schema, data, Promise!vars, At
<1>5. QED
  BY <1>1, <1>2, <1>3, <1>4 DEF Next

\* The pods take the database through one sequence of states: each migration once
\* and in order, one seed after the last, servers only then, and nothing of it
\* is undone when a pod fails or starts again.
THEOREM SeedingImplementsRollout == Spec => ImplementsRollout
<1>1. Init => Promise!Init
  <2>1. Init => Serving = {}
    BY DEF Init, Serving, At
  <2>2. QED
    BY <2>1 DEF Init, Promise!Init, Serving
<1>2. QED
  BY <1>1, RolloutStep, SchemaHolds, SeedHolds, PTL DEF Spec, Promise!Spec, ImplementsRollout
=============================================================================
