------------------------------ MODULE Seeding -------------------------------
(***************************************************************************)
(* What comes before the server in a pod: the init container runs          *)
(*   admin migrate up && admin migrate seed                                *)
(* (cmd/admin, business/database/migration) and is started again when it   *)
(* fails.  Several pods may do so at once on one database.                 *)
(*                                                                         *)
(* golang-migrate takes a lock of the database, marks the schema dirty     *)
(* before it runs a migration and clean after it.  The seed is one         *)
(* transaction of several statements.  The ids of its users come from a    *)
(* sequence, which a rollback does not turn back.  All but the first two   *)
(* ids are alike: ids above 2 are counted as Beyond.                       *)
(***************************************************************************)
EXTENDS Naturals

CONSTANTS
  Pods,          \* pods that run the init container
  Last,          \* number of migrations
  MaxFailures    \* bound of the model: crashes, timeouts and lost connections

ASSUME LastAssumption == Last \in Nat \ {0}
ASSUME MaxFailuresAssumption == MaxFailures \in Nat

VARIABLES
  pc,         \* pc[p]: the next step of pod p
  holder,     \* the pod that holds the migration lock, if any
  version,    \* the schema version, and whether it is marked dirty
  dirty,
  tables,     \* migrations that took effect
  lastId,     \* the last id drawn from the sequence of user ids
  ids,        \* ids[p]: ids of the user rows in the open transaction of p
  users,      \* ids of the committed user rows
  failures    \* failures so far

schema == <<version, dirty, tables>>
data   == <<lastId, ids, users>>
vars   == <<pc, holder, schema, data, failures>>

Steps == {"down", "connect", "lock", "locked", "run", "clean",
          "connectToSeed", "test", "hosein", "parisa", "rest", "serving"}

Beyond == 3

\* The owners that the wishlists in seed.sql name.
Owners == {1, 2}

At(p, step) == pc[p] = step

GoTo(p, step) == pc' = [pc EXCEPT ![p] = step]

\* The pod's first user row is in its open transaction.
HoldsHosein(p) == pc[p] \in {"parisa", "rest"}

Init ==
  /\ pc = [p \in Pods |-> "down"]
  /\ holder = {}
  /\ version = 0
  /\ dirty = FALSE
  /\ tables = {}
  /\ lastId = 0
  /\ ids = [p \in Pods |-> {}]
  /\ users = {}
  /\ failures = 0

-----------------------------------------------------------------------------
(* admin migrate up                                                        *)

Start(p) == At(p, "down") /\ GoTo(p, "connect") /\ UNCHANGED <<holder, schema, data, failures>>

\* StatusCheck pings until the database answers.
StatusCheck(p) ==
  /\ \/ At(p, "connect") /\ GoTo(p, "lock")
     \/ At(p, "connectToSeed") /\ GoTo(p, "test")
  /\ UNCHANGED <<holder, schema, data, failures>>

Lock(p) ==
  /\ At(p, "lock")
  /\ holder = {}
  /\ holder' = {p}
  /\ GoTo(p, "locked")
  /\ UNCHANGED <<schema, data, failures>>

\* Up refuses a dirty schema; admin exits.
RefuseDirty(p) ==
  /\ At(p, "locked")
  /\ dirty
  /\ holder' = {}
  /\ GoTo(p, "down")
  /\ UNCHANGED <<schema, data, failures>>

\* Mutant of MarkDirty: the version is advanced without the mark.
MarkNothing(p) ==
  /\ At(p, "locked")
  /\ ~dirty /\ version < Last
  /\ version' = version + 1
  /\ GoTo(p, "run")
  /\ UNCHANGED <<holder, dirty, tables, data, failures>>

MarkDirty(p) ==
  /\ At(p, "locked")
  /\ ~dirty /\ version < Last
  /\ version' = version + 1
  /\ dirty' = TRUE
  /\ GoTo(p, "run")
  /\ UNCHANGED <<holder, tables, data, failures>>

RunMigration(p) ==
  /\ At(p, "run")
  /\ tables' = tables \cup {version}
  /\ GoTo(p, "clean")
  /\ UNCHANGED <<holder, version, dirty, data, failures>>

MarkClean(p) ==
  /\ At(p, "clean")
  /\ dirty' = FALSE
  /\ GoTo(p, "locked")
  /\ UNCHANGED <<holder, version, tables, data, failures>>

\* No migration is left, or there was none: the seed comes next.
MigrateUpDone(p) ==
  /\ At(p, "locked")
  /\ ~dirty /\ version = Last
  /\ holder' = {}
  /\ GoTo(p, "connectToSeed")
  /\ UNCHANGED <<schema, data, failures>>

-----------------------------------------------------------------------------
(* admin migrate seed                                                      *)

\* Mutant of SeedTest: an error of the query counts as seeded.
SeedTestTrusting(p) ==
  /\ At(p, "test")
  /\ GoTo(p, "serving") \/ (users = {} /\ GoTo(p, "hosein"))
  /\ UNCHANGED <<holder, schema, data, failures>>

\* Seed counts the committed users; with any, the pod is ready and its server
\* starts.
SeedTest(p) ==
  /\ At(p, "test")
  /\ GoTo(p, IF users # {} THEN "serving" ELSE "hosein")
  /\ UNCHANGED <<holder, schema, data, failures>>

\* A row of the statement draws its id.
Draw(p) ==
  /\ lastId' = IF lastId < Beyond THEN lastId + 1 ELSE Beyond
  /\ ids' = [ids EXCEPT ![p] = @ \cup {lastId'}]

DrawHosein(p) ==
  /\ At(p, "hosein")
  /\ ids[p] = {}
  /\ Draw(p)
  /\ UNCHANGED <<pc, holder, schema, users, failures>>

\* Mutant of InsertHosein: the email is not unique.
InsertHoseinAgain(p) ==
  /\ At(p, "hosein")
  /\ ids[p] # {}
  /\ GoTo(p, "parisa")
  /\ UNCHANGED <<holder, schema, data, failures>>

\* Mutant of InsertHosein: a duplicate waits.
InsertHoseinWaits(p) ==
  /\ At(p, "hosein")
  /\ ids[p] # {}
  /\ users = {}
  /\ \A q \in Pods : ~HoldsHosein(q)
  /\ GoTo(p, "parisa")
  /\ UNCHANGED <<holder, schema, data, failures>>

\* The row waits for the same row in another open transaction, and fails when
\* it is committed.
InsertHosein(p) ==
  /\ At(p, "hosein")
  /\ ids[p] # {}
  /\ \A q \in Pods : ~HoldsHosein(q)
  /\ IF users = {}
       THEN GoTo(p, "parisa") /\ UNCHANGED ids
       ELSE GoTo(p, "down") /\ ids' = [ids EXCEPT ![p] = {}]
  /\ UNCHANGED <<holder, schema, lastId, users, failures>>

\* Mutant of InsertParisa: the users are committed before the rest.
InsertParisaCommits(p) ==
  /\ At(p, "parisa")
  /\ Draw(p)
  /\ users' = users \cup ids'[p]
  /\ GoTo(p, "rest")
  /\ UNCHANGED <<holder, schema, failures>>

InsertParisa(p) ==
  /\ At(p, "parisa")
  /\ Draw(p)
  /\ GoTo(p, "rest")
  /\ UNCHANGED <<holder, schema, users, failures>>

\* The wishlists need their owners.  With them the transaction commits, else
\* it is rolled back and admin exits.
InsertRest(p) ==
  /\ At(p, "rest")
  /\ ids' = [ids EXCEPT ![p] = {}]
  /\ IF Owners \subseteq users \cup ids[p]
       THEN GoTo(p, "serving") /\ users' = users \cup ids[p]
       ELSE GoTo(p, "down") /\ UNCHANGED users
  /\ UNCHANGED <<holder, schema, lastId, failures>>

-----------------------------------------------------------------------------
(* Failures                                                                *)

\* Mutant of Fails: the open transaction stays.
FailsKeepingRows(p) ==
  /\ failures < MaxFailures
  /\ ~At(p, "down")
  /\ failures' = failures + 1
  /\ holder' = holder \ {p}
  /\ GoTo(p, "down")
  /\ UNCHANGED <<schema, data>>

\* A pod crashes or is replaced, a query fails, times out or gets no answer:
\* the connection is gone, and with it the lock and the open transaction.
Fails(p) ==
  /\ failures < MaxFailures
  /\ ~At(p, "down")
  /\ failures' = failures + 1
  /\ holder' = holder \ {p}
  /\ ids' = [ids EXCEPT ![p] = {}]
  /\ GoTo(p, "down")
  /\ UNCHANGED <<schema, lastId, users>>

\* The last query of the seed takes effect, but its answer is lost.
AnswerLost(p) ==
  /\ failures < MaxFailures
  /\ At(p, "rest")
  /\ Owners \subseteq users \cup ids[p]
  /\ failures' = failures + 1
  /\ users' = users \cup ids[p]
  /\ ids' = [ids EXCEPT ![p] = {}]
  /\ GoTo(p, "down")
  /\ UNCHANGED <<holder, schema, lastId>>

MigrateUp(p) == \/ Start(p) \/ StatusCheck(p) \/ Lock(p) \/ RefuseDirty(p) \/ MarkDirty(p)
                \/ RunMigration(p) \/ MarkClean(p) \/ MigrateUpDone(p)

Seed(p) == SeedTest(p) \/ DrawHosein(p) \/ InsertHosein(p) \/ InsertParisa(p) \/ InsertRest(p)

Next == \E p \in Pods : MigrateUp(p) \/ Seed(p) \/ Fails(p) \/ AnswerLost(p)

Spec == Init /\ [][Next]_vars

\* A container runs, and is started again when it exits; the lock is granted
\* in turn to pods that keep asking for it.
Fairness == \A p \in Pods : SF_vars(Lock(p)) /\ WF_vars(MigrateUp(p) \/ Seed(p))

FairSpec == Spec /\ Fairness

-----------------------------------------------------------------------------
(* Properties                                                              *)

\* The shape of the state: rows wait for a commit only while a pod seeds, and
\* only the pod at work on the schema holds the lock.
TypeOK ==
  /\ pc \in [Pods -> Steps]
  /\ holder = {p \in Pods : pc[p] \in {"locked", "run", "clean"}}
  /\ \A p, q \in holder : p = q
  /\ version \in 0..Last
  /\ \A p \in Pods : pc[p] \in {"run", "clean"} => version # 0
  /\ dirty \in BOOLEAN
  /\ tables \subseteq 1..Last
  /\ lastId \in 0..Beyond
  /\ ids \in [Pods -> SUBSET (1..Beyond)]
  /\ \A p \in Pods : ids[p] # {} => pc[p] \in {"hosein", "parisa", "rest"}
  /\ users \subseteq 1..Beyond
  /\ failures \in 0..MaxFailures

\* A clean schema is what its version says, and a dirty one lacks at most the
\* migration that was running: no crash skips a migration.
SchemaTold ==
  IF dirty THEN tables \in {1..(version - 1), 1..version} ELSE tables = 1..version

\* The users are seeded as a whole, with the ids that the wishlists refer to,
\* whatever fails in between and however the seeds of two pods interleave.
SeedWhole == users \in {{}, Owners}

\* A server starts only on the complete schema with the seed in it.
ServesReady ==
  \A p \in Pods : At(p, "serving") => tables = 1..Last /\ ~dirty /\ users # {}

\* The seed is committed once: a pod that tested before another committed
\* does not add to it.
SeedOnce == [][users # {} => users' = users]_vars

\* The pods keep the promises of Rollout: whatever fails, and however their steps
\* interleave, the database goes through the states that one pod would take it
\* through, and servers start at its end.
Promise == INSTANCE Rollout WITH ready <- {p \in Pods : At(p, "serving")}

ImplementsRollout == Promise!Spec

\* When one pod has seeded every pod gets to serve: those whose seed lost the
\* race fail, start again and find the seed.
SeededServes == users # {} ~> \A p \in Pods : At(p, "serving")

\* A seed that failed is tried again, and succeeds: pods whose schema is
\* migrated get their data.
SeedRetried == (version = Last /\ ~dirty) ~> users # {}
=============================================================================
