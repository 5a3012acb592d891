---------------------------- MODULE TestDatabase -----------------------------
(***************************************************************************)
(* The databases that tests start for themselves (foundation/compose and   *)
(* foundation/apitest), and StatusCheck of business/database/db.           *)
(*                                                                         *)
(* Packages are tested by processes that run at the same time.  Each one   *)
(* writes a compose file into the directory for temporary files, from      *)
(* whose name docker-compose makes the name of the project: they all share *)
(* one project, with the one container of its service "db".                *)
(*                                                                         *)
(* One unit of time is a tenth of a second.                                *)
(***************************************************************************)
EXTENDS Naturals, Sequences, FiniteSets, SequencesExt

CONSTANTS
  Databases,       \* tests that call NewDatabase
  Examples,        \* tests that use compose as ExampleNew does
  Nobody,          \* no test
  ConnectTimeout,  \* of NewDatabase
  HealthTimeout,   \* of the context that ExampleNew waits with
  PingTime         \* bound: a ping lasts no longer than this

ASSUME TestersAssumption == /\ Databases \cap Examples = {}
                            /\ Nobody \notin Databases \cup Examples
ASSUME TimesAssumption == ConnectTimeout \in Nat /\ HealthTimeout \in Nat /\ PingTime \in Nat

Testers == Databases \cup Examples

VARIABLES
  pc,         \* pc[t]: the next step of test t
  file,       \* file[t]: its compose file exists
  cleaners,   \* cleaners[t]: cleanUpFuncs of its Compose
  listed,     \* listed[t]: the container that Containers has returned to it
  host,       \* host[t]: the port of that container's Host
  attempts,   \* attempts[t]: pings of StatusCheck
  elapsed,    \* elapsed[t]: time since its context was made
  result,     \* result[t]: how the test ends: see Results
  maker,      \* the test whose Up made the container, Nobody without one
  port,       \* the port that the container is published on
  accepting,  \* PostgreSQL in it accepts connections
  data,       \* what is in its volume
  migrator,   \* history: the test that has migrated it
  faults,     \* history: tests for which a command, a call or the container failed
  crowded     \* history: tests that have met another one, or what it left

locals == <<listed, host, attempts, elapsed>>
docker == <<maker, port, accepting, data, migrator>>
vars   == <<pc, file, cleaners, locals, result, docker, faults, crowded>>

Steps == {"new", "up", "list", "ping", "slept", "query", "migrate", "seed", "ready", "health",
          "use", "close", "ended"}

\* A test passes, reports an error, panics, or drops the error that Close of its
\* Database returns, and passes; "none" until it is known.
Results == {"none", "ok", "error", "panic", "discarded"}

\* Cleaners: at first there is none, then there are those of New and of Up.
NoCleaner   == <<>>
FileCleaner == <<"Remove">>
AllCleaners == <<"Remove", "Down">>

\* The port in the compose file, and the one of an empty Host.
Port(t) == IF t \in Databases THEN 55432 ELSE 5432
DefaultPort == 5432

Init ==
  /\ pc = [t \in Testers |-> "new"]
  /\ file = [t \in Testers |-> FALSE]
  /\ cleaners = [t \in Testers |-> NoCleaner]
  /\ listed = [t \in Testers |-> Nobody]
  /\ host = [t \in Testers |-> DefaultPort]
  /\ attempts = [t \in Testers |-> 1]
  /\ elapsed = [t \in Testers |-> 0]
  /\ result = [t \in Testers |-> "none"]
  /\ maker = Nobody
  /\ port = DefaultPort
  /\ accepting = FALSE
  /\ data = "empty"
  /\ migrator = Nobody
  /\ faults = {}
  /\ crowded = {}

GoTo(t, step) == pc' = [pc EXCEPT ![t] = step] /\ UNCHANGED result

\* The function returns that has the local variables.
Forget(t) == /\ listed' = [listed EXCEPT ![t] = Nobody]
             /\ host' = [host EXCEPT ![t] = DefaultPort]
             /\ attempts' = [attempts EXCEPT ![t] = 1]
             /\ elapsed' = [elapsed EXCEPT ![t] = 0]

\* NewDatabase returns its error without closing anything; the deferred Close
\* of ExampleNew runs once New has succeeded.
GiveUp(t) == /\ result' = [result EXCEPT ![t] = "error"]
             /\ pc' = [pc EXCEPT ![t] = IF t \in Examples /\ pc[t] # "new" THEN "close" ELSE "ended"]
             /\ Forget(t)

Fault(t) == faults' = faults \cup {t}

-----------------------------------------------------------------------------
(* compose.New and Up                                                      *)

\* Mutant of addCleaner: the cleaner is put in front.
addCleanerInFront(t, f) == cleaners' = [cleaners EXCEPT ![t] = <<f>> \o @]

addCleaner(t, f) == cleaners' = [cleaners EXCEPT ![t] = Append(@, f)]

\* The file is written and checked; when the check fails it stays behind.
New(t) ==
  /\ pc[t] = "new"
  /\ \/ /\ GoTo(t, "up")
        /\ file' = [file EXCEPT ![t] = TRUE]
        /\ addCleaner(t, "Remove")
        /\ UNCHANGED <<locals, faults>>
     \/ /\ GiveUp(t) /\ Fault(t)
        /\ file' \in {file, [file EXCEPT ![t] = TRUE]}
        /\ UNCHANGED cleaners
  /\ UNCHANGED <<docker, crowded>>

\* Tests between their Up and their end.
Holding == {t \in Testers : pc[t] \notin {"new", "up", "ended"}}

\* docker-compose makes the container when there is none, makes it anew on the
\* same volume when its description has changed, and else leaves it alone.
BringUp(t) ==
  /\ crowded' = IF maker = Nobody /\ Holding = {} THEN crowded ELSE crowded \cup Holding \cup {t}
  /\ \/ /\ maker = Nobody
        /\ maker' = t /\ port' = Port(t)
        /\ accepting' = FALSE /\ data' = "empty" /\ migrator' = Nobody
     \/ /\ maker # Nobody /\ port # Port(t)
        /\ maker' = t /\ port' = Port(t)
        /\ accepting' = FALSE /\ UNCHANGED <<data, migrator>>
     \/ /\ maker # Nobody /\ port = Port(t)
        /\ UNCHANGED docker

\* Mutant of Up: the container gets no cleaner.
UpNoCleaner(t) ==
  /\ pc[t] = "up"
  /\ BringUp(t) /\ GoTo(t, "list")
  /\ UNCHANGED <<file, cleaners, locals, faults>>

\* "up -d" may also fail after it has made the container, which then gets no
\* cleaner.
Up(t) ==
  /\ pc[t] = "up"
  /\ \/ /\ BringUp(t) /\ GoTo(t, "list")
        /\ addCleaner(t, "Down")
        /\ UNCHANGED <<locals, faults>>
     \/ /\ GiveUp(t) /\ Fault(t)
        /\ BringUp(t) \/ UNCHANGED <<docker, crowded>>
        /\ UNCHANGED cleaners
  /\ UNCHANGED file

\* Containers lists the container of the project, whoever made it.  Without one
\* the test goes on with an empty Host.
List(t) ==
  /\ pc[t] = "list"
  /\ \/ /\ GoTo(t, IF t \in Databases THEN "ping" ELSE "health")
        /\ listed' = [listed EXCEPT ![t] = maker]
        /\ host' = [host EXCEPT ![t] = IF maker = Nobody THEN DefaultPort ELSE port]
        /\ UNCHANGED <<attempts, elapsed, faults>>
     \/ GiveUp(t) /\ Fault(t)
  /\ UNCHANGED <<file, cleaners, docker, crowded>>

-----------------------------------------------------------------------------
(* NewDatabase                                                             *)

\* Connections go to whatever listens on the port.
Reachable(t) == maker # Nobody /\ accepting /\ port = host[t]

\* Mutant of Wait: the wait is doubled.
WaitDoubled(n) == 2 ^ n

\* The sleep of StatusCheck after its n-th ping.
Wait(n) == n

\* Ping knows nothing of the deadline.
Ping(t) ==
  /\ pc[t] = "ping"
  /\ \E d \in 0..PingTime :
       \/ /\ Reachable(t) /\ GoTo(t, "query")
          /\ elapsed' = [elapsed EXCEPT ![t] = @ + d]
       \/ /\ ~Reachable(t) /\ GoTo(t, "slept")
          /\ elapsed' = [elapsed EXCEPT ![t] = @ + d + Wait(attempts[t])]
  /\ UNCHANGED <<file, cleaners, listed, host, attempts, docker, faults, crowded>>

\* Mutant of PingAgain: the deadline is not looked at between pings.
PingForever(t) ==
  /\ pc[t] = "slept" /\ GoTo(t, "ping")
  /\ attempts' = [attempts EXCEPT ![t] = 1]
  /\ elapsed' = [elapsed EXCEPT ![t] = 0]
  /\ UNCHANGED <<file, cleaners, listed, host, docker, faults, crowded>>

\* StatusCheck looks at the deadline only when it has slept.
PingAgain(t) ==
  /\ pc[t] = "slept"
  /\ \/ /\ elapsed[t] < ConnectTimeout
        /\ GoTo(t, "ping")
        /\ attempts' = [attempts EXCEPT ![t] = @ + 1]
        /\ UNCHANGED <<listed, host, elapsed, faults>>
     \/ /\ elapsed[t] >= ConnectTimeout
        /\ GiveUp(t) /\ Fault(t)
  /\ UNCHANGED <<file, cleaners, docker, crowded>>

\* The query of StatusCheck has the deadline; it may also meet it.
Query(t) ==
  /\ pc[t] = "query"
  /\ \/ /\ Reachable(t) /\ elapsed[t] < ConnectTimeout
        /\ GoTo(t, "migrate")
        /\ attempts' = [attempts EXCEPT ![t] = 1]
        /\ elapsed' = [elapsed EXCEPT ![t] = 0]
        /\ UNCHANGED <<listed, host, faults>>
     \/ GiveUp(t) /\ Fault(t)
  /\ UNCHANGED <<file, cleaners, docker, crowded>>

\* Mutant of Migrate: a schema that is there already is no error.
MigrateTolerant(t) ==
  /\ pc[t] = "migrate"
  /\ \/ /\ Reachable(t) /\ data # "dirty"
        /\ IF data = "empty" THEN data' = "migrated" /\ migrator' = t
                             ELSE UNCHANGED <<data, migrator>>
        /\ GoTo(t, "seed") /\ UNCHANGED <<locals, faults>>
     \/ /\ ~Reachable(t) \/ data = "dirty"
        /\ GiveUp(t) /\ UNCHANGED <<data, migrator, faults>>
  /\ UNCHANGED <<file, cleaners, maker, port, accepting, crowded>>

\* New and Up of the migration: with a schema that is there already Up returns
\* ErrNoChange, which is an error here, as a dirty schema is.
Migrate(t) ==
  /\ pc[t] = "migrate"
  /\ \/ /\ Reachable(t) /\ data = "empty"
        /\ data' = "migrated" /\ migrator' = t
        /\ GoTo(t, "seed") /\ UNCHANGED <<locals, faults>>
     \/ /\ Reachable(t) /\ data = "empty"
        /\ data' = "dirty" /\ UNCHANGED migrator
        /\ GiveUp(t) /\ Fault(t)
     \/ /\ ~Reachable(t) \/ data # "empty"
        /\ GiveUp(t) /\ UNCHANGED <<data, migrator, faults>>
     \/ GiveUp(t) /\ Fault(t) /\ UNCHANGED <<data, migrator>>
  /\ UNCHANGED <<file, cleaners, maker, port, accepting, crowded>>

HasSchema == data \in {"migrated", "seeded"}

\* Seed, unless somebody else has; without a schema it fails.
Seed(t) ==
  /\ pc[t] = "seed"
  /\ \/ /\ Reachable(t) /\ HasSchema
        /\ data' = "seeded"
        /\ GoTo(t, "ready") /\ UNCHANGED <<locals, faults>>
     \/ ~(Reachable(t) /\ HasSchema) /\ GiveUp(t) /\ UNCHANGED <<data, faults>>
     \/ GiveUp(t) /\ Fault(t) /\ UNCHANGED data
  /\ UNCHANGED <<file, cleaners, maker, port, accepting, migrator, crowded>>

\* The tests on the database end, and Close of Database begins.  When it cannot
\* close the connection it returns an error, which the deferred call drops.
CloseDatabase(t) ==
  /\ pc[t] = "ready"
  /\ pc' = [pc EXCEPT ![t] = "close"]
  /\ Forget(t)
  /\ \/ UNCHANGED <<result, faults>>
     \/ result' = [result EXCEPT ![t] = "discarded"] /\ Fault(t)
  /\ UNCHANGED <<file, cleaners, docker, crowded>>

NewDatabase(t) == \/ Ping(t) \/ PingAgain(t) \/ Query(t)
                  \/ Migrate(t) \/ Seed(t) \/ CloseDatabase(t)

-----------------------------------------------------------------------------
(* ExampleNew                                                              *)

waitInterval == 5

\* WaitForHealthy inspects the container that was listed; it is an error when
\* that one is gone.
WaitForHealthy(t) ==
  /\ pc[t] = "health"
  /\ \/ /\ elapsed[t] < HealthTimeout
        /\ maker # Nobody /\ listed[t] = maker
        /\ \/ accepting /\ GoTo(t, "use") /\ elapsed' = [elapsed EXCEPT ![t] = 0]
           \/ ~accepting /\ elapsed' = [elapsed EXCEPT ![t] = @ + waitInterval] /\ UNCHANGED <<pc, result>>
        /\ UNCHANGED <<listed, host, attempts, faults>>
     \/ /\ elapsed[t] < HealthTimeout
        /\ maker = Nobody \/ listed[t] # maker
        /\ GiveUp(t) /\ UNCHANGED faults
     \/ GiveUp(t) /\ Fault(t)
  /\ UNCHANGED <<file, cleaners, docker, crowded>>

\* Ping and query.
Use(t) ==
  /\ pc[t] = "use"
  /\ \/ Reachable(t) /\ GoTo(t, "close") /\ Forget(t) /\ UNCHANGED faults
     \/ ~Reachable(t) /\ GiveUp(t) /\ UNCHANGED faults
     \/ GiveUp(t) /\ Fault(t)
  /\ UNCHANGED <<file, cleaners, docker, crowded>>

-----------------------------------------------------------------------------
(* Close                                                                   *)

\* "down" removes the container of the project, whoever made it.
TakeDown == /\ maker' = Nobody /\ port' = DefaultPort /\ accepting' = FALSE
            /\ data' = "empty" /\ migrator' = Nobody

\* The cleaner that was added last.
NextCleaner(t) == Last(cleaners[t])

\* ExampleNew prints the error of Close.  Close of Database calls a method of the
\* first error also when there is none; when there is one, both are dropped.
CloseFails(t) ==
  /\ pc' = [pc EXCEPT ![t] = "ended"]
  /\ result' = [result EXCEPT ![t] = IF t \in Examples THEN "error"
                                     ELSE IF @ = "none" THEN "panic" ELSE @]

\* Compose.Close runs the cleaners up to the first error: Down needs the file.
RunCleaner(t) ==
  /\ pc[t] = "close"
  /\ cleaners[t] # NoCleaner
  /\ \/ /\ cleaners' = [cleaners EXCEPT ![t] = Front(@)]
        /\ \/ NextCleaner(t) = "Remove" /\ file' = [file EXCEPT ![t] = FALSE] /\ UNCHANGED docker
           \/ NextCleaner(t) = "Down" /\ file[t] /\ TakeDown /\ UNCHANGED file
        /\ UNCHANGED <<pc, result, faults>>
     \/ /\ CloseFails(t)
        /\ \/ NextCleaner(t) = "Down" /\ ~file[t] /\ UNCHANGED <<docker, faults>>
           \/ Fault(t) /\ (UNCHANGED docker \/ (NextCleaner(t) = "Down" /\ file[t] /\ TakeDown))
        /\ UNCHANGED <<file, cleaners>>
  /\ UNCHANGED <<locals, crowded>>

Closed(t) ==
  /\ pc[t] = "close"
  /\ cleaners[t] = NoCleaner
  /\ pc' = [pc EXCEPT ![t] = "ended"]
  /\ result' = [result EXCEPT ![t] = IF @ = "none" THEN "ok" ELSE @]
  /\ UNCHANGED <<file, cleaners, locals, docker, faults, crowded>>

Close(t) == RunCleaner(t) \/ Closed(t)

-----------------------------------------------------------------------------

\* PostgreSQL is up.
Accepts ==
  /\ maker # Nobody
  /\ ~accepting
  /\ accepting' = TRUE
  /\ UNCHANGED <<pc, file, cleaners, locals, result, maker, port, data, migrator, faults, crowded>>

Step(t) == \/ New(t) \/ Up(t) \/ List(t)
           \/ NewDatabase(t)
           \/ WaitForHealthy(t) \/ Use(t)
           \/ Close(t)

Next == (\E t \in Testers : Step(t)) \/ Accepts

Spec == Init /\ [][Next]_vars

-----------------------------------------------------------------------------
(* Properties                                                              *)

\* The shape of the state; from Up to Close a test has the cleaners of its file
\* and of its container, in this order.
TypeOK ==
  /\ pc \in [Testers -> Steps]
  /\ file \in [Testers -> BOOLEAN]
  /\ cleaners \in [Testers -> {NoCleaner, FileCleaner, AllCleaners}]
  /\ listed \in [Testers -> Testers \cup {Nobody}]
  /\ host \in [Testers -> {5432, 55432}]
  /\ attempts \in [Testers -> Nat] /\ elapsed \in [Testers -> Nat]
  /\ result \in [Testers -> Results]
  /\ maker \in Testers \cup {Nobody}
  /\ port \in {5432, 55432}
  /\ accepting \in BOOLEAN
  /\ data \in {"empty", "dirty", "migrated", "seeded"}
  /\ migrator \in Testers \cup {Nobody}
  /\ faults \subseteq Testers /\ crowded \subseteq Testers
  /\ \A t \in Testers : pc[t] \in Steps \ {"new", "up", "close", "ended"}
                          => cleaners[t] = AllCleaners

\* A test works on a database that it has migrated itself and that is seeded,
\* as long as no other test has removed its container or made it anew: what a
\* failed test has left, or another one is using, is never taken for its own.
ReadyIsOwn ==
  \A t \in Databases :
    pc[t] = "ready" /\ maker # Nobody /\ maker = listed[t] =>
      port = host[t] /\ data = "seeded" /\ migrator = t

\* A test that has met no other one and no failure from outside has none of its
\* own: its database gets ready, its cleaners run to the end and remove its file.
AloneIsTidy ==
  \A t \in Testers :
    pc[t] = "ended" /\ t \notin faults \cup crowded => result[t] = "ok" /\ ~file[t]

\* A container that nobody is going to remove was left by a test that fails, or by
\* one for which two things went wrong, the connection that did not close and a
\* cleaner: in whatever order tests start, share and remove it.
NothingLeftSilently ==
  maker # Nobody =>
    \E t \in Testers :
      \/ t \in Holding
      \/ pc[t] = "ended" /\ result[t] \in {"error", "panic"}
      \/ pc[t] = "ended" /\ result[t] = "discarded" /\ cleaners[t] = AllCleaners

\* However the pings end, StatusCheck is late by one ping and one sleep at most,
\* and the number of its pings grows only as the square root of the timeout.
PingsBounded ==
  \A t \in Databases :
    /\ attempts[t] * (attempts[t] - 1) <= 2 * ConnectTimeout
    /\ elapsed[t] <= ConnectTimeout + PingTime + attempts[t]

\* Time left until a deadline.
Left(spent, limit) == IF spent < limit THEN limit - spent ELSE 0

\* A bound of the steps that are left to a test at a step, which has spent some
\* of the time of its wait there and has a number of cleaners.
WorkAt(step, spent, number) ==
  CASE step = "new"     -> 12 + 2 * ConnectTimeout + HealthTimeout
    [] step = "up"      -> 11 + 2 * ConnectTimeout + HealthTimeout
    [] step = "list"    -> 10 + 2 * ConnectTimeout + HealthTimeout
    [] step = "ping"    -> 9 + 2 * Left(spent, ConnectTimeout)
    [] step = "slept"   -> IF spent < ConnectTimeout
                             THEN 10 + 2 * Left(spent, ConnectTimeout) ELSE 8
    [] step = "query"   -> 7
    [] step = "migrate" -> 6
    [] step = "seed"    -> 5
    [] step = "health"  -> 5 + Left(spent, HealthTimeout)
    [] step = "ready"   -> 4
    [] step = "use"     -> 4
    [] step = "close"   -> 1 + number
    [] step = "ended"   -> 0

Work(t) == WorkAt(pc[t], elapsed[t], Len(cleaners[t]))

\* Every step of a test uses up some of its steps, and nothing gives it more: not
\* the sleeps and retries of StatusCheck and WaitForHealthy, and not another test
\* that makes the container anew or takes it down.  So a test goes on for ever only
\* in a ping or a command that does, for which the code has no limit.
Shortens ==
  \A t \in Testers : /\ Work(t)' <= Work(t)
                     /\ Step(t) => Work(t)' < Work(t)

StepsRunOut == [][Shortens]_vars
=============================================================================
