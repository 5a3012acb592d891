# Wishlist: specifications

TLA+ models of the wishlist API server, checked with TLC, and theorems about
them, proved with TLAPS. Paths are relative to the repository's `src/`.

The server verifies e-mail addresses with one-time codes, registers users, and
hands out signed tokens. Its state is small and mostly in memory. What makes it
hard is that request handlers, a key rotation goroutine, the runtime's signals,
a cache that forgets, a mail service and a database that may not answer all act
on that state without a lock around more than a single call. Around it are time
limits that are configured apart from each other, and tests that share one
container.

## The system

| Part | State | Operations | Hard behaviours |
|---|---|---|---|
| keystore (`business/keystore`) | a `sync.Map` of keys, the string `active`, a ticker | `New`, the rotation goroutine (`rotate`, `addKey`), `Revoke`, `Active`, `Signer` | handlers read `active` and look the id up in two steps while keys are added and purged; periods are configured independently; a failed key generation blocks on a nil channel |
| token issuer (`business/auth`) | none | `Token`, `Parse`, `ParseFromBearer` | a token outlives, or not, the key that signed it |
| user handler group (`cmd/wishapi/v1/handlers/usergrp`) | none; locals of a request | `verifyEmail`, `verifyOTP`, `register`, `authenticate` | check-then-act on the cache and on the table across calls of several services |
| one-time codes (`business/otp`, `kvstores/freecache.go`) | code per address, with an expiry | `Exists`, `GenCode`, `Message`, `Save`, `Check` | `Check` reads, compares, deletes; entries expire or are evicted |
| user entity and storage (`business/entities/user`, `storage/postgres/userdb`) | the table `user` | `Create`, `LookUpEmail`, `Authenticate` | lost answers, unique constraints, error translation |
| database access (`business/database/db`) | connection pool | `namedQueryStruct`, `StatusCheck` | errors of a driver, rows that are cut off, a back-off that looks at its deadline between sleeps only |
| error answers (`business/web/middlewares/errors.go`, `foundation/web/error.go`) | none | from an error to a status | which errors are recognised |
| web framework (`foundation/web`) and log middleware | `Values` of a request, the shared signal channel | `Handle`, `Respond`, `DecodeBody`, `shutServerDown`, `Log` | an answer that cannot be written, a second answer, a send that blocks, a write deadline that runs while the handler waits |
| start and shutdown (`cmd/wishapi/main.go`) | signal channel, `serverErr` channel, the server | `run` | two receivers on one channel, drain with a timeout |
| mail client (`business/email`) | none; a pipe for each call | `Send` and its goroutine | two goroutines and the transport use one pipe; a service that answers early, late or not at all |
| validation (`business/validate`) | the validator | `Check`, `passv` | limits that disagree |
| migration and seeding (`business/database/migration`, `cmd/admin`) | schema version, tables | `migrate up`, `migrate seed` | test-then-act by several pods, retries, serial ids |
| test support (`foundation/apitest`, `foundation/compose`) | compose files, one project with one container, cleaners | `New`, `Up`, `Containers`, `WaitForHealthy`, `Close`, `NewDatabase` | tests run at the same time and share the project; commands that fail half way |
| probes (`handlers/probes`) | none | two requests with a small answer | |
| wishlist group, auth middleware, zapformat, tracing, deployment files | none | | |

How they interact: `main` makes the signal channel and hands it to the keystore
and to the web application, so three parties use it. Handlers call the otp
client (cache), the book keeper (table), the mail client and the issuer (which
reads the keystore). The rotation goroutine shares the keystore with all of
them. Errors travel from any of these through the handler to the `Errors`
middleware, and what the middleware cannot write ends in `shutServerDown`. The
limits of the server and of the drain run while a handler waits for the mail
client. `StatusCheck` is used by the init container and by the tests.

What makes each part correct:

- keystore and issuer: a token is honoured until it expires or its key is
  revoked by hand; a request for a token is not hurt by a purge; keys do not
  pile up; a tick leads to a new active key.
- codes: a cached code is one that its owner was mailed; a code is used once, or
  again only by requests that overlap.
- users: an address is verified before it is registered; no two users share an
  address or a username; what the answer says is true.
- seeding: a schema has what its version says; the seed is whole and committed
  once; a server starts only after both, and every pod gets there.
- web framework: the log tells the status that was sent; only an answer that
  could not be written costs the integrity of the server; an answer is ready
  before the connection closes for it.
- mail client: nil means that the service has the mail, once; the goroutine of
  a call ends.
- test support: a test works on its own database; what stays behind was left by
  a test that fails; no wait for the database goes round for ever.
- shutdown: no signal is lost; a drain cuts only requests that are slow; a request
  that blocks on the channel is released; signals end the server.

## Modules

| Module | What it is |
|---|---|
| `TokenService` | abstract specification: tokens are honoured until they expire or are withdrawn |
| `Keystore` | the keystore, its rotation goroutine and token requests; refines `TokenService` |
| `MCKeystore` | instance with periods that cover the token lifetimes |
| `KeystoreInvariant` | the inductive strengthening |
| `KeystoreProofs` | theorems about `Keystore` |
| `Accounts` | abstract specification: who gets tokens, accounts and sessions |
| `AccountsProofs` | theorems about `Accounts` |
| `UserGroup` | the user handlers with cache, mail, table and tokens; refines `Accounts` |
| `MCUserGroup` | instances with one seeded row, symmetry and a view |
| `UserGroupProofs` | theorems about `UserGroup`; uses those of `AccountsProofs` |
| `Shutdown` | the signal channel, `run`, and who takes which signal |
| `ShutdownProofs` | theorems about `Shutdown` |
| `MailClient` | abstract specification: what a caller of `Send` relies on |
| `Courier` | `Send` with its pipe, its goroutine, the transport and the service; refines `MailClient` |
| `WebRequest` | a request through handler, middlewares and time limits; extends `Courier` |
| `MCWebRequest` | three configurations of the time limits |
| `WebRequestProofs` | theorems about `WebRequest` and `Courier` |
| `TestDatabase` | tests with containers, `compose`, `NewDatabase`, `StatusCheck` |
| `TestDatabaseProofs` | theorems about `TestDatabase` |
| `Rollout` | abstract specification: what the pods of a deployment do to their database |
| `Seeding` | init containers of several pods: `admin migrate up && admin migrate seed`; refines `Rollout` |
| `SeedingProofs` | theorems about `Seeding` |

Modules are composed by INSTANCE (`Keystore` with `TokenService`, `Courier` with
`MailClient`, `UserGroup` with `Accounts`, `Seeding` with `Rollout`), by EXTENDS (`WebRequest` takes its calls of `Send` from
`Courier`) and, where the code's parts only meet at one call, by an action that
says what the other part promises: `UserGroup` issues tokens that may end at any
time and sends mails as `MailClient` allows, `Shutdown` has rounds of rotation
that end or hang and requests that lose integrity, which is where `lost` of
`WebRequest` leads, `Keystore` has signals that come and are taken.

`PROJECT.json` gives, for every definition, the lines that it stands for.

### Keystore

| Model | Code |
|---|---|
| `keys`, `expire` | `ks.store`: the ids in the map; `Key.Expire` of every key ever made |
| `active` | `ks.active` |
| `nextTick`, `tickReady` | the ticker and its channel, which holds one tick |
| `rotator`, `unvisited` | where the goroutine is, and the keys `Range` has still to visit |
| `shutdown` | the signal channel |
| `stage`, `exp`, `kid`, `tokens` | a call of `Token`: its claims, the id it has read, what it has signed |
| `TakeTick`, `AddKey`, `Activate`, `Purge`, `PurgeDone` | a round: `addKey` stores the key, then writes `ks.active`; `Range` visits one key at a time |
| `GenKeyFails` | `addKey` fails; the goroutine then sends on `critErrs`, which nobody sets, and never returns |
| `StopRotation`, `Signal`, `SignalTakenByMain` | the other branch of the select, and the other receiver |
| `NewClaims`, `ReadActive`, `Sign` | the steps of a handler that asks for a token |

Keys are numbered in the order of creation in place of their uuids. `ks.active`
is written and read without synchronisation. The ids are strings of equal
length, so that a read that races the write still gives the old or the new id:
the model reads either one, since `ReadActive` may come before or after
`Activate`. One unit of time is whatever the periods are counted in. `Lag`
bounds two delays that the code does not bound itself: from the first key to
the start of the ticker, and from a tick to the end of its round. `Expired`
compares as `Before` does, strictly.

### UserGroup

A handler is a process that serves one request after another; `pc[h]` names
its next step, and there is one step for each call that reads or writes what
others share. Every such call may fail where the code has an error path:
`Send` and `Insert` may also take effect and fail for the caller. Around them
a code may expire or be evicted, a token may end, and the server may restart,
which empties everything but the table and what was mailed.

`mailed`, `confirmed` and `uses` are history: they are written and, but for
`mailed` in the definition of `confirmed`, read by no action. `uses[e]` counts
how often the cached code was accepted and starts again when a code is saved.
`result` keeps what a handler returned, `StatusOf` is the middleware's answer.

Passwords, user ids and names are left out: a comparison of passwords succeeds
or not. The body is accepted or refused. A session token decodes as claims
without an email, which gives `NoEmail` in `Parse`. The table begins with the
rows of `seed.sql` (`Seeded`): the init container puts them there before a server
starts. Nobody has confirmed their addresses, and no password is right for them,
since their hash `0000` is none that bcrypt takes; so what is said of users who
registered is said of `Newcomers`, the other rows.

A read of the table may miss a row that is there: `namedQueryStruct` takes
"no next row" for "no row" and never asks `rows.Err` (`db.go:161`), so a result
that is cut off by a context looks like an empty one. The unique constraints
hold all the same.

`Accounts` is what remains when handlers, codes, the cache and failures are
taken away: addresses are invited by mail, confirmed, vouched for by a token,
enrolled, and admitted to a session, each in one step. `invited` is read off
`mailed`, `vouched` is `emailTokens`, and the other variables are the same. Most
steps of a handler are stutters; `Send` is `Invite` (also when it fails for the
caller), a `Check` that accepts is `Confirm`, `Issue` is `Vouch`, an `Insert` that stores
is `Enroll`, `Session` is `Admit`, and what expires is `Lapse`. A restart is one
`Lapse` that takes everything.
`Enroll` has the odd case of the code: a session token lets a user that exists
register one account with the empty address.

### Shutdown

Go's channel of capacity one with its queue of waiting receivers is modelled as
such (`buffer`, `waiters`; `Others` is the queue that a goroutine has left
because its select took another case): a send goes to the receiver that has waited
longest, a full channel blocks a request, and drops a signal of the runtime.
`main` and `rotation` each take a ready case or park. When main has taken a signal
(`main.go:194`, `Receive`) the server still listens and accepts requests, until
`srv.Shutdown` closes the listener (`main.go:201`, `BeginDrain`). `server` is the goroutine
of `ListenAndServe`. A request may lose integrity, when its answer cannot be
written, and then sends on the channel. After `run` has returned nothing
happens: the process is gone, so the run does not check for deadlock.

### Courier and MailClient

| Model | Code |
|---|---|
| `call` | a call of `Send` and what it returned |
| `encoder` | the goroutine of `email.go:67-72`: in its one write, before `w.Close`, ended |
| `readClosed`, `body` | the pipe: its reading end is closed; what the transport has read |
| `exchange` | `http.Client.Do`, up to the status of the answer |
| `accepted` | the service has the mail |

The pipe has no buffer, and `json.Encoder` writes once, so that the goroutine is
either in that write or past it. The transport reads the message, reads the end,
or closes the body, in any order with the service, which may refuse a mail
before it has read it. `SendReturns` includes the deferred `r.Close`, which is what
releases a goroutine that nobody reads. A deadline that is already over makes
`Do` fail at once. An answer with a status below 400 is taken for an
accepted mail: that is what `Send` relies on.

### WebRequest

`pc[r]` is the layer that a request is at: the handler (`read`,
`query`, `send`, `respond`), then outwards `errors`, `log`, `handle` as `applyMiddlewares` nests
them (`Outer`), then `flush`, where net/http sends its buffers. `err[r]` is what
the inner layer has returned. `header` and `writeErr` are what net/http keeps: the
first status line counts; a write fails when the content does not fit the
buffers and the connection takes no more, and after another write has failed.
`status` is `Values.StatusCode`, `logged` the one of the line "request ended".

Code takes no time. Time passes while the body is read, for which the server has
a limit (`read`), while `Send` waits, for which the mail timeout is the limit, and
while the database is waited for: `db.go:152` queries with the context of the
request, which has no deadline, so that this wait has no limit and may not end.
`waited[r]` counts it. `writeDue` is the deadline of
the connection, which net/http sets when the request has come and which
nothing extends. Between `TakeSignal` and `BeginDrain` requests still arrive, as in
`Shutdown`; `BeginDrain` and `EndDrain` are `srv.Shutdown`. A request
with another method than the route's is answered 405 in front of the
middlewares, hence the exception in `LoggedAsAnswered`. Requests of the probes
are requests with a small answer.

### TestDatabase

A tester is a process of `go test` that calls `NewDatabase` or does what
`ExampleNew` does. All of them write their compose file into the same directory, whose name
makes the name of the project, so docker-compose sees one project with one
service. `maker`, `port`, `accepting`, `data` and `migrator` are that service's
container; `BringUp` is `up -d`: make it, remake it on the same volume when the
description differs (the two users publish different ports), or leave it alone. `cleaners` is
`cleanUpFuncs`, run from the last to the first. `listed` and `host` are the answer
of `Containers`; without a container the zero `Host` is dialled, which is
`localhost:5432` (`DefaultPort`). `attempts` and `elapsed` are those of
`StatusCheck`: a ping does not get the context, and the deadline is looked at after
each sleep. `GiveUp` is an early return: `NewDatabase` closes nothing then, while
`ExampleNew` has deferred its `Close`. Every command may fail, some after they took
effect. `result` tells how a test ends: `Close` of `Database` returns the error of
`Dbase.Close`, and the deferred call in `usergrp_test.go:32` drops it
(`"discarded"`), whatever a cleaner adds to it; without such an error a cleaner that
fails makes `Close` panic, which the test reports. A container that is healthy and
one that accepts connections are the same here; where they differ, a step
fails, as each may (`Fault`). `faults` and `crowded` are history and are read by no action. The
run does not check for deadlock: tests that have ended have nothing left to do.

### Seeding

A pod runs its init container until it succeeds, then its server (`serving`).
`Lock`, `MarkDirty`, `RunMigration` and `MarkClean` are what golang-migrate's
`Up` does for `migrateUp`. `Seed` is a query for committed users and then
`seed.sql`, sent as one message and run by PostgreSQL as one transaction, row
by row as far as ids are drawn (`DrawHosein`, `InsertHosein`, `InsertParisa`,
named after the two users of the file). `InsertRest` stands for the wishlists
and the products: their own ids can only be wrong when those of the users are,
since an attempt gets to them only with users 1 and 2. `Fails` is any error, timeout
or crash; the container starts again. When the answer to a statement that goes
on without its client matters, it is `AnswerLost`. The run does not check for
deadlock: pods that serve have nothing left to do.

`Rollout` has no pods that interleave, no lock, no version and no dirty mark:
migrations take effect one after another, then the two users of the seed come in one step,
then servers run. `ready` is read off `pc`. What the pods draw, insert and roll
back is not visible in it.

## Runs

| Run | Shows |
|---|---|
| `keystore` | all promises of the keystore, and that it implements `TokenService`, when `Covered` |
| `keystore_defaults` | with the default periods of `main.go` a session token is refused before it expires |
| `keystore_hang` | a round that fails is never reported: the goroutine hangs |
| `usergroup` | safety of two overlapping handlers; a code that was accepted does not stay and is accepted again only by a handler that overlaps; they implement `Accounts` |
| `usergroup_otp_twice` | two overlapping checks accept the same code |
| `usergroup_conflict` | a duplicate is answered 500 and not 400 |
| `shutdown` | signals (none is lost, a second one is enough) and blocked requests |
| `shutdown_lost_integrity` | a signal of a failing request may only stop the rotation |
| `seeding` | three pods on one database with two failures: schema, seed and when servers start; they implement `Rollout` |
| `seeding_retried` | a seed that failed once never succeeds |
| `web_request` | one answer, logged and in time, for a request that may lose its client, its database, its mail service or its server; whom the drain cuts; and that `Send` implements `MailClient` |
| `test_database` | tests with one shared container: whose database, what stays behind, and that no retry goes on for ever |

Each property of a passing run has a mutant of the model, a change that a
plausible mistake in the code would be, under which TLC finds it violated. The
mutants stand in front of the definitions that they replace.

Bounds:

- `keystore`: period 2, expiry 5, lifetime 1, lag 1, clock to 9. This is the
  tightest choice that `Covered` allows (2 + 2 * 1 + 1 = 5). Ticks come at 2 to
  3, 4 to 5, 6 to 7, and 8 to 9. The first key expires at 5
  and the second from 7 on, so a key signs, is replaced, expires and is purged
  within the run, with the request and a revocation anywhere in between. One request is enough:
  requests only read the store. `MaxRevocations` is 1: the second revocation
  meets the same cases as the first.
- `keystore_defaults`: hours, with the values of `main.go`, to hour 80.
- `keystore_hang`: the instance of `keystore`, to time 6 and without revocations.
- `usergroup`: two handlers, the address of a newcomer and that of a seeded row,
  two codes, three usernames, one of them seeded. Two handlers are enough for a
  code that is saved between another handler's check and its delete, for two that
  accept one code, and for two that register with one token or one name; a third
  request comes when one of them is free again. Two codes and two new names tell
  what is the same from what is not. Codes, the new
  usernames and handlers are interchangeable, hence the symmetry. The view leaves out the
  request of a handler that has failed, a code that was checked, and the count of uses of a code
  that is gone: nothing reads them, neither an action that can follow nor a property. The run checks no liveness.
- `shutdown`: two requests and signals counted to three: one that stops the
  rotation, one that fills the channel while main is busy, and one more, which
  finds the channel full unless a signal was lost.
- `seeding`: three pods, so that one seeds while two wait or test, the three
  migrations of the repository, and two failures. `seeding_retried`: one pod
  and one failure.
- `web_request`: units of two and a half seconds, one request and three
  configurations: the defaults of `main.go` (read 5 s, write 10 s, mail 10 s, shutdown
  15 s), limits that leave time for an answer, and a mail timeout of 0. The
  database takes any time. Requests share only the clock and the drain, which
  the proofs cover for any number. The clock ends at 8: with the defaults
  requests arrive up to 2, and the drain comes to its deadline when it begins
  at 2 or before.
- `test_database`: two databases and one example, so that a container is
  shared by two of the same description and remade for the third. A unit is a tenth of a second,
  with deadlines of 4 and 5 units in place of 100 and 50: three
  pings, and one round of `WaitForHealthy`, whose interval is 5.

Fairness: in `Keystore`, the rotation goroutine and a handler between two of
its steps are scheduled by Go; ticks, requests, signals and revocations are
not forced. In `Shutdown`,
`run` and the rotation goroutine go on when they can, `srv.Shutdown` has a
timeout, and a send that can be made is made; requests need not end, and
nothing forces a signal or a tick. In `Seeding`, containers run and are started
again, and the lock is granted to a pod that keeps asking for it. In
`WebRequest`, only the mail client is fair: the encoding goroutine is scheduled, `Send` returns
when its exchange has ended, and the exchange ends at the deadline of its context;
nothing forces a handler, the database or the service to answer, the
transport to read or to close the pipe, a client to stay or to leave, or a
signal. `UserGroup` and `TestDatabase` have no fairness and no liveness
properties: queries there have no deadline of their own, `StatusCheck` pings
without a context (`db.go:88`), and `compose` runs its commands without a limit
(`compose.go:108`), so that the code does not ensure that a request or a test ends.
What `TestDatabase` states instead is that no test takes steps for ever
(`StepsRunOut`): it can hang in one, and cannot go round and round.

## What the checks found

- `main.go:52,58-59`: a session lives for 36 hours, a key signs for 24 and is
  deleted after 48. A session that is signed after hour 12 of its key loses
  the key before its own end.
- `keystore.go:103`: `critErrs` is never set. After the first failed key generation
  the goroutine hangs in its send: no key is rotated or purged any more, and
  the last active key signs for ever. The other properties about
  rotation are excused then (`Alive`), so that `RoundsEnd` is the one that shows it.
- `otp.go:41-56`: `Check` is not atomic, so that two requests may both use a
  one-time code. `SpentCodeGoes` and `ReusedOnlyInOverlap` say how far this goes: only
  requests that overlap with the first one can.
- `db.go:152-157`: the unique violation is never recognised, so that
  `usergrp.go:164-166` is not reached and a conflict is answered 500.
- `main.go:135`, `keystore.go:95`: the keystore receives from the channel that
  ends the server. A request that lost integrity, or an operator, may have to
  send a second signal: `SecondSignalStops` shows that this one is enough, and
  `SecondSignalIsThere` proves why.
- `seed.sql:8-10`: the wishlists name users 1 and 2, and the ids are serial.
  When a first attempt is rolled back after it has drawn an id, or two attempts
  draw in turns, no later one can succeed.

More facts that the models show without a run of their own:

- The code that `Delete` removes need not be the one that was compared
  (`otp.go:50-54`): one that was saved in between is lost, and its owner has to ask for another.
- A `Save` that fails (`usergrp.go:121`) leaves the owner with a code that is worth
  nothing.
- Overlapping requests for one address each send a mail.
- `main.go:41-54`: the write timeout and the timeout of the mail are both 10 s, and
  the body may take 5 s before. With the defaults `AnswerCovered` is false for every
  request, and the 503 for a mail service
  that hangs is written when the connection takes no more; the log says 503, the
  client gets nothing. The shutdown timeout of 15 s is just what body and mail may
  take together, and leaves nothing for the database: with the defaults every
  request may be one that the drain cuts, and `DrainCutsTheSlow` tells of them nothing; it
  tells of limits with room. The database itself has no limit.
- `database.go:82`: `NewDatabase` takes `ErrNoChange` for an error, and closes
  nothing when it fails. One failure after the migration makes all later ones
  fail until the container is removed by hand. `ReadyIsOwn` says what this is
  good for: nobody works on such a database.
- `database.go:106`: `Close` calls a method of its first error also when only
  the second call has failed, and panics. When both have failed it returns an
  error that `usergrp_test.go:32` drops: the test passes and the container stays.
  `NothingLeftSilently` names this case; it is the only one that nobody is told of.
- `compose.go:34`: tests of two packages that run at the same time get, remake
  and remove the container of each other (`crowded`).
- `db.go:87`: the pings of `StatusCheck` do not get the context, and its
  deadline is looked at after a sleep only; `PingsBounded` says how late it can be.
- `email.go:74`: without the deferred `r.Close` a service that refuses a mail
  early would leave a goroutine behind each time, since the transport need not
  close a body at once.
- `validate/custom.go:14`: a password has at least 8 bytes at registration and
  8 to 32 characters at login, and bcrypt refuses more than 72 bytes. A user whose
  password has more than 32 characters can register and never log in.

## Proofs

All theorems hold for every value of the constants: any periods, lifetimes,
number of requests, handlers, addresses, codes, pods and tests, any time
limits, and any bound of the clock.

`KeystoreProofs`. `TypeOK` is inductive. The timing properties are not: whether
a key is purged too early depends on when it was made, which depends on the
ticks. `RotationInv` adds where a round is and how old keys can be: a round
ends within `Lag` of its tick (`OnTime`), the active key was made no earlier
than one round before the last tick (`ActiveYoung`), and a visited key had not
expired at the tick (`KeysYoung`). It needs no assumption on the periods and
gives that no key stays for longer than a round after its expiry. `KeysSpaced`
adds that every tick makes one key: a key is as many periods older than the last
tick as keys were made after it (`Made`), up to one delay. Distinct keys have
distinct numbers, so the map holds two keys more, at most, than periods fit into
the life of a key and a delay, which is the other half of `PurgeBound`.
`ActiveKeyFresh` needs only `RotationInv`: while the goroutine rotates, the active key was
made at most a period and two delays ago. `CoverInv` adds tokens and requests: no
token outlives its key (`KeysOutliveTokens`), and a key that has left the map was revoked or has
nothing left to sign for (`GoneIsOver`, `ActivePresent`, `RevokedGone`). This
part assumes `Covered`, which reads

    RotationPeriod + 2 * Lag + life <= ExpirationPeriod, for each lifetime

and is the condition that the defaults of `main.go` miss. From it follow
`Honoured`, `IssuanceNeverRacesPurge`, `ActiveKeyUsable` and the refinement
`KeystoreImplementsService`: each step of the keystore is a step of
`TokenService` or leaves its state alone. The purge is such a stutter only
because of `CoverInv`.

`UserGroupProofs`. `SafetyInv` is `TypeOK`, the properties, and what handlers
carry from step to step (`Carries`): a code to be saved was mailed, an address
is confirmed before a token is made for it and as long as register carries it,
and a session has a user who registered. The proof has a step for each action, and a lemma
for the handlers that do not move, whose facts survive because the history
and the table only grow. `SpentCodesGo` adds that an accepted code is in the
cache only while its handler is about to delete it, and `UsedOnce` draws from it that
a second acceptance overlaps with the first: it is `ReusedOnlyInOverlap`, for any
number of handlers.
`UserGroupImplementsAccounts` takes each action of `UserGroup` to one of
`Accounts`, with a lemma for each of the visible ones; `SafetyInv` is what makes
the guards of `Accounts` true there: `Carries` for `Vouch`, the rows for `Enroll`
and `Admit`. `AccountsProofs` then shows on the small specification what
follows from it, and `UserGroupTrustworthy` brings that back to the handlers.
`RequestsGoOn` is an argument by a rank: `StepsLeft` falls with each step of a
handler, and while it works no other step changes it but a restart, which ends
the request.

`SeedingProofs`. Two invariants: `SchemaInv` ties the place of a pod to how far
the schema is (the pod with the lock is alone, and a pod that seeds has seen
the last version clean), `SeedInv` to its rows (one pod at most has inserted
its first row, with no user committed). `Ready` needs both, and so does
`SeedingImplementsRollout`: a migration that takes effect is `Migrate`, since the
pod with the lock runs the one after the last; the commit of `InsertRest` is `Seed`,
since a pod gets there only with no user committed and ids 1 and 2.

`ShutdownProofs`. `NoSignalLost` is not inductive by itself: it needs that no
signal stays in the channel while a goroutine waits for one and that no request is
blocked on a channel with room (`NoSignalLeftBehind`), and facts
about the start (`Beginning`). What makes them inductive is the queue of receivers:
lemmas about the five queues of two goroutines say what parking, waking and
leaving do to it, and each kind of step has a lemma that uses one of them.
`SignalsNotLost` counts the signals sent against
the channel and the rotation goroutine, which can have taken one at most, as
long as main has not taken its own (`LostCases`). From this follows
`SecondSignalIsThere`: after two signals one is in the channel, and main is not
parked.

`WebRequestProofs`. Invariants that build on each other. `MailInv` ties
the pipe to the exchange: what was accepted was complete, a good exchange was
accepted, and a call is in progress exactly while its request waits for it. With
it each step of `Courier` is a step of `MailClient` or a stutter
(`SendImplementsClient`). `FlowInv` follows the answer through the layers: with
no error the status is the one on the status line, an error of a write has a
failed write behind it, and behind the Errors middleware no other error is left. From
it follow `OnlyWritesLoseIntegrity` and `LogTellsAnswers`. `TimeInv` bounds
where the clock can be at each step by the time of arrival; `AnswersArrive` and
`DrainsInTime` assume no particular limits and no end of a wait for the database:
what it took of the time is counted (`Longest`). `PipeInv` ties the encoding goroutine to
its call: one that is blocked in its write belongs to a `Send` that is waiting
with its deadline ahead (`EncoderNeverStranded`), and a mail was read to its end
before the service accepted it (`MailsAreWhole`).

`TestDatabaseProofs`. `TypeInv` adds which cleaners there are at which step.
`PingInv` bounds the sleeps: while a test pings, `n` attempts have slept for at least
`n * (n - 1) / 2`, which the deadline bounds. `LeftInv` names a keeper of the
container: a test that holds it, or has met a failure for which `Close` did not remove it. `OwnInv` follows a
database from its migration to its use as long as its container is there, and
`AloneInv` says that a test without faults and company finds at each step what
it has left there. `StepsAreBounded` is a rank again: `Work` is a number for each
step of a test that also counts the time left to its waits and its cleaners; each step of
a test makes its own smaller, sleeps and retries included, and nobody else's
step makes it larger.

Every invariant, every action property and every refinement that a passing run
checks is proved. Only checked by TLC are the liveness properties, which need
fairness, and the violations, which are behaviours. Of the liveness properties
most have a proved core, what remains of them without fairness:

| Property | What is proved of it |
|---|---|
| `TickRenewsActive` | `ActiveKeyFresh`: as long as rotation is alive the active key is recent; not proved: that a round which may go on does |
| `SecondSignalStops` | `SecondSignalIsThere`: main finds the signal; not proved: that its select goes on |
| `EncoderEnds` | `EncoderNeverStranded`: the one who closes the pipe is still there and has a deadline |
| `SeededServes` | `Ready`, `SeedIsWhole` say what a pod then finds; a pod may be interrupted any number of times, and only fairness brings it through |
| `BlockedReleased` | `SignalsNotLost` and its invariant: a request blocks only on a full channel; its release is the end of the process |

## Not modelled

- Wording of answers and logs, and tracing.
- Validation: a body is accepted or refused. Its rules are pure functions of one value.
- The `Auth` middleware: no route uses it, and it keeps no state. What it would call,
  `ParseFromBearer`, is `Accepts` of `Keystore`.
- `APIServer` and `Group` of `apitest`: the first does not use `run` of `main.go`
  but builds an application, a keystore and an httptest server of its own
  (`server.go:39-69`); the signal that its `Close` sends has only the rotation
  goroutine to receive it. The second runs test functions.
- A query, a ping or a command that never ends, other than the database of a
  request in `WebRequest`; and a request that blocks in `shutServerDown`, other
  than in `Shutdown`.
- The wishlist group, a stub; `zapformat`, which reformats lines; the deployment
  files.

The components in `PROJECT.json` give the reasons one by one.

## Plan

Done: all modules above, and the theorems about them. What could follow:

1. `WishApi`: `UserGroup` on top of `Keystore`, with `ExpireToken`, `Issue` and
   `Session` replaced by the keystore's own. Today the two meet in what
   `TokenService` promises.
2. An abstract specification of a graceful end that `Shutdown` and the drain of
   `WebRequest` both implement, which would tie the two together by proof.
3. A bound, in terms of failures, of how often a pod starts again: the missing
   core of `SeededServes`.
4. `APIServer`: start and close of a server in a test, with a keystore of its own.
5. The wishlist handlers, once the group has routes.
