----------------------------- MODULE UserGroup ------------------------------
(***************************************************************************)
(* The user handler group (cmd/wishapi/v1/handlers/usergrp) with what it   *)
(* calls: the one-time codes in the cache (business/otp on freecache), the *)
(* mail client, the users table, and the token issuer.                     *)
(*                                                                         *)
(* Each handler is a process that serves one request after another, a step *)
(* for each call that reads or writes state other handlers share.  Between *)
(* two steps anything may happen: other handlers, the expiry of a code or  *)
(* of a token, a restart of the server.                                    *)
(***************************************************************************)
EXTENDS Naturals, FiniteSets

CONSTANTS
  Handlers,    \* request handlers that run at the same time
  Emails,      \* addresses
  Codes,       \* one-time codes that GenCode can return
  Names,       \* usernames
  NoEmail,     \* the empty address
  NoName,      \* no username
  NoCode,      \* no code in the cache
  Seeded       \* the rows that seed.sql inserts before any server starts

ASSUME NoEmailAssumption == NoEmail \notin Emails
ASSUME NoCodeAssumption == NoCode \notin Codes
ASSUME SeededAssumption ==
  /\ Seeded \subseteq [email : Emails, username : Names]
  /\ \A u, v \in Seeded : u.email = v.email \/ u.username = v.username => u = v

VARIABLES
  pc,            \* pc[h]: the next step of handler h
  email,         \* email[h], code[h], name[h]: its request and local variables
  code,
  name,
  result,        \* result[h]: what the handler returned, while it is answered
  codes,         \* codes[e]: the code cached for an address
  users,         \* rows of the table "user": [email |-> , username |-> ]
  emailTokens,   \* addresses with a valid EmailVerifiedClaims token
  sessions,      \* addresses of users with a valid UserClaims token
  mailed,        \* history: <<address, code>> handed to the mail service
  confirmed,     \* history: addresses for which a mailed code was presented
  uses           \* history: times the cached code was accepted, 2 for more

locals  == <<email, code, name>>
history == <<mailed, confirmed, uses>>
tokens  == <<emailTokens, sessions>>
vars    == <<pc, locals, result, codes, users, tokens, history>>

Steps == {"idle", "lookup", "exists", "send", "save", "check", "delete", "issue",
          "parse", "insert", "authenticate", "session", "reply"}

\* What a handler returns: nil after one of the three good answers, or an error.
Results == {"none", "ok", "created", "noContent", "malformed", "uniqueEmail",
            "verifySoon", "external", "invalidCode", "invalidToken", "notFound",
            "wrongCredentials", "dbError", "duplicate", "internal"}

\* The status that the handlers and the Errors middleware make of it.  A
\* duplicate row reaches the handler as an error of lib/pq, which
\* namedQueryStruct does not turn into ErrDBDuplicatedEntry.
StatusOf(res) ==
  CASE res = "ok"               -> 200
    [] res = "created"          -> 201
    [] res = "noContent"        -> 204
    [] res \in {"malformed", "uniqueEmail", "notFound"}               -> 400
    [] res \in {"invalidCode", "invalidToken", "wrongCredentials"}    -> 401
    [] res = "verifySoon"       -> 425
    [] res = "external"         -> 503
    [] OTHER                    -> 500

\* What LookUpEmail finds, when the database answers.
Registered(e) == \E u \in users : u.email = e

\* The rows that register has written; the password_hash of the others is no
\* bcrypt hash, so that no password is right for them.
Newcomers == users \ Seeded

Enrolled(e) == \E u \in Newcomers : u.email = e

\* What Exists of the otp client finds.
Cached(e) == codes[e] # NoCode

Init ==
  /\ pc = [h \in Handlers |-> "idle"]
  /\ email = [h \in Handlers |-> NoEmail]
  /\ code = [h \in Handlers |-> NoCode]
  /\ name = [h \in Handlers |-> NoName]
  /\ result = [h \in Handlers |-> "none"]
  /\ codes = [e \in Emails |-> NoCode]
  /\ users = Seeded
  /\ emailTokens = {}
  /\ sessions = {}
  /\ mailed = {}
  /\ confirmed = {}
  /\ uses = [e \in Emails |-> 0]

-----------------------------------------------------------------------------
(* Control of a handler                                                    *)

At(h, step) == pc[h] = step

GoTo(h, step) == pc' = [pc EXCEPT ![h] = step] /\ UNCHANGED result

Return(h, res) == /\ pc' = [pc EXCEPT ![h] = "reply"]
                  /\ result' = [result EXCEPT ![h] = res]

\* A query fails: no connection, an error of the database, or no answer.
QueryFails(h) == Return(h, "dbError")

\* A request arrives; its body is decoded and validated.
Receive(h, step, e, c, n) ==
  /\ At(h, "idle")
  /\ GoTo(h, step)
  /\ email' = [email EXCEPT ![h] = e]
  /\ code' = [code EXCEPT ![h] = c]
  /\ name' = [name EXCEPT ![h] = n]
  /\ UNCHANGED <<codes, users, tokens, history>>

\* DecodeBody refuses the body, on every route.
RefuseBody(h) ==
  /\ At(h, "idle")
  /\ Return(h, "malformed")
  /\ UNCHANGED <<locals, codes, users, tokens, history>>

\* The Errors middleware writes the answer; the handler is free again.
Respond(h) ==
  /\ At(h, "reply")
  /\ pc' = [pc EXCEPT ![h] = "idle"]
  /\ result' = [result EXCEPT ![h] = "none"]
  /\ email' = [email EXCEPT ![h] = NoEmail]
  /\ code' = [code EXCEPT ![h] = NoCode]
  /\ name' = [name EXCEPT ![h] = NoName]
  /\ UNCHANGED <<codes, users, tokens, history>>

-----------------------------------------------------------------------------
(* verifyEmail                                                             *)

VerifyEmail(h) == \E e \in Emails : Receive(h, "lookup", e, NoCode, NoName)

\* Only a row that is found stops the request.  None may be found although the
\* address is registered: namedQueryStruct takes rows that are cut off, as when
\* the client has left and the context is done, for an empty answer.
LookUp(h) ==
  /\ At(h, "lookup")
  /\ \/ QueryFails(h)
     \/ Registered(email[h]) /\ Return(h, "uniqueEmail")
     \/ GoTo(h, "exists")
  /\ UNCHANGED <<locals, codes, users, tokens, history>>

\* A new code, the handler's local variable.
GenCode(h) == \E c \in Codes : code' = [code EXCEPT ![h] = c]

\* Mutant of Exists: the error of GenCode is ignored.
ExistsNoCode(h) ==
  /\ At(h, "exists")
  /\ IF Cached(email[h]) THEN Return(h, "verifySoon") ELSE GoTo(h, "send")
  /\ UNCHANGED <<locals, codes, users, tokens, history>>

\* Exists, then GenCode and Message, which may fail.
Exists(h) ==
  /\ At(h, "exists")
  /\ IF Cached(email[h])
       THEN Return(h, "verifySoon") /\ UNCHANGED code
       ELSE \/ Return(h, "internal") /\ UNCHANGED code
            \/ GoTo(h, "send") /\ GenCode(h)
  /\ UNCHANGED <<email, name, codes, users, tokens, history>>

\* Mutant of Send: the error of the mail client is ignored.
SendIgnoringErrors(h) ==
  /\ At(h, "send")
  /\ GoTo(h, "save")
  /\ mailed' \in {mailed, mailed \cup {<<email[h], code[h]>>}}
  /\ UNCHANGED <<locals, codes, users, tokens, confirmed, uses>>

\* Send succeeds, or fails; when its answer is lost or late it has failed for
\* the handler although the mail is on its way.
Send(h) ==
  /\ At(h, "send")
  /\ \/ /\ GoTo(h, "save")
        /\ mailed' = mailed \cup {<<email[h], code[h]>>}
     \/ /\ Return(h, "external")
        /\ mailed' \in {mailed, mailed \cup {<<email[h], code[h]>>}}
  /\ UNCHANGED <<locals, codes, users, tokens, confirmed, uses>>

\* Save sets the code whatever the cache holds, or fails on an entry that is
\* too large for the cache.
Save(h) ==
  /\ At(h, "save")
  /\ \/ /\ codes' = [codes EXCEPT ![email[h]] = code[h]]
        /\ uses' = [uses EXCEPT ![email[h]] = 0]
        /\ Return(h, "noContent")
     \/ /\ Return(h, "internal")
        /\ UNCHANGED <<codes, uses>>
  /\ UNCHANGED <<locals, users, tokens, mailed, confirmed>>

-----------------------------------------------------------------------------
(* verifyOTP                                                               *)

VerifyOTP(h) == \E e \in Emails, c \in Codes : Receive(h, "check", e, c, NoName)

\* Mutant of Check: any code will do when one is cached.
CheckPresence(h) ==
  /\ At(h, "check")
  /\ IF Cached(email[h])
       THEN /\ GoTo(h, "delete")
            /\ uses' = [uses EXCEPT ![email[h]] = IF @ = 0 THEN 1 ELSE 2]
            /\ confirmed' = IF <<email[h], code[h]>> \in mailed
                              THEN confirmed \cup {email[h]} ELSE confirmed
       ELSE /\ Return(h, "invalidCode")
            /\ UNCHANGED <<uses, confirmed>>
  /\ UNCHANGED <<locals, codes, users, tokens, mailed>>

\* Check reads the cache and compares ...
Check(h) ==
  /\ At(h, "check")
  /\ IF codes[email[h]] = code[h]
       THEN /\ GoTo(h, "delete")
            /\ uses' = [uses EXCEPT ![email[h]] = IF @ = 0 THEN 1 ELSE 2]
            /\ confirmed' = IF <<email[h], code[h]>> \in mailed
                              THEN confirmed \cup {email[h]} ELSE confirmed
       ELSE /\ Return(h, "invalidCode")
            /\ UNCHANGED <<uses, confirmed>>
  /\ UNCHANGED <<locals, codes, users, tokens, mailed>>

\* Mutant of Delete: the accepted code stays in the cache.
DeleteSkipped(h) ==
  /\ At(h, "delete")
  /\ GoTo(h, "issue")
  /\ UNCHANGED <<locals, codes, users, tokens, history>>

\* ... and then deletes what the cache holds for the address by now.
Delete(h) ==
  /\ At(h, "delete")
  /\ codes' = [codes EXCEPT ![email[h]] = NoCode]
  /\ GoTo(h, "issue")
  /\ UNCHANGED <<locals, users, tokens, history>>

\* Token may fail, as when the active key was revoked; the code is spent then.
Issue(h) ==
  /\ At(h, "issue")
  /\ \/ emailTokens' = emailTokens \cup {email[h]} /\ Return(h, "ok")
     \/ Return(h, "internal") /\ UNCHANGED emailTokens
  /\ UNCHANGED <<locals, codes, users, sessions, history>>

-----------------------------------------------------------------------------
(* register                                                                *)

Register(h) == \E n \in Names : Receive(h, "parse", NoEmail, NoCode, n)

\* The addresses in the claims of the valid tokens that a request can bear:
\* those of a session have no email member.
BearerEmails == emailTokens \cup (IF sessions = {} THEN {} ELSE {NoEmail})

\* ParseFromBearer refuses the token, or decodes its claims.  Create then
\* hashes the password, which may fail.
Parse(h) ==
  /\ At(h, "parse")
  /\ \/ Return(h, "invalidToken") /\ UNCHANGED email
     \/ \E e \in BearerEmails :
          /\ email' = [email EXCEPT ![h] = e]
          /\ GoTo(h, "insert") \/ Return(h, "internal")
  /\ UNCHANGED <<code, name, codes, users, tokens, history>>

Row(h) == [email |-> email[h], username |-> name[h]]

\* Mutant of Duplicate: the table has no unique constraint on usernames.
DuplicateEmail(row) == \E u \in users : u.email = row.email

\* The unique constraints of the table on email and username.
Duplicate(row) == \E u \in users : u.email = row.email \/ u.username = row.username

\* Mutant of Insert: the error of the database is ignored.
InsertIgnoringErrors(h) ==
  /\ At(h, "insert")
  /\ Return(h, "created")
  /\ \/ ~Duplicate(Row(h)) /\ users' = users \cup {Row(h)}
     \/ UNCHANGED users
  /\ UNCHANGED <<locals, codes, tokens, history>>

\* Insert one row; when the database does not answer, the row may be in.
Insert(h) ==
  /\ At(h, "insert")
  /\ \/ Duplicate(Row(h)) /\ Return(h, "duplicate") /\ UNCHANGED users
     \/ ~Duplicate(Row(h)) /\ Return(h, "created") /\ users' = users \cup {Row(h)}
     \/ ~Duplicate(Row(h)) /\ QueryFails(h) /\ users' = users \cup {Row(h)}
     \/ QueryFails(h) /\ UNCHANGED users
  /\ UNCHANGED <<locals, codes, tokens, history>>

-----------------------------------------------------------------------------
(* authenticate                                                            *)

Login(h) == \E e \in Emails : Receive(h, "authenticate", e, NoCode, NoName)

\* Look the user up, which may miss the row as in LookUp, and compare the
\* password with its hash, which a seeded row does not have.
Authenticate(h) ==
  /\ At(h, "authenticate")
  /\ \/ QueryFails(h)
     \/ Return(h, "notFound")
     \/ Registered(email[h]) /\ Return(h, "wrongCredentials")
     \/ Enrolled(email[h]) /\ GoTo(h, "session")
  /\ UNCHANGED <<locals, codes, users, tokens, history>>

Session(h) ==
  /\ At(h, "session")
  /\ \/ sessions' = sessions \cup {email[h]} /\ Return(h, "ok")
     \/ Return(h, "internal") /\ UNCHANGED sessions
  /\ UNCHANGED <<locals, codes, users, emailTokens, history>>

-----------------------------------------------------------------------------
(* The surroundings                                                        *)

\* freecache drops the code when its time is up, or evicts it.
ExpireCode(e) ==
  /\ Cached(e)
  /\ codes' = [codes EXCEPT ![e] = NoCode]
  /\ UNCHANGED <<pc, locals, result, users, tokens, history>>

\* A token expires, or its key is purged or revoked.
ExpireToken(e) ==
  /\ \/ e \in emailTokens /\ emailTokens' = emailTokens \ {e} /\ UNCHANGED sessions
     \/ e \in sessions /\ sessions' = sessions \ {e} /\ UNCHANGED emailTokens
  /\ UNCHANGED <<pc, locals, result, codes, users, history>>

\* The server restarts: the cache, the keys and the running handlers are lost,
\* the table and what was mailed are not.
Restart ==
  /\ pc' = [h \in Handlers |-> "idle"]
  /\ result' = [h \in Handlers |-> "none"]
  /\ email' = [h \in Handlers |-> NoEmail]
  /\ code' = [h \in Handlers |-> NoCode]
  /\ name' = [h \in Handlers |-> NoName]
  /\ codes' = [e \in Emails |-> NoCode]
  /\ emailTokens' = {}
  /\ sessions' = {}
  /\ UNCHANGED <<users, history>>

Arrive(h) == VerifyEmail(h) \/ VerifyOTP(h) \/ Register(h) \/ Login(h) \/ RefuseBody(h)

Work(h) == \/ LookUp(h) \/ Exists(h) \/ Send(h) \/ Save(h)
           \/ Check(h) \/ Delete(h) \/ Issue(h)
           \/ Parse(h) \/ Insert(h)
           \/ Authenticate(h) \/ Session(h)
           \/ Respond(h)

Next ==
  \/ \E h \in Handlers : Arrive(h) \/ Work(h)
  \/ \E e \in Emails : ExpireCode(e) \/ ExpireToken(e)
  \/ Restart

Spec == Init /\ [][Next]_vars

-----------------------------------------------------------------------------
(* Properties that hold however handlers interleave                        *)

Rows == [email : Emails \cup {NoEmail}, username : Names]

\* The shape of the state: an address that a handler works on is one it was
\* given, except that register may work on the empty one.
TypeOK ==
  /\ pc \in [Handlers -> Steps]
  /\ email \in [Handlers -> Emails \cup {NoEmail}]
  /\ \A h \in Handlers :
       pc[h] \notin {"idle", "parse", "insert", "reply"} => email[h] \in Emails
  /\ code \in [Handlers -> Codes \cup {NoCode}]
  /\ \A h \in Handlers : pc[h] \in {"send", "save", "check", "delete"} => code[h] \in Codes
  /\ name \in [Handlers -> Names \cup {NoName}]
  /\ \A h \in Handlers : pc[h] \in {"parse", "insert"} => name[h] \in Names
  /\ result \in [Handlers -> Results]
  /\ codes \in [Emails -> Codes \cup {NoCode}]
  /\ users \subseteq Rows
  /\ emailTokens \subseteq Emails
  /\ sessions \subseteq Emails
  /\ mailed \subseteq Emails \X Codes
  /\ confirmed \subseteq Emails
  /\ uses \in [Emails -> 0..2]

\* Every code in the cache went out by mail to its own address: no order of
\* concurrent verifications, failed mails, expiries and restarts leaves a code
\* in the cache that its owner was never sent.
CachedCodeWasMailed == \A e \in Emails : codes[e] # NoCode => <<e, codes[e]>> \in mailed

\* The address of a user who registered was verified before the row was written:
\* a code mailed to it was presented, through whichever handlers, restarts and
\* expiries.  Only the empty address, which a session token leads to, was not,
\* and nobody verified the addresses of the seeded rows.
VerifiedBeforeRegistered ==
  \A u \in Newcomers : u.email = NoEmail \/ u.email \in confirmed

\* What a handler answers is true of the system: 204 means that the code went
\* out, 201 that the row is there, 200 that the address was verified or
\* that its owner registered.
AnswerTrue(h) ==
  LET status == StatusOf(result[h]) IN
  /\ status = 204 => <<email[h], code[h]>> \in mailed
  /\ status = 201 => Row(h) \in users
  /\ status = 200 => email[h] \in confirmed \/ Enrolled(email[h])

AnswersTrue == \A h \in Handlers : At(h, "reply") => AnswerTrue(h)

\* Handlers that register with the same token at the same time do not give an
\* address, or a username, to two users.
RowsUnique ==
  \A u, v \in users : u.email = v.email \/ u.username = v.username => u = v

\* What the handlers carry from step to step: a code to be saved was mailed, an
\* address is confirmed before a token is made for it and as long as it is
\* carried by a token or by register, and a session has a user who registered, as
\* has the table while register works on the empty address.
Carries(h) ==
  /\ At(h, "save") => <<email[h], code[h]>> \in mailed
  /\ pc[h] \in {"delete", "issue"} => email[h] \in confirmed
  /\ At(h, "insert") => \/ email[h] \in confirmed
                        \/ email[h] = NoEmail /\ Newcomers # {}
  /\ At(h, "session") => Enrolled(email[h])

\* The handlers keep the promises of Accounts: each of their steps is at most one
\* step of an account service that knows no codes, requests or failures, so that
\* tokens, rows and sessions come only in the order that it allows.
Promise == INSTANCE Accounts WITH invited <- {m[1] : m \in mailed}, vouched <- emailTokens

ImplementsAccounts == Promise!Spec

\* A code that was accepted and is still in the cache is about to be deleted: it
\* can be accepted again only until then, however handlers interleave, and
\* whatever is saved, expires or fails meanwhile.
SpentCodeGoes ==
  \A e \in Emails : codes[e] # NoCode /\ uses[e] > 0 =>
    \E h \in Handlers : At(h, "delete") /\ email[h] = e

\* So a code is accepted again only by a handler that overlaps with one that has
\* accepted a code for the address and not deleted it yet.
ReusedOnlyInOverlap ==
  [][\A h \in Handlers :
       At(h, "check") /\ pc'[h] = "delete" /\ uses[email[h]] > 0 =>
         \E g \in Handlers \ {h} : At(g, "delete") /\ email[g] = email[h]]_vars

-----------------------------------------------------------------------------
(* What the code says of itself, and does not keep                         *)

\* A code that the cache holds is accepted at most once.
OneTimePassword == \A e \in Emails : uses[e] <= 1

\* A registration that meets an address or a username in use answers 400.
ConflictAnswered400 ==
  \A h \in Handlers :
    At(h, "reply") /\ result[h] = "duplicate" => StatusOf(result[h]) = 400
=============================================================================
