--------------------------- MODULE UserGroupProofs --------------------------
(***************************************************************************)
(* Theorems about UserGroup, for any number of handlers, addresses, codes  *)
(* and usernames.                                                          *)
(***************************************************************************)
EXTENDS UserGroup, TLAPS

USE NoEmailAssumption, NoCodeAssumption, SeededAssumption

-----------------------------------------------------------------------------
(* Types                                                                   *)

LEMMA TypeInit == Init => TypeOK
<1>1. Seeded \subseteq Rows
  BY DEF Rows
<1>2. QED
  BY <1>1 DEF Init, TypeOK, Steps, Results

\* The start of a request keeps the types.
LEMMA TypeArrive ==
  ASSUME TypeOK, NEW h \in Handlers, Arrive(h)
  PROVE  TypeOK'
<1> USE DEF TypeOK, Receive, GoTo, Return, At, Steps, Results, tokens, history, locals
<1>1. CASE VerifyEmail(h)
  BY <1>1 DEF VerifyEmail
<1>2. CASE VerifyOTP(h)
  BY <1>2 DEF VerifyOTP
<1>3. CASE Register(h)
  BY <1>3 DEF Register
<1>4. CASE Login(h)
  BY <1>4 DEF Login
<1>5. CASE RefuseBody(h)
  BY <1>5 DEF RefuseBody
<1>6. QED
  BY <1>1, <1>2, <1>3, <1>4, <1>5 DEF Arrive

\* So does every step of a handler.
LEMMA TypeWork ==
  ASSUME TypeOK, NEW h \in Handlers, Work(h)
  PROVE  TypeOK'
<1> USE DEF TypeOK, GoTo, Return, At, Steps, Results, tokens, history, locals
<1>1. CASE LookUp(h)
  BY <1>1 DEF LookUp, QueryFails
<1>2. CASE Exists(h)
  BY <1>2 DEF Exists, Cached, GenCode
<1>3. CASE Send(h)
  BY <1>3 DEF Send
<1>4. CASE Save(h)
  BY <1>4 DEF Save
<1>5. CASE Check(h)
  BY <1>5 DEF Check
<1>6. CASE Delete(h)
  BY <1>6 DEF Delete
<1>7. CASE Issue(h)
  BY <1>7 DEF Issue
<1>8. CASE Parse(h)
  BY <1>8 DEF Parse, BearerEmails
<1>9. CASE Insert(h)
  BY <1>9 DEF Insert, Row, Rows, QueryFails
<1>10. CASE Authenticate(h)
  BY <1>10 DEF Authenticate, QueryFails
<1>11. CASE Session(h)
  BY <1>11 DEF Session
<1>12. CASE Respond(h)
  BY <1>12 DEF Respond
<1>13. QED
  BY <1>1, <1>2, <1>3, <1>4, <1>5, <1>6, <1>7, <1>8, <1>9, <1>10, <1>11, <1>12 DEF Work

LEMMA TypeStep == TypeOK /\ [Next]_vars => TypeOK'
<1> SUFFICES ASSUME TypeOK, [Next]_vars PROVE TypeOK'
  OBVIOUS
<1>1. ASSUME NEW h \in Handlers, Arrive(h) \/ Work(h) PROVE TypeOK'
  BY <1>1, TypeArrive, TypeWork
<1>2. ASSUME NEW e \in Emails, ExpireCode(e) \/ ExpireToken(e) PROVE TypeOK'
  BY <1>2 DEF ExpireCode, ExpireToken, TypeOK, locals, tokens, history
<1>3. CASE Restart
  BY <1>3 DEF Restart, TypeOK, Steps, Results, history
<1>4. CASE UNCHANGED vars
  BY <1>4 DEF vars, TypeOK, locals, tokens, history
<1>5. QED
  BY <1>1, <1>2, <1>3, <1>4 DEF Next

\* Every handler is at a step of its route, works on an address, a code and a
\* username it was given there, and the cache and the table hold such too.
THEOREM UserGroupTypes == Spec => []TypeOK
  BY TypeInit, TypeStep, PTL DEF Spec

-----------------------------------------------------------------------------
(* Safety                                                                  *)

\* What is known of one handler, and of what handlers share.
HandlerFacts(h) == Carries(h) /\ (At(h, "reply") => AnswerTrue(h))

SessionsRegistered == \A e \in sessions : Enrolled(e)

SharedFacts == /\ CachedCodeWasMailed
               /\ emailTokens \subseteq confirmed
               /\ VerifiedBeforeRegistered
               /\ RowsUnique
               /\ SessionsRegistered

SafetyInv == TypeOK /\ SharedFacts /\ \A h \in Handlers : HandlerFacts(h)

\* Mails, confirmations and rows are never taken back.
Grows == mailed \subseteq mailed' /\ confirmed \subseteq confirmed' /\ users \subseteq users'

LEMMA SafetyInit == Init => SafetyInv
  BY TypeInit DEF Init, SafetyInv, SharedFacts, HandlerFacts, Carries, At, CachedCodeWasMailed,
                  VerifiedBeforeRegistered, RowsUnique, SessionsRegistered, Enrolled, Newcomers

\* So what is known of a handler stays known while others take steps.
LEMMA Undisturbed ==
  ASSUME NEW g \in Handlers, HandlerFacts(g), Grows,
         pc'[g] = pc[g], email'[g] = email[g], code'[g] = code[g], name'[g] = name[g],
         result'[g] = result[g]
  PROVE  HandlerFacts(g)'
<1> USE DEF HandlerFacts, Grows
<1>1. Carries(g)'
  BY DEF Carries, At, Enrolled, Newcomers
<1>2. At(g, "reply") /\ AnswerTrue(g) => AnswerTrue(g)'
  <2>1. StatusOf(result[g])' = StatusOf(result[g])
    BY DEF StatusOf
  <2>2. Row(g)' = Row(g)
    BY DEF Row
  <2>3. QED
    BY <2>1, <2>2 DEF AnswerTrue, Enrolled, Newcomers
<1>3. QED
  BY <1>1, <1>2 DEF At

\* A step of one handler writes no other handler's variables.
LEMMA OthersKept ==
  ASSUME TypeOK, NEW h \in Handlers, Arrive(h) \/ Work(h), NEW g \in Handlers, g # h
  PROVE  /\ pc'[g] = pc[g] /\ email'[g] = email[g] /\ code'[g] = code[g]
         /\ name'[g] = name[g] /\ result'[g] = result[g]
<1> USE DEF TypeOK, GoTo, Return, locals
<1>1. CASE Arrive(h)
  BY <1>1 DEF Arrive, VerifyEmail, VerifyOTP, Register, Login, RefuseBody, Receive
<1>2. CASE LookUp(h) \/ Exists(h) \/ Send(h) \/ Save(h)
  BY <1>2 DEF LookUp, Exists, Send, Save, Cached, GenCode, QueryFails
<1>3. CASE Check(h) \/ Delete(h) \/ Issue(h)
  BY <1>3 DEF Check, Delete, Issue
<1>4. CASE Parse(h) \/ Insert(h) \/ Authenticate(h) \/ Session(h) \/ Respond(h)
  BY <1>4 DEF Parse, Insert, Authenticate, Session, Respond, QueryFails, BearerEmails
<1>5. QED
  BY <1>1, <1>2, <1>3, <1>4 DEF Work

\* A request begins with nothing to show.
LEMMA SafetyArrive ==
  ASSUME SafetyInv, NEW h \in Handlers, Arrive(h)
  PROVE  Grows /\ SharedFacts' /\ HandlerFacts(h)'
<1> USE DEF SafetyInv, TypeOK, GoTo, Return, At, locals, tokens, history
<1>1. UNCHANGED <<codes, users, tokens, history>>
  BY DEF Arrive, VerifyEmail, VerifyOTP, Register, Login, RefuseBody, Receive
<1>2. SharedFacts' /\ Grows
  BY <1>1
     DEF SharedFacts, CachedCodeWasMailed, VerifiedBeforeRegistered, RowsUnique,
         SessionsRegistered, Enrolled, Newcomers, Grows
<1>3. CASE RefuseBody(h)
  <2>1. pc'[h] = "reply" /\ result'[h] = "malformed"
    BY <1>3 DEF RefuseBody
  <2>2. QED
    BY <1>2, <2>1 DEF HandlerFacts, Carries, AnswerTrue, StatusOf
<1>4. CASE VerifyEmail(h) \/ VerifyOTP(h) \/ Register(h) \/ Login(h)
  <2>1. pc'[h] \in {"lookup", "check", "parse", "authenticate"}
    BY <1>4 DEF VerifyEmail, VerifyOTP, Register, Login, Receive
  <2>2. QED
    BY <1>2, <2>1 DEF HandlerFacts, Carries
<1>5. QED
  BY <1>3, <1>4 DEF Arrive

\* Steps that write nothing handlers share, and return no good answer.
LEMMA SafetyLocal ==
  ASSUME SafetyInv, NEW h \in Handlers,
         UNCHANGED <<codes, users, tokens, history>>,
         \/ pc'[h] \in {"exists", "send", "idle"}
         \/ pc'[h] = "reply" /\ result'[h] \notin {"ok", "created", "noContent"}
  PROVE  Grows /\ SharedFacts' /\ HandlerFacts(h)'
<1> USE DEF SafetyInv, tokens, history
<1>1. SharedFacts' /\ Grows
  BY
     DEF SharedFacts, CachedCodeWasMailed, VerifiedBeforeRegistered, RowsUnique,
         SessionsRegistered, Enrolled, Newcomers, Grows
<1>2. At(h, "reply")' => StatusOf(result[h])' \notin {200, 201, 204}
  BY DEF StatusOf, At
<1>3. HandlerFacts(h)'
  BY <1>2 DEF HandlerFacts, Carries, AnswerTrue, At
<1>4. QED
  BY <1>1, <1>3

LEMMA SafetyVerifyEmail ==
  ASSUME SafetyInv, TypeOK', NEW h \in Handlers, LookUp(h) \/ Exists(h) \/ Send(h) \/ Save(h)
  PROVE  Grows /\ SharedFacts' /\ HandlerFacts(h)'
<1> USE DEF SafetyInv, TypeOK, GoTo, Return, At
<1>1. CASE LookUp(h) \/ Exists(h)
  <2>1. /\ UNCHANGED <<codes, users, tokens, history>>
        /\ \/ pc'[h] \in {"exists", "send"}
           \/ pc'[h] = "reply" /\ result'[h] \notin {"ok", "created", "noContent"}
    BY <1>1 DEF LookUp, Exists, Cached, GenCode, QueryFails
  <2>2. QED
    BY <2>1, SafetyLocal
<1>2. CASE Send(h)
  <2>1. UNCHANGED <<locals, codes, users, tokens, confirmed, uses>> /\ mailed \subseteq mailed'
    BY <1>2 DEF Send
  <2>2. SharedFacts' /\ Grows
    BY <2>1
       DEF SharedFacts, CachedCodeWasMailed, VerifiedBeforeRegistered, RowsUnique,
           SessionsRegistered, Enrolled, Newcomers, Grows, tokens
  <2>3. \/ pc'[h] = "save" /\ <<email[h], code[h]>> \in mailed'
        \/ pc'[h] = "reply" /\ result'[h] = "external"
    BY <1>2 DEF Send
  <2>4. email'[h] = email[h] /\ code'[h] = code[h]
    BY <2>1 DEF locals
  <2>5. HandlerFacts(h)'
    BY <2>3, <2>4 DEF HandlerFacts, Carries, AnswerTrue, StatusOf
  <2>6. QED
    BY <2>2, <2>5
<1>3. CASE Save(h)
  <2>1. UNCHANGED <<locals, users, tokens, mailed, confirmed>> /\ Grows
    BY <1>3 DEF Save, Grows
  <2>2. <<email[h], code[h]>> \in mailed /\ email[h] \in Emails
    BY <1>3 DEF Save, HandlerFacts, Carries
  <2>3. CachedCodeWasMailed'
    BY <1>3, <2>1, <2>2 DEF Save, SharedFacts, CachedCodeWasMailed
  <2>4. SharedFacts'
    BY <2>1, <2>3
       DEF SharedFacts, VerifiedBeforeRegistered, RowsUnique, SessionsRegistered, Enrolled, Newcomers,
           tokens
  <2>5. pc'[h] = "reply" /\ result'[h] \in {"noContent", "internal"}
    BY <1>3 DEF Save
  <2>6. HandlerFacts(h)'
    BY <2>1, <2>2, <2>5 DEF HandlerFacts, Carries, AnswerTrue, StatusOf, locals
  <2>7. QED
    BY <2>1, <2>4, <2>6
<1>4. QED
  BY <1>1, <1>2, <1>3

\* The code that Check accepts is in the cache, so it was mailed, and the
\* address is confirmed; the steps after it only carry that on.
LEMMA SafetyVerifyOTP ==
  ASSUME SafetyInv, TypeOK', NEW h \in Handlers, Check(h) \/ Delete(h) \/ Issue(h)
  PROVE  Grows /\ SharedFacts' /\ HandlerFacts(h)'
<1> USE DEF SafetyInv, TypeOK, GoTo, Return, At
<1>1. CASE Check(h)
  <2>1. UNCHANGED <<locals, codes, users, tokens, mailed>> /\ confirmed \subseteq confirmed'
    BY <1>1 DEF Check
  <2>2. SharedFacts' /\ Grows
    BY <2>1
       DEF SharedFacts, CachedCodeWasMailed, VerifiedBeforeRegistered, RowsUnique,
           SessionsRegistered, Enrolled, Newcomers, Grows, tokens
  <2>3. CASE codes[email[h]] = code[h]
    <3>1. email[h] \in Emails /\ code[h] \in Codes
      BY <1>1 DEF Check
    <3>2. <<email[h], code[h]>> \in mailed
      BY <2>3, <3>1 DEF SharedFacts, CachedCodeWasMailed
    <3>3. pc'[h] = "delete" /\ email'[h] \in confirmed'
      BY <1>1, <2>1, <2>3, <3>2 DEF Check, locals
    <3>4. QED
      BY <2>2, <3>3 DEF HandlerFacts, Carries
  <2>4. CASE codes[email[h]] # code[h]
    <3>1. pc'[h] = "reply" /\ result'[h] = "invalidCode"
      BY <1>1, <2>4 DEF Check
    <3>2. QED
      BY <2>2, <3>1 DEF HandlerFacts, Carries, AnswerTrue, StatusOf
  <2>5. QED
    BY <2>3, <2>4
<1>2. CASE Delete(h)
  <2>1. UNCHANGED <<locals, users, tokens, history>> /\ email[h] \in confirmed /\ pc'[h] = "issue"
    BY <1>2 DEF Delete, HandlerFacts, Carries
  <2>2. CachedCodeWasMailed'
    BY <1>2, <2>1 DEF Delete, SharedFacts, CachedCodeWasMailed, history
  <2>3. SharedFacts' /\ Grows
    BY <2>1, <2>2
       DEF SharedFacts, VerifiedBeforeRegistered, RowsUnique, SessionsRegistered, Enrolled, Newcomers,
           Grows, tokens, history
  <2>4. QED
    BY <2>1, <2>3 DEF HandlerFacts, Carries, locals, history
<1>3. CASE Issue(h)
  <2>1. /\ UNCHANGED <<locals, codes, users, sessions, history>> /\ email[h] \in confirmed
        /\ emailTokens' \subseteq emailTokens \cup {email[h]}
        /\ pc'[h] = "reply" /\ result'[h] \in {"ok", "internal"}
    BY <1>3 DEF Issue, HandlerFacts, Carries
  <2>2. SharedFacts' /\ Grows
    BY <2>1
       DEF SharedFacts, CachedCodeWasMailed, VerifiedBeforeRegistered, RowsUnique,
           SessionsRegistered, Enrolled, Newcomers, Grows, history
  <2>3. QED
    BY <2>1, <2>2 DEF HandlerFacts, Carries, AnswerTrue, StatusOf, locals, history
<1>4. QED
  BY <1>1, <1>2, <1>3

\* Parse takes a confirmed address from a token, or the empty one; Insert writes
\* it only into a row that collides with none.
LEMMA SafetyRegister ==
  ASSUME SafetyInv, TypeOK', NEW h \in Handlers, Parse(h) \/ Insert(h)
  PROVE  Grows /\ SharedFacts' /\ HandlerFacts(h)'
<1> USE DEF SafetyInv, TypeOK, GoTo, Return, At
<1>1. CASE Parse(h)
  <2>1. UNCHANGED <<codes, users, tokens, history>>
    BY <1>1 DEF Parse, BearerEmails
  <2>2. SharedFacts' /\ Grows
    BY <2>1
       DEF SharedFacts, CachedCodeWasMailed, VerifiedBeforeRegistered, RowsUnique,
           SessionsRegistered, Enrolled, Newcomers, Grows,
           tokens, history
  <2>3. \/ pc'[h] = "insert" /\ email'[h] \in emailTokens
        \/ pc'[h] = "insert" /\ email'[h] = NoEmail /\ sessions # {}
        \/ pc'[h] = "reply" /\ result'[h] \in {"invalidToken", "internal"}
    BY <1>1 DEF Parse, BearerEmails
  <2>4. emailTokens \subseteq confirmed' /\ (sessions # {} => Newcomers' # {})
    BY <2>1 DEF SharedFacts, SessionsRegistered, Enrolled, Newcomers, history
  <2>5. HandlerFacts(h)'
    BY <2>3, <2>4 DEF HandlerFacts, Carries, AnswerTrue, StatusOf
  <2>6. QED
    BY <2>2, <2>5
<1>2. CASE Insert(h)
  <2>1. UNCHANGED <<locals, codes, tokens, history>> /\ pc[h] = "insert"
    BY <1>2 DEF Insert, QueryFails
  <2>2. \/ UNCHANGED users
        \/ ~Duplicate(Row(h)) /\ users' = users \cup {Row(h)}
    BY <1>2 DEF Insert, QueryFails
  <2>3. Row(h).email = email[h] /\ (email[h] = NoEmail \/ email[h] \in confirmed)
    BY <2>1 DEF Row, HandlerFacts, Carries
  <2>4. VerifiedBeforeRegistered'
    BY <2>1, <2>2, <2>3 DEF SharedFacts, VerifiedBeforeRegistered, Newcomers, history
  <2>5. RowsUnique'
    BY <2>2 DEF SharedFacts, RowsUnique, Duplicate
  <2>6. SharedFacts' /\ Grows
    BY <2>1, <2>2, <2>4, <2>5
       DEF SharedFacts, CachedCodeWasMailed, SessionsRegistered, Enrolled, Newcomers, Grows,
           tokens, history
  <2>7. /\ pc'[h] = "reply" /\ result'[h] \in {"duplicate", "created", "dbError"}
        /\ result'[h] = "created" => Row(h) \in users'
    BY <1>2 DEF Insert, QueryFails
  <2>8. Row(h)' = Row(h)
    BY <2>1 DEF Row, locals
  <2>9. HandlerFacts(h)'
    BY <2>7, <2>8 DEF HandlerFacts, Carries, AnswerTrue, StatusOf
  <2>10. QED
    BY <2>6, <2>9
<1>3. QED
  BY <1>1, <1>2

LEMMA SafetyLogin ==
  ASSUME SafetyInv, TypeOK', NEW h \in Handlers, Authenticate(h) \/ Session(h) \/ Respond(h)
  PROVE  Grows /\ SharedFacts' /\ HandlerFacts(h)'
<1> USE DEF SafetyInv, TypeOK, GoTo, Return, At
<1>1. CASE Authenticate(h)
  <2>1. UNCHANGED <<locals, codes, users, tokens, history>>
    BY <1>1 DEF Authenticate, QueryFails
  <2>2. \/ pc'[h] = "session" /\ Enrolled(email[h])
        \/ pc'[h] = "reply" /\ result'[h] \in {"dbError", "notFound", "wrongCredentials"}
    BY <1>1 DEF Authenticate, QueryFails
  <2>3. CASE pc'[h] = "session"
    <3>1. SharedFacts' /\ Grows
      BY <2>1
         DEF SharedFacts, CachedCodeWasMailed, VerifiedBeforeRegistered, RowsUnique,
             SessionsRegistered, Enrolled, Newcomers, Grows,
             tokens, history
    <3>2. QED
      BY <2>1, <2>2, <2>3, <3>1 DEF HandlerFacts, Carries, Enrolled, Newcomers, locals
  <2>4. CASE pc'[h] = "reply"
    BY <2>1, <2>2, <2>4, SafetyLocal
  <2>5. QED
    BY <2>2, <2>3, <2>4
<1>2. CASE Session(h)
  <2>1. /\ UNCHANGED <<locals, codes, users, emailTokens, history>> /\ Enrolled(email[h])
        /\ sessions' \subseteq sessions \cup {email[h]}
        /\ pc'[h] = "reply" /\ result'[h] \in {"ok", "internal"}
    BY <1>2 DEF Session, HandlerFacts, Carries
  <2>2. SharedFacts' /\ Grows
    BY <2>1
       DEF SharedFacts, CachedCodeWasMailed, VerifiedBeforeRegistered, RowsUnique,
           SessionsRegistered, Enrolled, Newcomers, Grows, history
  <2>3. QED
    BY <2>1, <2>2 DEF HandlerFacts, Carries, AnswerTrue, StatusOf, Enrolled, Newcomers, locals
<1>3. CASE Respond(h)
  <2>1. UNCHANGED <<codes, users, tokens, history>> /\ pc'[h] = "idle"
    BY <1>3 DEF Respond
  <2>2. QED
    BY <2>1, SafetyLocal
<1>4. QED
  BY <1>1, <1>2, <1>3

\* Expiry and restart take codes and tokens away and leave the history alone.
LEMMA SafetySurroundings ==
  ASSUME SafetyInv, TypeOK',
         (\E e \in Emails : ExpireCode(e) \/ ExpireToken(e)) \/ Restart \/ UNCHANGED vars
  PROVE  SafetyInv'
<1> USE DEF SafetyInv, TypeOK
<1>1. /\ UNCHANGED <<users, history>>
      /\ emailTokens' \subseteq emailTokens /\ sessions' \subseteq sessions
      /\ \A e \in Emails : codes'[e] \in {codes[e], NoCode}
  BY DEF ExpireCode, ExpireToken, Restart, vars, tokens
<1>2. SharedFacts' /\ Grows
  BY <1>1
     DEF SharedFacts, CachedCodeWasMailed, VerifiedBeforeRegistered, RowsUnique,
         SessionsRegistered, Enrolled, Newcomers, Grows, history
<1>3. CASE Restart
  <2>1. \A h \in Handlers : pc'[h] = "idle"
    BY <1>3 DEF Restart
  <2>2. \A h \in Handlers : HandlerFacts(h)'
    BY <2>1 DEF HandlerFacts, Carries, At
  <2>3. QED
    BY <1>2, <2>2
<1>4. CASE ~Restart
  <2>1. UNCHANGED <<pc, locals, result>>
    BY <1>4 DEF ExpireCode, ExpireToken, vars
  <2>2. \A h \in Handlers : HandlerFacts(h)'
    BY <1>2, <2>1, Undisturbed DEF locals
  <2>3. QED
    BY <1>2, <2>2
<1>5. QED
  BY <1>3, <1>4

LEMMA SafetyStep == SafetyInv /\ [Next]_vars => SafetyInv'
<1> SUFFICES ASSUME SafetyInv, [Next]_vars PROVE SafetyInv'
  OBVIOUS
<1>0. TypeOK'
  BY TypeStep DEF SafetyInv
<1>1. ASSUME NEW h \in Handlers, Arrive(h) \/ Work(h) PROVE SafetyInv'
  <2>1. Grows /\ SharedFacts' /\ HandlerFacts(h)'
    BY <1>0, <1>1, SafetyArrive, SafetyVerifyEmail, SafetyVerifyOTP, SafetyRegister, SafetyLogin
       DEF Work
  <2>2. \A g \in Handlers : g # h => HandlerFacts(g)'
    BY <1>1, <2>1, OthersKept, Undisturbed DEF SafetyInv
  <2>3. QED
    BY <1>0, <2>1, <2>2 DEF SafetyInv
<1>2. CASE (\E e \in Emails : ExpireCode(e) \/ ExpireToken(e)) \/ Restart \/ UNCHANGED vars
  BY <1>0, <1>2, SafetySurroundings
<1>3. QED
  BY <1>1, <1>2 DEF Next

LEMMA SafetyHolds == Spec => []SafetyInv
  BY SafetyInit, SafetyStep, PTL DEF Spec

\* Register writes no row for an address that was not verified by a mailed code,
\* however many handlers work on it and whatever expires or restarts between.
THEOREM Verified == Spec => []VerifiedBeforeRegistered
<1>1. SafetyInv => VerifiedBeforeRegistered
  BY DEF SafetyInv, SharedFacts
<1>2. QED
  BY <1>1, SafetyHolds, PTL

\* Every code that the cache holds for an address was mailed to that address.
THEOREM CodesMailed == Spec => []CachedCodeWasMailed
<1>1. SafetyInv => CachedCodeWasMailed
  BY DEF SafetyInv, SharedFacts
<1>2. QED
  BY <1>1, SafetyHolds, PTL

\* No interleaving of registrations gives two users an address or a username.
THEOREM Unique == Spec => []RowsUnique
<1>1. SafetyInv => RowsUnique
  BY DEF SafetyInv, SharedFacts
<1>2. QED
  BY <1>1, SafetyHolds, PTL

\* The good answers of the four handlers are true when they are given.
THEOREM Truthful == Spec => []AnswersTrue
<1>1. SafetyInv => AnswersTrue
  BY DEF SafetyInv, HandlerFacts, AnswersTrue
<1>2. QED
  BY <1>1, SafetyHolds, PTL


-----------------------------------------------------------------------------
(* The promises of Accounts                                                *)

\* Steps of a handler that nobody sees.
LEMMA UnseenSteps ==
  ASSUME NEW h \in Handlers,
         \/ Arrive(h) \/ LookUp(h) \/ Exists(h) \/ Save(h) \/ Delete(h) \/ Parse(h)
         \/ Authenticate(h) \/ Respond(h)
  PROVE  UNCHANGED <<mailed, confirmed, emailTokens, users, sessions>>
  BY DEF Arrive, VerifyEmail, VerifyOTP, Register, Login, RefuseBody, Receive, LookUp, Exists,
         Save, Delete, Parse, BearerEmails, Authenticate, Respond, tokens, history

\* A mail is an invitation, and the code that Check accepts was mailed.
LEMMA InviteOrConfirm ==
  ASSUME SafetyInv, NEW h \in Handlers, Send(h) \/ Check(h)
  PROVE  Promise!Next \/ UNCHANGED <<mailed, confirmed, emailTokens, users, sessions>>
<1> DEFINE Addresses(S) == {m[1] : m \in S}
<1>0. email[h] \in Emails /\ UNCHANGED <<emailTokens, users, sessions>>
  BY DEF SafetyInv, TypeOK, Send, Check, At, tokens
<1>1. CASE Send(h)
  <2>1. /\ confirmed' = confirmed
        /\ mailed' = mailed \/ mailed' = mailed \cup {<<email[h], code[h]>>}
    BY <1>1 DEF Send
  <2>2. CASE mailed' = mailed
    BY <1>0, <2>1, <2>2
  <2>3. CASE mailed' = mailed \cup {<<email[h], code[h]>>}
    <3>1. Addresses(mailed') = Addresses(mailed) \cup {email[h]}
      <4>1. <<email[h], code[h]>>[1] = email[h]
        OBVIOUS
      <4>2. ASSUME NEW m \in mailed' PROVE m[1] \in Addresses(mailed) \cup {email[h]}
        BY <2>3, <4>1
      <4>3. Addresses(mailed) \cup {email[h]} \subseteq Addresses(mailed')
        BY <2>3, <4>1
      <4>4. QED
        BY <4>2, <4>3
    <3>2. \E e \in Emails : Promise!Invite(e)
      BY <1>0, <2>1, <3>1 DEF Promise!Invite
    <3>3. QED
      BY <3>2 DEF Promise!Next
  <2>4. QED
    BY <2>1, <2>2, <2>3
<1>2. CASE Check(h)
  <2>1. /\ mailed' = mailed
        /\ \/ confirmed' = confirmed
           \/ confirmed' = confirmed \cup {email[h]} /\ <<email[h], code[h]>> \in mailed
    BY <1>2 DEF Check
  <2>2. CASE confirmed' = confirmed
    BY <1>0, <2>1, <2>2
  <2>3. CASE confirmed' = confirmed \cup {email[h]} /\ <<email[h], code[h]>> \in mailed
    <3>1. email[h] \in Addresses(mailed) /\ Addresses(mailed') = Addresses(mailed)
      <4>1. <<email[h], code[h]>>[1] = email[h]
        OBVIOUS
      <4>2. QED
        BY <2>1, <2>3, <4>1
    <3>2. Promise!Confirm(email[h])
      BY <1>0, <2>3, <3>1 DEF Promise!Confirm
    <3>3. QED
      BY <1>0, <3>2 DEF Promise!Next
  <2>4. QED
    BY <2>1, <2>2, <2>3
<1>3. QED
  BY <1>1, <1>2

\* A token vouches for an address that the handler has seen confirmed, and a
\* session is for a user that it has looked up.
LEMMA VouchOrAdmit ==
  ASSUME SafetyInv, NEW h \in Handlers, Issue(h) \/ Session(h)
  PROVE  Promise!Next \/ UNCHANGED <<mailed, confirmed, emailTokens, users, sessions>>
<1>0. email[h] \in Emails /\ UNCHANGED <<mailed, confirmed, users>>
  BY DEF SafetyInv, TypeOK, Issue, Session, At, history
<1>1. CASE Issue(h)
  <2>1. /\ UNCHANGED sessions /\ email[h] \in confirmed
        /\ emailTokens' = emailTokens \/ emailTokens' = emailTokens \cup {email[h]}
    BY <1>1 DEF Issue, SafetyInv, HandlerFacts, Carries, At
  <2>2. emailTokens' = emailTokens \/ Promise!Vouch(email[h])
    BY <1>0, <2>1 DEF Promise!Vouch
  <2>3. QED
    BY <1>0, <2>1, <2>2 DEF Promise!Next
<1>2. CASE Session(h)
  <2>1. /\ UNCHANGED emailTokens /\ Enrolled(email[h])
        /\ sessions' = sessions \/ sessions' = sessions \cup {email[h]}
    BY <1>2 DEF Session, SafetyInv, HandlerFacts, Carries, At
  <2>2. sessions' = sessions \/ Promise!Admit(email[h])
    BY <1>0, <2>1 DEF Promise!Admit, Promise!Enrolled, Promise!Newcomers, Enrolled, Newcomers
  <2>3. QED
    BY <1>0, <2>1, <2>2 DEF Promise!Next
<1>3. QED
  BY <1>1, <1>2

\* Insert enrolls the user whether or not the handler hears of it.
LEMMA InsertEnrolls ==
  ASSUME SafetyInv, NEW h \in Handlers, Insert(h)
  PROVE  Promise!Next \/ UNCHANGED <<mailed, confirmed, emailTokens, users, sessions>>
<1>1. /\ UNCHANGED <<mailed, confirmed, emailTokens, sessions>>
      /\ users' = users \/ (~Duplicate(Row(h)) /\ users' = users \cup {Row(h)})
  BY DEF Insert, QueryFails, tokens, history
<1>2. /\ email[h] \in Emails \cup {NoEmail} /\ name[h] \in Names
      /\ email[h] \in confirmed \/ (email[h] = NoEmail /\ Newcomers # {})
  BY DEF Insert, At, SafetyInv, TypeOK, HandlerFacts, Carries
<1>3. CASE ~Duplicate(Row(h)) /\ users' = users \cup {Row(h)}
  <2>1. Row(h).email = email[h] /\ Row(h).username = name[h]
    BY DEF Row
  <2>2. \A u \in users : u.email # email[h] /\ u.username # name[h]
    BY <1>3, <2>1 DEF Duplicate
  <2>3. users' = users \cup {[email |-> email[h], username |-> name[h]]}
    BY <1>3 DEF Row
  <2>4. Promise!Enroll(email[h], name[h])
    BY <1>1, <1>2, <2>2, <2>3 DEF Promise!Enroll, Promise!Registered, Promise!Newcomers, Newcomers
  <2>5. QED
    BY <1>2, <2>4 DEF Promise!Next
<1>4. QED
  BY <1>1, <1>3

\* Expiry and restart end tokens and sessions, nothing else that is promised.
LEMMA SurroundingsLapse ==
  ASSUME (\E e \in Emails : ExpireCode(e) \/ ExpireToken(e)) \/ Restart \/ UNCHANGED vars
  PROVE  Promise!Next
<1>1. /\ UNCHANGED <<mailed, confirmed, users>>
      /\ emailTokens' \subseteq emailTokens /\ sessions' \subseteq sessions
  BY DEF ExpireCode, ExpireToken, Restart, vars, tokens, history
<1>2. Promise!Lapse
  BY <1>1 DEF Promise!Lapse
<1>3. QED
  BY <1>2 DEF Promise!Next

LEMMA PromiseStep == SafetyInv /\ [Next]_vars => [Promise!Next]_(Promise!vars)
<1> SUFFICES ASSUME SafetyInv, [Next]_vars PROVE [Promise!Next]_(Promise!vars)
  OBVIOUS
<1>1. ASSUME NEW h \in Handlers, Arrive(h) \/ Work(h)
      PROVE  Promise!Next \/ UNCHANGED <<mailed, confirmed, emailTokens, users, sessions>>
  BY <1>1, UnseenSteps, InviteOrConfirm, VouchOrAdmit, InsertEnrolls DEF Work
<1>2. UNCHANGED <<mailed, confirmed, emailTokens, users, sessions>> => UNCHANGED Promise!vars
  BY DEF Promise!vars
<1>3. CASE (\E e \in Emails : ExpireCode(e) \/ ExpireToken(e)) \/ Restart \/ UNCHANGED vars
  BY <1>3, SurroundingsLapse
<1>4. QED
  BY <1>1, <1>2, <1>3 DEF Next

\* The handlers, run by any number of goroutines with expiries, failures and
\* restarts in between, keep the promises of Accounts.
THEOREM UserGroupImplementsAccounts == Spec => ImplementsAccounts
<1>1. Init => Promise!Init
  BY DEF Init, Promise!Init
<1>2. QED
  BY <1>1, PromiseStep, SafetyHolds, PTL DEF Spec, Promise!Spec, ImplementsAccounts

Kept == INSTANCE AccountsProofs WITH invited <- {m[1] : m \in mailed}, vouched <- emailTokens

\* Whoever has got a token, an account or a session from the service owes it to a
\* mail to a confirmed address: what is proved of Accounts is true of the handlers.
THEOREM UserGroupTrustworthy == Spec => []Promise!Trustworthy
<1>1. Promise!Init <=> Kept!Init
  BY DEF Promise!Init, Kept!Init
<1>2. [Promise!Next]_(Promise!vars) <=> [Kept!Next]_(Kept!vars)
  BY DEF Promise!Next, Promise!Invite, Promise!Confirm, Promise!Vouch, Promise!Enroll,
         Promise!Admit, Promise!Lapse, Promise!Registered, Promise!Enrolled,
         Promise!Newcomers, Promise!vars,
         Kept!Next, Kept!Invite, Kept!Confirm, Kept!Vouch, Kept!Enroll,
         Kept!Admit, Kept!Lapse, Kept!Registered, Kept!Enrolled, Kept!Newcomers, Kept!vars
<1>3. Kept!Trustworthy <=> Promise!Trustworthy
  BY DEF Promise!Trustworthy, Kept!Trustworthy, Promise!Enrolled, Kept!Enrolled,
         Promise!Newcomers, Kept!Newcomers
<1>4. QED
  BY <1>1, <1>2, <1>3, UserGroupImplementsAccounts, Kept!AccountsTrustworthy, PTL
     DEF ImplementsAccounts, Promise!Spec, Kept!Spec

-----------------------------------------------------------------------------
(* The way of a request                                                    *)

\* The most steps that a handler still takes until it is free.
StepsLeft(step) ==
  CASE step = "idle"                                      -> 0
    [] step = "reply"                                     -> 1
    [] step \in {"save", "issue", "insert", "session"}    -> 2
    [] step \in {"send", "delete", "parse", "authenticate"} -> 3
    [] step \in {"exists", "check"}                       -> 4
    [] OTHER                                              -> 5

\* Nothing that a handler meets sends it back: whatever fails, expires or is done
\* by others meanwhile, a request takes at most five calls, each at most once.
NeverBack ==
  [][\A h \in Handlers :
       ~At(h, "idle") /\ pc'[h] # pc[h] => StepsLeft(pc'[h]) < StepsLeft(pc[h])]_vars

LEMMA StepsLeftValues ==
  /\ StepsLeft("idle") = 0 /\ StepsLeft("reply") = 1
  /\ StepsLeft("save") = 2 /\ StepsLeft("issue") = 2
  /\ StepsLeft("insert") = 2 /\ StepsLeft("session") = 2
  /\ StepsLeft("send") = 3 /\ StepsLeft("delete") = 3
  /\ StepsLeft("parse") = 3 /\ StepsLeft("authenticate") = 3
  /\ StepsLeft("exists") = 4 /\ StepsLeft("check") = 4
  /\ StepsLeft("lookup") = 5
  BY DEF StepsLeft

LEMMA WorkGoesOn ==
  ASSUME TypeOK, NEW h \in Handlers, Work(h)
  PROVE  StepsLeft(pc'[h]) < StepsLeft(pc[h])
<1> USE StepsLeftValues DEF TypeOK, GoTo, Return, At
<1>1. CASE LookUp(h) \/ Exists(h) \/ Send(h) \/ Save(h)
  <2>1. \/ pc[h] = "lookup" /\ pc'[h] \in {"exists", "reply"}
        \/ pc[h] = "exists" /\ pc'[h] \in {"send", "reply"}
        \/ pc[h] = "send" /\ pc'[h] \in {"save", "reply"}
        \/ pc[h] = "save" /\ pc'[h] = "reply"
    BY <1>1 DEF LookUp, Exists, Send, Save, QueryFails
  <2>2. QED
    BY <2>1
<1>2. CASE Check(h) \/ Delete(h) \/ Issue(h)
  <2>1. \/ pc[h] = "check" /\ pc'[h] \in {"delete", "reply"}
        \/ pc[h] = "delete" /\ pc'[h] = "issue"
        \/ pc[h] = "issue" /\ pc'[h] = "reply"
    BY <1>2 DEF Check, Delete, Issue
  <2>2. QED
    BY <2>1
<1>3. CASE Parse(h) \/ Insert(h) \/ Authenticate(h) \/ Session(h) \/ Respond(h)
  <2>1. \/ pc[h] = "parse" /\ pc'[h] \in {"insert", "reply"}
        \/ pc[h] = "authenticate" /\ pc'[h] \in {"session", "reply"}
        \/ pc[h] \in {"insert", "session"} /\ pc'[h] = "reply"
        \/ pc[h] = "reply" /\ pc'[h] = "idle"
    BY <1>3 DEF Parse, Insert, Authenticate, Session, Respond, QueryFails
  <2>2. QED
    BY <2>1
<1>4. QED
  BY <1>1, <1>2, <1>3 DEF Work

\* A handler takes at most five steps for a request, whatever the mail service,
\* the database and other handlers do meanwhile: no failure is tried again.
THEOREM RequestsGoOn == Spec => NeverBack
<1>1. TypeOK /\ [Next]_vars =>
        (\A h \in Handlers :
           ~At(h, "idle") /\ pc'[h] # pc[h] => StepsLeft(pc'[h]) < StepsLeft(pc[h]))
  <2> SUFFICES ASSUME TypeOK, [Next]_vars, NEW h \in Handlers, ~At(h, "idle"), pc'[h] # pc[h]
               PROVE  StepsLeft(pc'[h]) < StepsLeft(pc[h])
    OBVIOUS
  <2>1. ASSUME NEW g \in Handlers, Arrive(g) \/ Work(g)
        PROVE  StepsLeft(pc'[h]) < StepsLeft(pc[h])
    <3>1. CASE g # h
      BY <2>1, <3>1, OthersKept
    <3>2. CASE g = h
      <4>1. ~Arrive(h)
        BY DEF Arrive, VerifyEmail, VerifyOTP, Register, Login, RefuseBody, Receive
      <4>2. QED
        BY <2>1, <3>2, <4>1, WorkGoesOn
    <3>3. QED
      BY <3>1, <3>2
  <2>2. CASE (\E e \in Emails : ExpireCode(e) \/ ExpireToken(e)) \/ UNCHANGED vars
    BY <2>2 DEF ExpireCode, ExpireToken, vars
  <2>3. CASE Restart
    <3>1. pc'[h] = "idle" /\ pc[h] \in Steps \ {"idle"}
      BY <2>3 DEF Restart, TypeOK, At
    <3>2. QED
      BY <3>1, StepsLeftValues DEF Steps
  <2>4. QED
    BY <2>1, <2>2, <2>3 DEF Next
<1>2. QED
  BY <1>1, UserGroupTypes, PTL DEF Spec, NeverBack

-----------------------------------------------------------------------------
(* Codes that were accepted                                                *)

\* What a step does to the cache and to the count of uses: codes go, are saved
\* with a fresh count, or are accepted by a handler that is to delete them.
LEMMA CodeStep ==
  ASSUME TypeOK, NEW h \in Handlers, Arrive(h) \/ Work(h)
  PROVE  \/ UNCHANGED <<codes, uses>> /\ pc[h] # "delete"
         \/ /\ pc[h] = "save" /\ uses' = [uses EXCEPT ![email[h]] = 0]
            /\ codes' = [codes EXCEPT ![email[h]] = code[h]]
         \/ /\ pc[h] = "check" /\ pc'[h] = "delete" /\ email' = email
            /\ codes' = codes /\ codes[email[h]] = code[h]
            /\ uses' = [uses EXCEPT ![email[h]] = IF @ = 0 THEN 1 ELSE 2]
         \/ /\ pc[h] = "delete" /\ uses' = uses
            /\ codes' = [codes EXCEPT ![email[h]] = NoCode]
<1> USE DEF TypeOK, GoTo, Return, At, history, locals
<1>1. CASE Arrive(h)
  BY <1>1 DEF Arrive, VerifyEmail, VerifyOTP, Register, Login, RefuseBody, Receive
<1>2. CASE LookUp(h) \/ Exists(h) \/ Send(h)
  BY <1>2 DEF LookUp, Exists, Send
<1>3. CASE Save(h)
  BY <1>3 DEF Save
<1>4. CASE Check(h)
  BY <1>4 DEF Check
<1>5. CASE Delete(h)
  BY <1>5 DEF Delete
<1>6. CASE Issue(h) \/ Parse(h) \/ Insert(h) \/ Authenticate(h) \/ Session(h) \/ Respond(h)
  BY <1>6 DEF Issue, Parse, Insert, Authenticate, Session, Respond
<1>7. QED
  BY <1>1, <1>2, <1>3, <1>4, <1>5, <1>6 DEF Work

\* Other handlers and the surroundings do not take a handler from its delete,
\* but for a restart, which empties the cache.
LEMMA SpentStep == TypeOK /\ SpentCodeGoes /\ [Next]_vars => SpentCodeGoes'
<1> SUFFICES ASSUME TypeOK, SpentCodeGoes, [Next]_vars PROVE SpentCodeGoes'
  OBVIOUS
<1> USE DEF SpentCodeGoes, TypeOK, At
<1>1. ASSUME NEW h \in Handlers, Arrive(h) \/ Work(h) PROVE SpentCodeGoes'
  <2> SUFFICES ASSUME NEW e \in Emails, codes'[e] # NoCode, uses'[e] > 0
               PROVE  \E g \in Handlers : pc'[g] = "delete" /\ email'[g] = e
    OBVIOUS
  <2>1. \A g \in Handlers : g # h => pc'[g] = pc[g] /\ email'[g] = email[g]
    BY <1>1, OthersKept
  <2>2. CASE UNCHANGED <<codes, uses>> /\ pc[h] # "delete"
    <3>1. PICK g \in Handlers : pc[g] = "delete" /\ email[g] = e
      BY <2>2
    <3>2. QED
      BY <2>1, <2>2, <3>1
  <2>3. CASE /\ pc[h] = "save" /\ uses' = [uses EXCEPT ![email[h]] = 0]
             /\ codes' = [codes EXCEPT ![email[h]] = code[h]]
    <3>1. e # email[h]
      BY <2>3
    <3>2. PICK g \in Handlers : pc[g] = "delete" /\ email[g] = e
      BY <2>3, <3>1
    <3>3. QED
      BY <2>1, <2>3, <3>2
  <2>4. CASE /\ pc[h] = "check" /\ pc'[h] = "delete" /\ email' = email
             /\ codes' = codes /\ codes[email[h]] = code[h]
             /\ uses' = [uses EXCEPT ![email[h]] = IF @ = 0 THEN 1 ELSE 2]
    <3>1. CASE e = email[h]
      BY <2>4, <3>1
    <3>2. CASE e # email[h]
      <4>1. PICK g \in Handlers : pc[g] = "delete" /\ email[g] = e
        BY <2>4, <3>2
      <4>2. QED
        BY <2>1, <2>4, <4>1
    <3>3. QED
      BY <3>1, <3>2
  <2>5. CASE /\ pc[h] = "delete" /\ uses' = uses
             /\ codes' = [codes EXCEPT ![email[h]] = NoCode]
    <3>1. e # email[h]
      BY <2>5
    <3>2. PICK g \in Handlers : pc[g] = "delete" /\ email[g] = e
      BY <2>5, <3>1
    <3>3. QED
      BY <2>1, <3>1, <3>2
  <2>6. QED
    BY <1>1, <2>2, <2>3, <2>4, <2>5, CodeStep
<1>2. CASE \E e \in Emails : ExpireCode(e) \/ ExpireToken(e)
  <2>1. /\ pc' = pc /\ email' = email /\ uses' = uses
        /\ \A e \in Emails : codes'[e] \in {codes[e], NoCode}
    BY <1>2 DEF ExpireCode, ExpireToken, locals, history
  <2>2. QED
    BY <2>1
<1>3. CASE Restart
  BY <1>3 DEF Restart
<1>4. CASE UNCHANGED vars
  BY <1>4 DEF vars, locals, history
<1>5. QED
  BY <1>1, <1>2, <1>3, <1>4 DEF Next

\* Any number of handlers may accept a code, but only before the first of them
\* has deleted it.
THEOREM SpentCodesGo == Spec => []SpentCodeGoes
<1>1. Init => SpentCodeGoes
  BY DEF Init, SpentCodeGoes
<1>2. QED
  BY <1>1, TypeInit, TypeStep, SpentStep, PTL DEF Spec

\* No order of requests has a code accepted again, but by a handler that overlaps
\* with one that is still to delete what it has accepted for the address.
THEOREM UsedOnce == Spec => ReusedOnlyInOverlap
<1> DEFINE Overlap(h) == \E g \in Handlers \ {h} : At(g, "delete") /\ email[g] = email[h]
<1>1. TypeOK /\ SpentCodeGoes /\ [Next]_vars =>
        (\A h \in Handlers :
           At(h, "check") /\ pc'[h] = "delete" /\ uses[email[h]] > 0 => Overlap(h))
  <2> SUFFICES ASSUME TypeOK, SpentCodeGoes, [Next]_vars, NEW h \in Handlers,
                      At(h, "check"), pc'[h] = "delete", uses[email[h]] > 0
               PROVE  Overlap(h)
    OBVIOUS
  <2> USE DEF TypeOK, At
  <2>1. email[h] \in Emails /\ code[h] \in Codes /\ code[h] # NoCode
    OBVIOUS
  <2>2. CASE codes[email[h]] = code[h]
    <3>1. PICK g \in Handlers : pc[g] = "delete" /\ email[g] = email[h]
      BY <2>1, <2>2 DEF SpentCodeGoes
    <3>2. QED
      BY <3>1
  <2>3. CASE codes[email[h]] # code[h]
    <3>1. ASSUME NEW g \in Handlers, Arrive(g) \/ Work(g) PROVE FALSE
      <4>1. g = h
        BY <3>1, OthersKept
      <4>2. Check(h)
        BY <3>1, <4>1
           DEF Arrive, VerifyEmail, VerifyOTP, Register, Login, RefuseBody, Receive, Work, LookUp,
               Exists, Send, Save, Delete, Issue, Parse, Insert, Authenticate, Session, Respond
      <4>3. QED
        BY <2>3, <4>2 DEF Check, Return
    <3>2. CASE (\E e \in Emails : ExpireCode(e) \/ ExpireToken(e)) \/ Restart \/ UNCHANGED vars
      BY <3>2 DEF ExpireCode, ExpireToken, Restart, vars
    <3>3. QED
      BY <3>1, <3>2 DEF Next
  <2>4. QED
    BY <2>2, <2>3
<1>2. QED
  BY <1>1, SpentCodesGo, UserGroupTypes, PTL DEF Spec, ReusedOnlyInOverlap
=============================================================================
