---------------------------- MODULE MCUserGroup -----------------------------
(* Instances of UserGroup for TLC.                                         *)
EXTENDS UserGroup, TLC

CONSTANTS
  SeedEmail,   \* the address and the username of the one row of the seed data
  SeedName

MCSeeded == {[email |-> SeedEmail, username |-> SeedName]}

\* Codes are only compared, and so are the usernames that no row has yet, and
\* handlers are interchangeable.
Symmetry == Permutations(Codes) \cup Permutations(Names \ {SeedName})
              \cup Permutations(Handlers)

\* The view leaves out what nothing reads any more: the request of a handler that
\* has failed, the code after Check or a failure, the uses of a code that is gone.
Succeeds(h) == result[h] \in {"ok", "created", "noContent"}

LiveEmail == [h \in Handlers |-> ~At(h, "reply") \/ Succeeds(h)]
LiveCode  == [h \in Handlers |-> pc[h] \in {"send", "save", "check"} \/ result[h] = "noContent"]
LiveName  == [h \in Handlers |-> pc[h] \in {"parse", "insert"} \/ result[h] = "created"]
LiveUses  == [e \in Emails |-> Cached(e)]

Seen(f, live) == [x \in {y \in DOMAIN f : live[y]} |-> f[x]]

View == <<pc, Seen(email, LiveEmail), Seen(code, LiveCode), Seen(name, LiveName), result,
          codes, users, tokens, mailed, confirmed, Seen(uses, LiveUses)>>
=============================================================================
