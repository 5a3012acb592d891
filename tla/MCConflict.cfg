SPECIFICATION Spec
CONSTANTS
  Handlers = {h1, h2}
  Emails = {e1, s1}
  Codes = {c1, c2}
  Names = {n1, n2, s2}
  NoEmail = NoEmail
  NoName = NoName
  NoCode = NoCode
  SeedEmail = s1
  SeedName = s2
  Seeded <- MCSeeded
SYMMETRY Symmetry
INVARIANTS ConflictAnswered400
