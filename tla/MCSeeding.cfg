SPECIFICATION FairSpec
CONSTANTS
  Pods = {p1, p2, p3}
  Last = 3
  MaxFailures = 2
CHECK_DEADLOCK FALSE
INVARIANTS TypeOK SchemaTold SeedWhole ServesReady
PROPERTIES ImplementsRollout SeededServes
