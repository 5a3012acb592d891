SPECIFICATION FairSpec
CONSTANTS
  Pods = {p1}
  Last = 3
  MaxFailures = 1
CHECK_DEADLOCK FALSE
PROPERTIES SeedRetried
