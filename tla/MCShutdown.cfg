SPECIFICATION FairSpec
CONSTANTS
  Handlers = {h1, h2}
  MaxSignals = 3
CHECK_DEADLOCK FALSE
INVARIANTS TypeOK NoSignalLost
PROPERTIES BlockedReleased SecondSignalStops
