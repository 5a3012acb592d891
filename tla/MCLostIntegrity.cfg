SPECIFICATION FairSpec
CONSTANTS
  Handlers = {h1}
  MaxSignals = 2
CHECK_DEADLOCK FALSE
PROPERTIES LostIntegrityStops
