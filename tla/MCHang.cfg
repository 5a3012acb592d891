SPECIFICATION FairSpec
CONSTANTS
  RotationPeriod = 2
  ExpirationPeriod = 5
  Lifetimes = {1}
  Requests = {r1}
  Lag = 1
  MaxTime = 6
  MaxRevocations = 0
PROPERTIES RoundsEnd
