SPECIFICATION Spec
CONSTANTS
  RotationPeriod = 24
  ExpirationPeriod = 48
  Lifetimes = {1, 36}
  Requests = {r1}
  Lag = 1
  MaxTime = 80
  MaxRevocations = 0
INVARIANTS TokensHonoured
