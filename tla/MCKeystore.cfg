SPECIFICATION FairSpec
CONSTANTS
  RotationPeriod = 2
  ExpirationPeriod = 5
  Lifetimes = {1}
  Requests = {r1}
  Lag = 1
  MaxTime = 9
  MaxRevocations = 1
INVARIANTS TypeOK TokensHonoured IssuanceSucceeds ExpiredKeysPurged ActiveUsable
PROPERTIES TickRenewsActive ImplementsTokenService
