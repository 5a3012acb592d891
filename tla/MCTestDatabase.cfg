SPECIFICATION Spec
CONSTANTS
  Databases = {d1, d2}
  Examples = {e1}
  Nobody = nobody
  ConnectTimeout = 4
  HealthTimeout = 5
  PingTime = 1
CHECK_DEADLOCK FALSE
INVARIANTS TypeOK ReadyIsOwn AloneIsTidy NothingLeftSilently PingsBounded
PROPERTIES StepsRunOut
