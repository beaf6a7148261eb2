CONSTANTS
  Jobs = {j1}
  Workers = {w1}
  WorkerIds = {id}
  WorkerId <- SharedWorkerId
  DefaultMaxAttempts = 2
  AttemptCap = 3
  NoWorker = NoWorker
  NoLease = NoLease
  human = human
  human2 = human2
  auto = auto
  none = none
  shadow = shadow
  Decisions = {human}
  RouteOf <- Route
  NoDecision = NoDecision
  FinalizationAttempts = 1
SPECIFICATION RoutingSpec
PROPERTIES PermanentFailureConcludesCheck
