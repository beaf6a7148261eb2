CONSTANTS
  Jobs = {j1}
  Workers = {w1}
  WorkerIds = {id}
  WorkerId <- SharedWorkerId
  DefaultMaxAttempts = 2
  AttemptCap = 6
  NoWorker = NoWorker
  NoLease = NoLease
  human = human
  human2 = human2
  auto = auto
  none = none
  shadow = shadow
  Decisions = {human, human2, auto, none, shadow}
  RouteOf <- Route
  NoDecision = NoDecision
  FinalizationAttempts = 2
SPECIFICATION RoutingSpec
INVARIANTS OneCheckRun
PROPERTIES FinalizedChecksFailed
