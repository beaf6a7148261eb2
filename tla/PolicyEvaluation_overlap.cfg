CONSTANTS
  Jobs <- MCJobs
  Workers = {w1, w2}
  DefaultMaxAttempts = 1
  AttemptCap = 2
  Nobody = Nobody
  h1 = h1
  h2 = h2
  Heads = {h1}
  RouteOf <- HumanRoutes
  Reviews = {r1}
  Stories = {"reviews"}
  FinalizationAttempts = 1
  MayReturn = FALSE
  MayReopen = TRUE
  MaxFaults = 1
  NoHead = NoHead
  NoJob = NoJob
SPECIFICATION BoundedSpec
PROPERTIES RecordedFailureIsFinal RunsTheLifecycle
CHECK_DEADLOCK FALSE
