CONSTANTS
  Jobs <- MCJobs
  Workers = {w1}
  DefaultMaxAttempts = 2
  AttemptCap = 4
  Nobody = Nobody
  h1 = h1
  h2 = h2
  Heads = {h1, h2}
  RouteOf <- MixedRoutes
  Reviews = {r1, r2}
  Stories = {"pushes", "reviews"}
  FinalizationAttempts = 1
  MayReturn = FALSE
  MayReopen = FALSE
  MaxFaults = 2
  NoHead = NoHead
  NoJob = NoJob
SPECIFICATION BoundedFairSpec
INVARIANTS CheckIsCurrent ReplacedRunsAreCompleted
PROPERTIES ShownFailureIsFinal ApprovalsUnblock
CHECK_DEADLOCK FALSE
