CONSTANTS
  Jobs = {1, 2}
  Workers = {w1, w2}
  DefaultMaxAttempts = 2
  AttemptCap = 4
  Nobody = Nobody
  Decisions = {1}
  Mode <- MCMode
  Actors = {a, b, c, e}
  Absentee = a
  Author = e
  Pool = {a, b, c}
  Preferred = {b}
  FirstCohort = {a}
  Required = 2
  RecoveryAttempts = 1
  NoActor = NoActor
  MaxFaults = 1
  MaxChanges = 1
SPECIFICATION BoundedSpec
SYMMETRY WorkerSymmetry
PROPERTIES ImplementsHistory RequestsAreAuthorized SwapsAreCurrent
CHECK_DEADLOCK FALSE
