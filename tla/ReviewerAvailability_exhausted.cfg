CONSTANTS
  Jobs = {1, 2}
  Workers = {w1}
  DefaultMaxAttempts = 2
  AttemptCap = 4
  Nobody = Nobody
  Decisions = {1}
  Mode <- MCMode
  Actors = {a, b, c, e}
  Absentee = a
  Author = e
  Pool = {a, b, c}
  Preferred = {b}
  FirstCohort = {a}
  Required = 1
  RecoveryAttempts = 1
  NoActor = NoActor
  MaxFaults = 2
  MaxChanges = 1
SPECIFICATION BoundedSpec
INVARIANTS ExhaustionSettles
CHECK_DEADLOCK FALSE
