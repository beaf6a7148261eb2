CONSTANTS
  LoginKeys = {k1, k2, k3}
  Window = 3
  MaxFailures = 2
  MaxEntries = 2
  Never = Never
  MaxClock = 7
  MaxGuesses = 5
  Repositories = {r1, r2}
  Acquisitions = {a1, a2}
  NoSnapshot = NoSnapshot
  MaxMoves = 1
  MaxChanges = 1
  Deliveries = {d1, d2}
  Reviews = {d1}
  Requests = {q1}
  Connections = {c1, c2}
  NoConnection = NoConnection
  ShortCutoff = 0
  LongCutoff = 1
  MaxDay = 2
  None = None
  Questions <- MCQuestions
  Lines <- MCLines
  Patterns <- MCPatterns
  Matches <- MCMatches
  Normal <- MCNormal
  Pushes = {1, 2, 3}
  TierOf <- MCTierOf
  RouteOf <- MCRouteOf
  PageSize = 2
  MaxRemarks = 2
SPECIFICATION ServicesSpec
INVARIANTS GuessesAreBounded LocksAreDeserved OwnRequestsAreCounted SelectionIsFair RiskIsMonotone ReviewReceiptsHaveJobs RepositoryDecides ActionsConverge
PROPERTY RecoveriesAreAuthorized
SYMMETRY ServiceSymmetry
CHECK_DEADLOCK FALSE
