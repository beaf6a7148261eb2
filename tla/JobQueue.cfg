CONSTANTS
  Jobs = {j1, j2}
  Workers = {w1, w2}
  WorkerIds = {id}
  WorkerId <- SharedWorkerId
  DefaultMaxAttempts = 2
  AttemptCap = 3
  NoWorker = NoWorker
  NoLease = NoLease
SPECIFICATION FairSpec
INVARIANTS SingleOwner
PROPERTIES OwnerOrExpiryEndsAttempt ImplementsLifecycle EveryJobSettles
