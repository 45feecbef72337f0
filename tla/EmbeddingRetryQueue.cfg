SPECIFICATION FairSpec
CONSTANTS
  Workers = {w1, w2, w3}
  Jobs = {j1}
  NoWorker = NoWorker
  MaxAttempts = 2
  LeaseTicks = 2
  BackoffBase = 1
  BackoffCap = 2
  RetryAfterMax = 2
  BatchSize = 1
  MaxText = 3
  MaxCrashes = 1
INVARIANTS TypeOK HeldClaimIsCurrent AttemptsAccounted
PROPERTIES LeaseProtects KeepsPromise SettlesUnlessOrphaned
CHECK_DEADLOCK FALSE
