SPECIFICATION RewardFairSpec
CONSTANTS
  Runs = {r1, r2}
  MinExchanges = 2
  MaxAttempts = 2
  MaxTurns = 2
  MaxFeedback = 1
  MaxReopens = 2
  MaxDeletes = 1
  MaxFaults = 2
  MaxCrashes = 1
  MaxReflects = 2
  MaxTimers = 1
INVARIANTS RewardTypeOK
PROPERTIES ScoreSettles ComesToRest
CHECK_DEADLOCK FALSE
