SPECIFICATION CaptureFairSpec
CONSTANTS
  Passes = {p1, p2, p3}
  Serial = TRUE
  MaxSteps = 2
  MaxReopens = 1
  MaxRecoveries = 1
  MaxFaults = 1
  MaxCrashes = 1
INVARIANTS DoneMeansStored StepsKeptApart
PROPERTIES ClosedIsReflected
CHECK_DEADLOCK FALSE
