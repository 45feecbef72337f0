SPECIFICATION FairSpec
CONSTANTS
  Sessions = {a, b}
  Ids = {restored}
  IdOf <- Restored
  MaxTurns = 2
  None = None
INVARIANTS TypeOK CaptureHasSession NothingLeftAtShutdown
PROPERTIES OneAtATime EverythingReturns
CHECK_DEADLOCK FALSE
