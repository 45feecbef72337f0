SPECIFICATION Spec
CONSTANTS
  Sessions = {s1}
  Callers = {c1, c2}
  Keys = {k1, k2}
  NoSession = NoSession
  NoKey = NoKey
  MergeMode = TRUE
  MaxTurns = 2
  RowLimit = 1
  Serial = FALSE
  MayExpire = TRUE
  MaxEpisodes = 2
  TurnBound = 2
  MaxDirect = 1
  MaxRestarts = 0
SYMMETRY Symmetry
INVARIANTS RetryRecordedOnce
CHECK_DEADLOCK FALSE
