SPECIFICATION Spec
CONSTANTS
  Sessions = {s1}
  Callers = {c1, c2}
  Keys = {}
  NoSession = NoSession
  NoKey = NoKey
  MergeMode = TRUE
  MaxTurns = 3
  RowLimit = 3
  Serial = TRUE
  MayExpire = FALSE
  MaxEpisodes = 3
  TurnBound = 5
  MaxDirect = 0
  MaxRestarts = 3
SYMMETRY Symmetry
INVARIANTS TypeOK IndexesFindTheirEpisode OneOpenEpisode QuestionStaysOpen OpenTopicIsNewest
CHECK_DEADLOCK FALSE
