SPECIFICATION Spec
CONSTANTS
  Traces <- MCTraces
  MaxPolicies = 2
  MinEpisodes = 1
  MinSupport = 2
  MaxEvents = 3
  MaxThrows = 1
INVARIANTS PromotionsCounted
PROPERTIES ArchivedStands
CHECK_DEADLOCK FALSE
