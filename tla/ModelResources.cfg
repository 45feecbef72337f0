SPECIFICATION FairSpec
CONSTANTS
  Turns = {t1, t2, t3}
  Embeds = {e1, e2}
  Llms = {l1, l2}
  Capacity = 1
  LlmLimit = 1
  MaxForegroundBurst = 2
INVARIANTS TypeOK PermitsConserved NothingWaitsInVain
PROPERTIES QueuedIsServed
CHECK_DEADLOCK FALSE
