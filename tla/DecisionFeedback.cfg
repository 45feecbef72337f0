SPECIFICATION FairSpec
CONSTANTS
  Tools = {t1}
  Episodes = {e1}
  Feedbacks = {f1}
  Texts = {x1}
  MaxPolicies = 2
  Threshold = 2
  Window = 3
  Cooldown = 1
  MaxSteps = 3
  MaxTime = 1
  MaxEvents = 2
INVARIANTS RepairsAddUp EvidenceAddsUp
PROPERTIES GuidanceStands BurstIsAStreak FeedbackReturns
CHECK_DEADLOCK FALSE
