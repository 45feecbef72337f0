SPECIFICATION FairSpec
CONSTANTS
  Policies = {p1}
  Episodes = {e1, e2}
  MaxSkills = 2
  CandidateTrials = 1
  MaxEvents = 4
INVARIANTS SkillsAddUp
PROPERTIES RetiredStands WaitingPolicyRuns
CHECK_DEADLOCK FALSE
