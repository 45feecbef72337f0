SPECIFICATION Spec
CONSTANTS
  Policies <- MCPolicies
  MinPolicies = 1
  MaxFailures = 2
  MaxModels = 1
  MaxEvents = 4
INVARIANTS LimitsHold
CHECK_DEADLOCK FALSE
