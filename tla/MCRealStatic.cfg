SPECIFICATION Spec
CONSTANTS
  MaxDuration = 3
  ReplanTime = 1
  AgeCap = 5
  EndThreshold = 1
  ChangeDelay = 0
  ReplanTimeout = 1
  MaxPlans = 2
  MaxGoals = 0
  MaxTurns = 0
INVARIANTS StaticMeansAtRest
