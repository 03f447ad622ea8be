SPECIFICATION Spec
CONSTANTS
  Dataset = 3
  EvalLimits = {0}
  Results = {"success", "no frontier"}
  MaxCrashes = 1
INVARIANTS ResumesFromAllCompleted
CHECK_DEADLOCK FALSE
