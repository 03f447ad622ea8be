SPECIFICATION Spec
CONSTANTS
  Frontiers = {"g"}
  Objects = {}
  Places = {"b"}
  Distance <- DistanceTable
  Turns = 1
  MaxStuckingCount = 25
  MaxStuckingNextPosCount = 14
  MaxEpisodes = 1
PROPERTIES StuckActionsAccumulate
CHECK_DEADLOCK FALSE
