SPECIFICATION FairSpec
CONSTANTS
  Frontiers = {"f", "g"}
  Objects = {}
  Places = {"a"}
  Distance <- DistanceTable
  Turns = 2
  MaxStuckingCount = 3
  MaxStuckingNextPosCount = 2
  MaxEpisodes = 1
PROPERTIES StuckRobotStops AbandonedIsLeft
CHECK_DEADLOCK FALSE
