SPECIFICATION Spec
CONSTANTS
  Frontiers = {"f"}
  Objects = {"o"}
  Places = {"a", "b"}
  Distance <- DistanceTable
  Turns = 1
  MaxStuckingCount = 3
  MaxStuckingNextPosCount = 2
  MaxEpisodes = 2
INVARIANTS TypeOK ActionHasPlan ReachedIsObject OldTargetsAreExtreme
CHECK_DEADLOCK FALSE
