SPECIFICATION Spec
CONSTANTS
  Width = 5
  Height = 2
  InflationSquared = 1
  Scans <- CorridorScans
  Sight = {3}
  Margin = 1
  ClusterMin = 1
  ClusterSizeSquared = 2
  FinishPercent = 70
  ScansPerUpdate = 1
  StuckCells <- StuckCell
  MaxScans = 2
  MaxUpdates = 3
INVARIANTS TypeOK NoGhostInflation ListsMatchFlags NoFrontierForgotten
PROPERTIES ForcedStaysDormant KeptTargetIsListed
CHECK_DEADLOCK FALSE
