SPECIFICATION Spec
CONSTANTS
  Width = 5
  Height = 2
  InflationSquared = 1
  Scans <- CorridorScans
  Sight = {2, 3}
  Margin = 2
  ClusterMin = 1
  ClusterSizeSquared = 2
  FinishPercent = 50
  ScansPerUpdate = 3
  StuckCells = {}
  MaxScans = 3
  MaxUpdates = 0
INVARIANT InflationSurrounds
CHECK_DEADLOCK FALSE
