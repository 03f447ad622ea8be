SPECIFICATION FairSpec
CONSTANTS
  MaxEpisodes = 2
  MaxSteps = 3
  InitActions = 1
  QueueSize = 4
  StatusQueueSize = 1
  InOrderDelivery = TRUE
  SettledReset = TRUE
  AccurateWatchdog = TRUE
  LossyActions = {"GO"}
INVARIANTS OneTurn
PROPERTIES AllEpisodesEvaluated
