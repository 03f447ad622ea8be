SPECIFICATION Spec
CONSTANTS
  MaxEpisodes = 3
  MaxSteps = 5
  InitActions = 2
  QueueSize = 4
  StatusQueueSize = 2
  InOrderDelivery = TRUE
  SettledReset = TRUE
  AccurateWatchdog = TRUE
  LossyActions = {}
INVARIANTS TypeOK OneTurn NoStaleAction PlansFromLatestPose VerdictFromThisEpisode ReadyForThisEpisode
PROPERTIES FinishIsFinal ImplementsLockstep
