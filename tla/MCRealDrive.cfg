SPECIFICATION FairSpec
CONSTANTS
  MaxDuration = 2
  ReplanTime = 1
  AgeCap = 4
  EndThreshold = 1
  ChangeDelay = 0
  ReplanTimeout = 1
  MaxPlans = 2
  MaxGoals = 1
  MaxTurns = 1
INVARIANTS TypeOK WatchesWhatItFollows CommandIsCurrent CondemnedIsAbandoned 
PROPERTIES   FinishComesToRest
