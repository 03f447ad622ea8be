SPECIFICATION FairSpec
CONSTANTS
  Dataset = 2
  EvalLimits = {0, 3}
  Results = {"success", "no frontier"}
  MaxCrashes = 2
INVARIANTS TypeOK ContinueIsARunningTotal EachNumberIsItsEpisode RecordDescribesWhatIsCounted VideosMatchTotals NeverSkipsAnEpisode ResumesFromAllCounted
PROPERTIES EvaluationFinishes ImplementsLedger
CHECK_DEADLOCK FALSE
