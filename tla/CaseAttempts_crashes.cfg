SPECIFICATION FairSpec
CONSTANTS
  LastCase = 2
  MaxRuns = 3
  MaxKills = 3
  MaxFailures = 2
INVARIANTS
  RecordsAreTrue
  TornDownMeansGone
  OwnedCasesAreCleaned
  EpochsAreJudgedRightly
PROPERTIES
  EveryCoordinatorEnds
CHECK_DEADLOCK FALSE
