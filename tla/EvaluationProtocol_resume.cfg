SPECIFICATION FairSpec
CONSTANTS
  Plan <- UnevenLanes
  MaxTokens = 2
  Usages = {1}
  MaxRuns = 2
  MaxKills = 1
  MaxFailures = 1
INVARIANTS
  LedgerIsRebuilt
  EveryMessageIsAuthorised
  EveryMessageIsBorneOut
  CleanupIsQuiet
PROPERTIES
  ImplementsDecisionLog
  EveryProcessEnds
CHECK_DEADLOCK FALSE
