SPECIFICATION Spec
CONSTANTS
  LastCase = 1
  MaxRuns = 3
  MaxKills = 0
  MaxFailures = 1
INVARIANT PermittedRetryRuns
CHECK_DEADLOCK FALSE
