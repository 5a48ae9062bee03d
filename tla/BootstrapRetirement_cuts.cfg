SPECIFICATION Spec
CONSTANTS
  Inodes = {1, 2}
  MaxRecords = 17
  MaxRuns = 6
  MaxKills = 3
INVARIANTS
  CredentialsAreOwned
  ReceiptIsTrue
  RefusalsAreExplained
  TornDownIsComplete
CHECK_DEADLOCK FALSE
