SPECIFICATION Spec
CONSTANTS
  Inodes = {1, 2}
  MaxRecords = 17
  MaxRuns = 4
  MaxKills = 1
INVARIANT ReceiptProvesAbsence
CHECK_DEADLOCK FALSE
