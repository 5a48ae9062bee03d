\* A finish of a run whose start has not returned.
SPECIFICATION Spec
CONSTANTS
  Starters = {s1}
  Finishers = {f1}
  Invalidators = {}
  Runs = {r1}
  None = None
  StartTries = 2
  ReadTries = 2
  EarlyCallers = TRUE
  MaxFaults = 1
  MaxSwaps = 0
  MaxKills = 0
  MaxOutages = 0
SYMMETRY Symmetry
INVARIANT AckedFinishStands
