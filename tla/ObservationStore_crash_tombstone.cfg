\* A finish killed before its fsync, an invalidation, a power loss.
SPECIFICATION Spec
CONSTANTS
  Starters = {s1}
  Finishers = {f1}
  Invalidators = {i1}
  Runs = {r1}
  None = None
  StartTries = 2
  ReadTries = 2
  EarlyCallers = FALSE
  MaxFaults = 0
  MaxSwaps = 0
  MaxKills = 1
  MaxOutages = 1
SYMMETRY Symmetry
INVARIANT TombstoneOnFinal
