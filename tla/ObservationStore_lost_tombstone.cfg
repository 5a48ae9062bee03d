\* A power loss after the first invalidation of a store returned.
SPECIFICATION Spec
CONSTANTS
  Starters = {s1}
  Finishers = {f1}
  Invalidators = {i1}
  Runs = {r1}
  None = None
  StartTries = 2
  ReadTries = 2
  EarlyCallers = FALSE
  MaxFaults = 0
  MaxSwaps = 0
  MaxKills = 0
  MaxOutages = 1
SYMMETRY Symmetry
INVARIANT AckedTombstoneStands
