\* A snapshot of two runs beside their changes, a failing call, a power loss.
SPECIFICATION ReadersSpec
CONSTANTS
  Starters = {s1, s2}
  Finishers = {f1}
  Invalidators = {i1}
  Runs = {r1, r2}
  None = None
  Readers = {x1}
  Selected = {r1, r2}
  StartTries = 1
  ReadTries = 1
  EarlyCallers = FALSE
  MaxFaults = 0
  MaxSwaps = 0
  MaxKills = 0
  MaxOutages = 1
SYMMETRY Symmetry
INVARIANT SnapshotOfOneStore
INVARIANT SnapshotStands
