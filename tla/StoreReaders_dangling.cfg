\* A snapshot that reads a draft, which is then finished and invalidated.
SPECIFICATION ReadersSpec
CONSTANTS
  Starters = {s1}
  Finishers = {f1}
  Invalidators = {i1}
  Runs = {r1}
  None = None
  Readers = {x1}
  Selected = {r1}
  StartTries = 1
  ReadTries = 1
  EarlyCallers = FALSE
  MaxFaults = 0
  MaxSwaps = 0
  MaxKills = 0
  MaxOutages = 0
SYMMETRY Symmetry
INVARIANT DanglingVerdictsAreRight
