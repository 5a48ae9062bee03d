\* Two runs: a failing call, a replaced lock file and a power loss.
SPECIFICATION Spec
CONSTANTS
  Starters = {s1, s2}
  Finishers = {f1, f2}
  Invalidators = {}
  Runs = {r1, r2}
  None = None
  StartTries = 2
  ReadTries = 2
  EarlyCallers = FALSE
  MaxFaults = 1
  MaxSwaps = 1
  MaxKills = 0
  MaxOutages = 1
SYMMETRY Symmetry
INVARIANTS
  AckedStartStands
  AckedFinishStands
