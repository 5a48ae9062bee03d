\* Failing system calls and a kill, under fair scheduling: two finishes and an
\* invalidation of one run; the store implements RunLedger.
SPECIFICATION FairSpec
CONSTANTS
  Starters = {s1}
  Finishers = {f1, f2}
  Invalidators = {i1}
  Runs = {r1}
  None = None
  StartTries = 2
  ReadTries = 2
  EarlyCallers = FALSE
  MaxFaults = 2
  MaxSwaps = 0
  MaxKills = 1
  MaxOutages = 0
INVARIANT NothingIsLeftBehind
INVARIANT TombstoneOnFinal
PROPERTY EveryCallReturns
PROPERTY ImplementsRunLedger
