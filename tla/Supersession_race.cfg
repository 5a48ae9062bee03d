\* Two finishes that overlap and supersede each other.
SPECIFICATION Spec
CONSTANTS
  Finishers = {f1, f2}
  Readers = {}
  Runs = {r1, r2}
  None = None
SYMMETRY Symmetry
INVARIANT NoSupersessionCycle
