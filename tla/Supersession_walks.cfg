\* Two finishes beside a reader and new drafts.
SPECIFICATION FairSpec
CONSTANTS
  Finishers = {f1, f2}
  Readers = {c1}
  Runs = {r1, r2, r3}
  None = None
INVARIANT CycleNeedsOverlap
INVARIANT CycleVerdictsAreRight
INVARIANT NoReaderMissesASuccessor
PROPERTY EveryWalkEnds
