SPECIFICATION FairSpec
CONSTANTS
  p1 = p1
  p2 = p2
  s1 = s1
  None = None
  Coordinators <- MCCoordinators
  Serial <- MCSerial
  RunOf <- MCRunOf
  MaxStarts = 3
  MaxKills = 1
  MaxLosses = 1
  MaxEdits = 1
INVARIANTS
  PointerIsWhole
  ReportedPairStands
PROPERTIES
  NothingReplacedUnseen
  WriterLeaseIsReturned
CHECK_DEADLOCK FALSE
