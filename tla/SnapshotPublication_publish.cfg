\* Three publishers, a home to create or not, failures, a kill, a power loss.
SPECIFICATION FairSpec
CONSTANTS
  Publishers = {p1, p2, p3}
  None = None
  FreshHome = TRUE
  MaxFaults = 1
  MaxKills = 1
  MaxOutages = 1
INVARIANT ReportsAreTrue
PROPERTY NeverOverwritten
PROPERTY ReportedArtifactStands
PROPERTY EveryPublisherReturns
