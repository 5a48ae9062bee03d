\* Two publishers create the home of their artifact, then a power loss.
SPECIFICATION Spec
CONSTANTS
  Publishers = {p1, p2}
  None = None
  FreshHome = TRUE
  MaxFaults = 0
  MaxKills = 0
  MaxOutages = 1
SYMMETRY Symmetry
INVARIANT ReportedArtifactIsDurable
