\* Every store of three runs over ten records, of both schemas.
SPECIFICATION Spec
CONSTANTS
  g = g
  odd = odd
  p = p
  q = q
  root = root
  d = d
  f = f
  None = None
  Runs = {r1, r2, r3}
  Generations = {g, odd}
  Unscalar = {odd}
  Rooted = {root}
  WithinLimit <- MCWithinLimit
  MaxCandidates = 14
  Decisions = {d, f}
  Records <- MCRecords
  Mappings <- MCMappings
  Queries = {None, p}
  Since = 1
  Until = 3
  AsOf = 3
  StaleAfter = 1
  MinSupport = 2
  MinRatio <- MCRatio
  MinOutcomes = 2
SYMMETRY Symmetry
CHECK_DEADLOCK FALSE
INVARIANT OnlyTheseAreRefused
INVARIANT EveryEpisodeIsAccounted
INVARIANT OnlyValidOutcomesSpeak
INVARIANT MigrationIsARebuild
INVARIANT RecurringIsEarned
