SPECIFICATION Spec
CONSTANTS
  w1 = w1
  w2 = w2
  t1 = t1
  t2 = t2
  r1 = r1
  r2 = r2
  g1 = g1
  Locations <- MCLocations
  Listings <- MCListings
  ChunkSize = 2
  Workers <- MCWorkers
  MaxSize = 3
  Sizes = {1, 2, 4}
  Lowest <- MCLowest
  Updates = 2
  Crashes = TRUE
  Ids <- MCIds
  Faults = 2
  Policies <- MCPolicies
  Recorders <- MCRecorders
  Getters <- MCGetters
  Metrics = 2
INVARIANTS
  CheckpointIsCurrent
  TrackerReadsBack
  RetryOutcome
  PackingKeepsOrderAndLimit
PROPERTIES
  LedgerImplementsAccount
  CallsReturn
CHECK_DEADLOCK FALSE
