SPECIFICATION Spec
CONSTANTS
  Calls <- MCCalls
  Cancels = TRUE
  Words = {"p"}
  Lines = 3
  PipeLines = 1
  LongLines = TRUE
  Trees <- MCTrees
  Filters <- MCFilters
  FileSize = 3
  Window = 1
INVARIANTS
  ChildMovesWhenAsked
  ArchiveIsFilteredWalk
  ProxySuccessMeansStreamed
  NothingElseLeftOpen
PROPERTIES
  EngineReturns
CHECK_DEADLOCK FALSE
