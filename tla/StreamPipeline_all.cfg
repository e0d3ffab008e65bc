SPECIFICATION FairSpec
CONSTANTS
  Size = 2
  Chunk = 3
  Total = 5
  SourceFails = TRUE
  DestFails = TRUE
  Swallows = TRUE
  Progress = TRUE
  Cancels = TRUE
  Stops = TRUE
INVARIANTS
  TypeOK
  DestinationIsPrefix
  NilMeansComplete
  CopyEndsBeforeStart
PROPERTIES
  StartEnds
  ImplementsCopy
CHECK_DEADLOCK FALSE
