SPECIFICATION FairSpec
CONSTANTS
  Size = 2
  Chunk = 3
  Total = 5
  SourceFails = FALSE
  DestFails = TRUE
  Swallows = FALSE
  Progress = FALSE
  Cancels = FALSE
  Stops = FALSE
PROPERTIES
  ErrorStopsAll
CHECK_DEADLOCK FALSE
