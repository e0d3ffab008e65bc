SPECIFICATION FairSpec
CONSTANTS
  s1 = s1  s2 = s2  d1 = d1
  NumBatches = 4
  SourceWorkers <- OneSource
  DestWorkers <- OneDest
  MaxSize = 4
  Estimate <- EqualEstimates
  ArchiveSizes = {1}
  CleanupBuffer = TRUE
  KeepOnFailure = TRUE
  CheckpointEnabled = FALSE
  Faults = {"extract"}
  Interrupts = FALSE
INVARIANTS
  AccountCoversDisk
  SpaceReturned
PROPERTIES
  TransferReturns
