SPECIFICATION Spec
CONSTANTS
  s1 = s1  s2 = s2  d1 = d1
  NumBatches = 3
  SourceWorkers <- TwoSources
  DestWorkers <- OneDest
  MaxSize = 3
  Estimate <- EqualEstimates
  ArchiveSizes = {1, 3}
  CleanupBuffer = TRUE
  KeepOnFailure = FALSE
  CheckpointEnabled = TRUE
  Faults <- AllFaults
  Interrupts = FALSE
SYMMETRY Symmetry
INVARIANTS
  TypeOK
  NoDoubleDelivery
  CompletedMeansDelivered
  ErrorChannelsOpenInUse
  QuietOnReturn
  SuccessLeavesNothingBehind
  AccountWithinLimit
  FinalCheckpointCurrent
PROPERTIES
  RefinesTransfer
