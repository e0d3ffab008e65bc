SPECIFICATION Spec
CONSTANTS
  s1 = s1  s2 = s2  d1 = d1
  NumBatches = 2
  SourceWorkers <- OneSource
  DestWorkers <- OneDest
  MaxSize = 3
  Estimate <- EqualEstimates
  ArchiveSizes = {1, 2}
  CleanupBuffer = TRUE
  KeepOnFailure = TRUE
  CheckpointEnabled = TRUE
  Faults <- TransferFaults
  Interrupts = FALSE
SYMMETRY Symmetry
INVARIANTS
  SuccessMeansAllCompleted
