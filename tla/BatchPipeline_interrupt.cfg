SPECIFICATION Spec
CONSTANTS
  s1 = s1  s2 = s2  d1 = d1
  NumBatches = 2
  SourceWorkers <- TwoSources
  DestWorkers <- OneDest
  MaxSize = 3
  Estimate <- MixedEstimates
  ArchiveSizes = {2}
  CleanupBuffer = FALSE
  KeepOnFailure = FALSE
  CheckpointEnabled = TRUE
  Faults <- InterruptFaults
  Interrupts = TRUE
SYMMETRY Symmetry
INVARIANTS
  InterruptedNeverSucceeds
PROPERTIES
  RefinesTransfer
