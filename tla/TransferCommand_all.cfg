SPECIFICATION Spec
CONSTANTS
  Inputs <- MCInputs
  ArgLists <- MCArgLists
  Environments <- MCEnvironments
  FlagSets <- MCFlagSets
  Directories <- MCDirectories
  NewThresholds <- MCNewThresholds
  SomeThresholds <- MCSomeThresholds
INVARIANTS
  LayersInOrder
  ZeroExitPromises
  TarMeansManySmall
CHECK_DEADLOCK FALSE
