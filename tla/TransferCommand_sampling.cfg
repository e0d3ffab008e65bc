SPECIFICATION Spec
CONSTANTS
  Inputs <- MCInputs
  ArgLists <- MCArgLists
  Environments <- MCEnvironments
  FlagSets <- MCFlagSets
  Directories <- MCDirectories
  NewThresholds <- MCNewThresholds
  SomeThresholds <- MCSomeThresholds
INVARIANTS
  ManySmallGetTar
CHECK_DEADLOCK FALSE
