SPECIFICATION FairSpec
CONSTANTS
  DebugSource = FALSE
  OperationModes = {"velocity"}
INVARIANTS NobodyWaits
PROPERTIES FaultEnds
