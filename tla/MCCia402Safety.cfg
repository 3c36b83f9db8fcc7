SPECIFICATION Spec
CONSTANTS
  DebugSource = TRUE
  OperationModes = {"torque", "velocity", "none"}
INVARIANTS Safety
PROPERTIES OthersKeepRunning AcknowledgedExit ReportSettles KeepsContract
