SPECIFICATION Spec
CONSTANTS
  CurrentCommands = {0, 1}
  SpeedCommands = {0, 2}
  CalibrationSamples = 2
  CalibrationTimeout = 2
  StopDwell = 1
  MaxCommands = 2
  DisciplinedClear = FALSE
PROPERTIES FaultedLeavesByRecovery
