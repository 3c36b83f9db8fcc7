SPECIFICATION CoreSpec
CONSTANTS
  CurrentCommands = {0, 1}
  SpeedCommands = {0, 2}
  CalibrationSamples = 2
  CalibrationTimeout = 2
  StopDwell = 1
  MaxCommands = 1
  DisciplinedClear = TRUE
INVARIANTS Safety NobodyWaits
PROPERTIES StartsFromZero SpeedStopsAfterDwell ClearedOnlyWhenOff FaultedLeavesByRecovery KeepsContract CalibrationEnds FaultTurnsPwmOff StopEnds
