SPECIFICATION FairSpec
CONSTANTS
  CurrentCommands = {0, 1}
  SpeedCommands = {0, 1}
  CalibrationSamples = 1
  CalibrationTimeout = 1
  StopDwell = 1
  MaxCommands = 1
  DisciplinedClear = TRUE
PROPERTIES ServedClearReleases
