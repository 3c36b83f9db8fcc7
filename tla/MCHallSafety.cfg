SPECIFICATION Spec
CONSTANTS
  s0 = s0
  s1 = s1
  s2 = s2
  s3 = s3
  Sectors <- MCSectors
  Forward <- MCForward
  Broken = Broken
  LinesBreak = TRUE
  Period = 3
  Burst = 2
  Latency = 1
SYMMETRY Rotations
INVARIANTS Safety SpeedIsTrue CleanEdgesDecode
