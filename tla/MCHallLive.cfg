SPECIFICATION FairSpec
CONSTANTS
  s0 = s0
  s1 = s1
  s2 = s2
  s3 = s3
  Sectors <- MCSectors
  Forward <- MCForward
  Broken = Broken
  LinesBreak = TRUE
  Period = 3
  Burst = 1
  Latency = 1
INVARIANTS NobodyWaits
PROPERTIES StandstillIsSeen
