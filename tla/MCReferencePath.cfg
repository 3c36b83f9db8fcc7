SPECIFICATION FairSpec
CONSTANTS
  Configs <- MCConfigs
  CurrentRequests <- MCCurrent
  SpeedRequests <- MCSpeed
INVARIANTS IInv NobodyWaits
PROPERTIES MovesAreBounded OpenTargetIsReached
