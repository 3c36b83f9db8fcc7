SPECIFICATION FairSpec
CONSTANTS
  Configs <- MCEven
  CurrentRequests <- MCEvenCurrent
  SpeedRequests <- MCNoSpeed
PROPERTIES TargetIsReached
