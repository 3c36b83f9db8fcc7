SPECIFICATION PartSpec
CONSTANTS
  PhaseFaults <- MCPhases
  MainFaults <- MCMain
  TickFaults <- MCTick
  AdcFaults <- MCAdc
  FifoSize <- MCFifoSize
  MaxVersion <- MCMaxVersion
INVARIANTS IInv TxSafety TxGoesOn
PROPERTIES SerialisedIsSession FaultStays ClearedIsCalm BusOrder LatestArrives
