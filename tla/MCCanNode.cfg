SPECIFICATION NodeSpec
CONSTANTS
  EmergencySlots <- MCEmergencySlots
  MaxTroubles <- MCMaxTroubles
  Requests <- MCRequests
INVARIANTS NodeSafety
PROPERTIES StatesAreTold
