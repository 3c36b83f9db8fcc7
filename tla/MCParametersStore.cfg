SPECIFICATION FairSpec
CONSTANTS
  default = default
  tuned = tuned
  unusable = unusable
  invalid = invalid
  Sets <- MCSets
  Valid <- MCValid
  Usable <- MCUsable
  Defaults = default
  NoSet = NoSet
  Half = 2
  Undisturbed = TRUE
INVARIANTS Safety MainGoesOn
PROPERTIES DurableSpec HeldRequestsAreServed
