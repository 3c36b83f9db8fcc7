----------------------------- MODULE MCCanNode ------------------------------
(* A small instance of the CANopen node for TLC: two slots of the emergency  *)
(* queue are full with one loss and empty again, one fault, time-out or      *)
(* bus-off meets every command of the master at every step.                  *)
EXTENDS CanNode

MCEmergencySlots == 2
MCMaxTroubles == 1
MCRequests == Commands

=============================================================================
