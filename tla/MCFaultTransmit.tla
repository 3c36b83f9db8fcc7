--------------------------- MODULE MCFaultTransmit ---------------------------
(***************************************************************************)
(* Small instances of the fault mask, where a fault is held, and of the      *)
(* transmit path, which takes it to the bus.  FaultMask and CanTransmit      *)
(* share no variable, so that each is explored with the other at rest:       *)
(* "part" says which of the two runs.                                        *)
(*                                                                         *)
(* One phase, one cause of each writer of its own and the two that they      *)
(* share.  With a FIFO of two, one place may be free while the other is      *)
(* taken, and with two versions a message is overwritten while its           *)
(* predecessor waits.                                                        *)
(***************************************************************************)
EXTENDS FaultMask, CanTransmit

MCPhases == {"PHASE_A"}
MCMain   == {"CURRENT_SENSOR"}
MCTick   == {"PWM"}
MCAdc    == {"CURRENT_SENSOR", "PWM"}

MCFifoSize == 2
MCMaxVersion == 2

VARIABLE part

partVars == <<part, vars, txVars>>

PartInit == Init /\ TxInit /\ part \in {"mask", "transmit"}

OfMask == part = "mask" /\ Next /\ UNCHANGED <<part, txVars>>
OfTransmit(A) == part = "transmit" /\ A /\ UNCHANGED <<part, vars>>

PartNext == OfMask \/ OfTransmit(TxNext)

(* Main goes on sending; what is checked of the mask needs no fairness.      *)
PartSpec == PartInit /\ [][PartNext]_partVars /\ WF_partVars(OfTransmit(TxMain))

=============================================================================
