------------------------- MODULE DurableParameters --------------------------
(***************************************************************************)
(* What the Flash parameter storage promises across resets and power loss  *)
(* (docs/flash_parameter_storage.md): the confirmed parameter set is what  *)
(* every later start finds, or the set of a save that was under way, and   *)
(* nothing older comes back unless an erase removed the confirmed one.     *)
(***************************************************************************)
CONSTANTS Sets, NoSet

VARIABLES
  confirmed,  \* the set the firmware stands on, NoSet if there is none
  attempt,    \* the set of a save that was written and not reported as done
  older,      \* a superseded set that is still there
  erasing     \* an erase was asked for and is being carried out

dvars == <<confirmed, attempt, older, erasing>>

Init ==
  /\ confirmed = NoSet /\ attempt = NoSet /\ older = NoSet /\ erasing = FALSE

(* A save first takes away whatever lies beside the confirmed set ...      *)
Begin == attempt' = NoSet /\ older' = NoSet /\ UNCHANGED <<confirmed, erasing>>

(* ... then writes the new set there ...                                   *)
Write(s) ==
  /\ attempt = NoSet /\ older = NoSet
  /\ attempt' = s /\ UNCHANGED <<confirmed, older, erasing>>

(* ... and may report success.  A load or a start adopts it as well.       *)
Confirm ==
  /\ attempt # NoSet
  /\ confirmed' = attempt /\ older' = confirmed /\ attempt' = NoSet
  /\ UNCHANGED erasing

(* With the confirmed set erased a load or a start falls back.             *)
FallBack ==
  /\ confirmed = NoSet /\ attempt = NoSet
  /\ confirmed' = older /\ older' = NoSet
  /\ UNCHANGED <<attempt, erasing>>

(* An erase removes the sets one after the other, and may be cut short at   *)
(* either of them.                                                         *)
StartErase == erasing' = TRUE /\ UNCHANGED <<confirmed, attempt, older>>
EraseConfirmed ==
  /\ erasing /\ erasing' \in BOOLEAN
  /\ confirmed' = NoSet /\ UNCHANGED <<attempt, older>>
EraseOther ==
  /\ erasing /\ erasing' \in BOOLEAN
  /\ attempt' = NoSet /\ older' = NoSet /\ UNCHANGED confirmed
EndErase == erasing' = FALSE /\ UNCHANGED <<confirmed, attempt, older>>

Next ==
  \/ Begin \/ (\E s \in Sets : Write(s)) \/ Confirm \/ FallBack
  \/ StartErase \/ EraseConfirmed \/ EraseOther \/ EndErase

Spec == Init /\ [][Next]_dvars

=============================================================================
