--------------------------- MODULE DriveInvariant ---------------------------
(***************************************************************************)
(* The inductive invariant of the drive lifecycle.  Its parts say what the *)
(* program point of the main loop guarantees about the shared state: every *)
(* one of them is stable under the ADC interrupt and the tick, which is    *)
(* what makes the unlocked code correct.                                   *)
(***************************************************************************)
EXTENDS DriveLifecycle

Running == {"CURRENT_RUNNING", "SPEED_RUNNING", "RAMP_TO_ZERO"}

(* Points of a start up to the one where the outputs go on.                *)
ColdPcs  == {"startZero", "startSpeedZero", "startChecks", "startMode", "startTarget",
             "enable", "enableHal"}
ArmedPcs == {"startMode", "startTarget", "enable", "enableHal"}

(* Points at which the outputs are certainly off, the control mode is       *)
(* certainly DISABLED, and those at which they may be on whatever the       *)
(* lifecycle state says.                                                    *)
OffPcs   == CalPcs \cup ParameterPcs \cup ColdPcs
              \cup {"stopFlag", "stopReady", "disableFlag", "recoverSet"}
QuietPcs == CalPcs \cup ParameterPcs
              \cup {"startZero", "startSpeedZero", "startChecks", "startMode",
                    "stopZero", "stopHal", "stopHalLocked", "stopFlag", "stopReady",
                    "disableState", "disableHal", "disableHalLocked", "disableFlag",
                    "recoverSet"}
OnPcs    == {"enableFlag", "recheck", "setCommand", "setRunning", "disableMode",
             "disableState", "disableHal", "disableHalLocked", "stopHalLocked"}
ModePcs  == {"startTarget", "enable", "enableHal", "enableFlag", "recheck", "setCommand",
             "setRunning", "disableMode"}

(* is_enabled lags behind the outputs only inside pwm_driver_enable().     *)
FlagFollowsOutputs ==
  /\ outputs => is_enabled \/ pc = "enableFlag"
  /\ pc \in {"enableHal", "enableFlag"} => ~is_enabled

OutputsAreAccountedFor ==
  /\ pc \in OffPcs => ~outputs
  /\ outputs => drive_state \in Running \/ pc \in OnPcs

ModeIsAccountedFor ==
  /\ pc \in QuietPcs => mode = "DISABLED"
  /\ mode # "DISABLED" => drive_state \in Running \/ pc \in ModePcs

StateIsAccountedFor ==
  /\ pc \in CalPcs => drive_state \in {"CALIBRATION", "FAULTED"}
  /\ pc \in StartPcs \cup ParameterPcs =>
       drive_state \in {"READY", "FAULTED"} /\ tick # "publish"
  /\ pc \in StopPcs => drive_state \in Running \cup {"FAULTED"}
  /\ pc \in {"disableHal", "disableHalLocked", "disableFlag", "recoverSet"} =>
       drive_state = "FAULTED"

WindowIsClosed == pc \in {"apply", "restart"} <=> ~sampling

(* A start past its checks carries zero references to the output start.    *)
StartIsCold ==
  /\ pc \in ArmedPcs => current_command = 0 /\ speed_command = 0 /\ ramp = 0
  /\ pc \in {"enable", "enableHal"} /\ mode = "SPEED" => ~speed_target

(* Before COMPLETE nothing has left CALIBRATION, but for a fault, and        *)
(* nothing that would is under way.                                        *)
CalibrationIsFirst ==
  calibration # "COMPLETE" =>
    /\ ~outputs /\ mode = "DISABLED" /\ drive_state \in {"CALIBRATION", "FAULTED"}
    /\ pc \notin StartPcs \cup StopPcs \cup {"calReady", "rampState", "recoverSet"}

(* A speed stop counts its dwell on a limiter that has reached zero, and the *)
(* limiter only ever runs behind what the tick has last seen of it.        *)
StopIsCounted ==
  /\ ramp <= ramp_seen
  /\ pc = "rampState" \/ drive_state = "RAMP_TO_ZERO" => speed_command = 0
  /\ drive_state = "RAMP_TO_ZERO" /\ pc # "rampDwell" /\ dwell # 0 => ramp_seen = 0
  /\ pc \in StopPcs /\ drive_state = "RAMP_TO_ZERO" =>
       kind = "SPEED" /\ dwell = StopDwell

(* The conjunction every step preserves.                                   *)
IInv ==
  /\ TypeOK
  /\ FlagFollowsOutputs
  /\ OutputsAreAccountedFor
  /\ ModeIsAccountedFor
  /\ StateIsAccountedFor
  /\ WindowIsClosed
  /\ StartIsCold
  /\ CalibrationIsFirst
  /\ FaultBoundsOutputs
  /\ StopIsCounted

(* With clears that end their turn and come one at a time, a request waits    *)
(* only while main is between operations or disables the drive itself, so   *)
(* that a latch seen free in an operation has been free since it began.     *)
ClearIsGuarded ==
  /\ is_fault_clear_requested =>
       /\ latched /\ pc \in LoopPcs \cup DisablePcs
       /\ pc = "parameters" => drive_state = "FAULTED"
       /\ pc = "command" => drive_state = "FAULTED" \/ issued = MaxCommands
  /\ pc = "clearSet" => latched /\ ~is_fault_clear_requested /\ issued = MaxCommands
  /\ pc \in DisablePcs /\ ~latched =>
       drive_state = "FAULTED" /\ mode = "DISABLED" /\ ~is_enabled
  /\ drive_state = "FAULTED" /\ ~latched => pc \in LoopPcs \cup DisablePcs \cup {"recoverSet"}

(* What a start or a stop has reached, unless a fault is latched.           *)
ControlIsHeld ==
  /\ is_enabled => outputs \/ pc \in {"stopFlag", "disableFlag"}
  /\ pc = "enableFlag" => outputs
  /\ pc = "startTarget" => kind = "SPEED"
  /\ pc = "rampState" => drive_state \in {"SPEED_RUNNING", "FAULTED"}
  /\ pc \in StopPcs =>
       drive_state \in {IF kind = "SPEED" THEN "RAMP_TO_ZERO" ELSE "CURRENT_RUNNING", "FAULTED"}
  /\ ~latched =>
       /\ pc \in ModePcs \ {"startTarget", "disableMode"} => mode = kind
       /\ pc \in {"recheck", "setCommand", "setRunning"} => is_enabled
       /\ pc \in LoopPcs \cup {"rampState", "rampDwell", "stopMode"} =>
            /\ drive_state = "CURRENT_RUNNING" => mode = "CURRENT" /\ is_enabled
            /\ drive_state \in {"SPEED_RUNNING", "RAMP_TO_ZERO"} => mode = "SPEED" /\ is_enabled

(* Nothing leads back into a calibration or a speed stop, or round in them: *)
(* a failed calibration is on its way to FAULTED, a stop that has been      *)
(* dwelt on goes through with the latch free.                              *)
EndIsAhead ==
  /\ calibration = "FAILED" /\ drive_state = "CALIBRATION" =>
       pc \in {"latch", "disableMode", "disableState"}
  /\ pc = "rampDwell" => drive_state \in {"RAMP_TO_ZERO", "FAULTED"}
  /\ pc \in StopPcs /\ drive_state = "RAMP_TO_ZERO" => ~latched

(* What a disciplined clear adds to the invariant.                         *)
Held == ClearIsGuarded /\ ControlIsHeld /\ EndIsAhead

(* What every state keeps, whatever main, tick and interrupt have under way  *)
(* in app.c: the inductive invariant (a fault bounds the outputs), outputs  *)
(* only once calibrated, off in READY, and parameters applied alone; with   *)
(* disciplined clears, control under every state that says so.             *)
Safety ==
  /\ IInv /\ CalibrationBeforeOutputs /\ ReadyIsOff /\ ApplyIsExclusive
  /\ DisciplinedClear => Held /\ RunningIsControlled

-----------------------------------------------------------------------------
(* The lifecycle as its callers may take it: AppContract, in which the      *)
(* control mode, the outputs, the ramp and the threads are not seen.        *)
App == INSTANCE AppContract
  WITH state <- drive_state, calibrated <- Calibrated, referenced <- ~CommandsAreZero,
       faulted <- latched, requested <- is_fault_clear_requested

(* With disciplined clears every store of main, tick and interrupt is a step *)
(* of the contract: what app_drive_update(), the starts, the stops and the  *)
(* fault path do between their steps is seen by no caller.                  *)
KeepsContract == App!Spec

=============================================================================
