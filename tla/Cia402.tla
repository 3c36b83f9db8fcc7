------------------------------- MODULE Cia402 --------------------------------
(***************************************************************************)
(* The CiA 402 service (Core/App/canopen_service.c) in the main loop: one  *)
(* call of canopen_service_process() per turn reads the object dictionary, *)
(* moves the power-drive state machine and commands the App through the    *)
(* command router, while the ADC interrupt latches faults and serves fault *)
(* clears between any two of its steps.                                    *)
(*                                                                         *)
(* Abstractions: controlwords are the six classes their masks tell apart   *)
(* (the masks partition all 16-bit words); an App operation is one step up *)
(* to its last store to drive_state, which is a step of its own; the       *)
(* latched fault mask is the set of its two kinds that error codes tell    *)
(* apart; the speed is its position with respect to the two thresholds.    *)
(***************************************************************************)
EXTENDS Naturals

CONSTANTS
  DebugSource,    \* TRUE: drive_debug_command_source drives the motor at times
  OperationModes  \* values of 0x6060, "none" is any but the two supported ones

ASSUME SourceAssumption == DebugSource \in BOOLEAN
ASSUME ModesAssumption == OperationModes \subseteq {"torque", "velocity", "none"}

VARIABLES
  app,             \* app_t.drive_state
  calibrated,      \* the offset calibration is complete
  latched,         \* fault_manager latched_fault_mask, by kind
  clear_requested, \* app_t.is_fault_clear_requested
  referenced,      \* a published command reference is nonzero
  controlword,     \* OD 0x6040
  operation_mode,  \* OD 0x6060
  target,          \* OD 0x6071 or 0x60FF is nonzero
  operational,     \* the NMT state as process() read it
  drive,           \* canopen_service_t.drive_state
  previous,        \* bit 7 of previous_controlword
  overspeed,       \* is_overspeed_fault_latched
  rpdo,            \* is_rpdo_timeout_fault_latched
  pending,         \* is_fault_reset_pending
  reported,        \* is_emergency_reported
  error_code,      \* OD 0x603F
  statusword,      \* the drive state in OD 0x6041
  pc,              \* where the main loop stands
  edge,            \* fault_reset_rising in this call
  app_faulted,     \* is_app_faulted in this call
  goal,            \* the drive state a stop ends in
  starter,         \* history: the command source that started the drive last
  unacknowledged   \* history: a fault latched since the last effective reset edge

appVars     == <<app, calibrated, referenced>>
faultVars   == <<latched, clear_requested>>
networkVars == <<controlword, operation_mode, target, operational>>
latchVars   == <<previous, overspeed, rpdo>>
reportVars  == <<reported, error_code, statusword>>
callVars    == <<edge, app_faulted>>
vars == <<appVars, faultVars, networkVars, latchVars, reportVars, callVars, drive, pending,
          pc, goal, starter, unacknowledged>>

Running      == {"CURRENT_RUNNING", "SPEED_RUNNING"}
AppStates    == Running \cup {"CALIBRATION", "READY", "RAMP_TO_ZERO", "FAULTED"}
DriveStates  == {"SWITCH_ON_DISABLED", "READY_TO_SWITCH_ON", "SWITCHED_ON",
                 "OPERATION_ENABLED", "QUICK_STOP_ACTIVE", "FAULT"}
Enabled      == {"OPERATION_ENABLED", "QUICK_STOP_ACTIVE"}
Faults       == {"trip", "other"}  \* over-current or over-voltage, and the rest
Controlwords == {"disableVoltage", "quickStop", "shutdown", "switchOn", "enableOperation",
                 "faultReset"}
ErrorCodes   == {"NONE", "TRIP", "OVERSPEED", "RPDO_TIMEOUT", "SOFTWARE"}
UpdatePcs    == {"look", "stop", "stopCurrent", "stopSpeed", "stopped", "clear", "clearSet",
                 "exit", "recover", "recoverSet", "transition", "start", "startRun"}
Pcs == UpdatePcs \cup {"update", "rampStop", "debug", "receive", "command", "report"}

(* Every variable keeps its type, and the switch of the state machine is    *)
(* entered only with the node operational and outside FAULT.                *)
TypeOK ==
  /\ app \in AppStates /\ calibrated \in BOOLEAN /\ referenced \in BOOLEAN
  /\ latched \in SUBSET Faults /\ clear_requested \in BOOLEAN
  /\ controlword \in Controlwords /\ operation_mode \in OperationModes \cup {"none"}
  /\ target \in BOOLEAN /\ operational \in BOOLEAN
  /\ drive \in DriveStates /\ goal \in DriveStates
  /\ previous \in BOOLEAN /\ overspeed \in BOOLEAN /\ rpdo \in BOOLEAN
  /\ pending \in BOOLEAN /\ reported \in BOOLEAN /\ error_code \in ErrorCodes
  /\ statusword \in DriveStates
  /\ pc \in Pcs /\ edge \in BOOLEAN /\ app_faulted \in BOOLEAN
  /\ starter \in {"canopen", "debug", "nobody"} /\ unacknowledged \in BOOLEAN
  /\ pc \in {"transition", "start", "startRun"} => drive # "FAULT" /\ operational

(* canopen_service_init() during the offset calibration.                   *)
Init ==
  /\ app = "CALIBRATION" /\ calibrated = FALSE /\ referenced = FALSE
  /\ latched = {} /\ clear_requested = FALSE
  /\ controlword = "disableVoltage" /\ operation_mode = "none"
  /\ target = FALSE /\ operational = FALSE
  /\ drive = "SWITCH_ON_DISABLED" /\ goal = "SWITCH_ON_DISABLED"
  /\ previous = FALSE /\ overspeed = FALSE /\ rpdo = FALSE
  /\ pending = FALSE /\ reported = FALSE /\ error_code = "NONE"
  /\ statusword = "SWITCH_ON_DISABLED"
  /\ pc = "update" /\ edge = FALSE /\ app_faulted = FALSE
  /\ starter = "nobody" /\ unacknowledged = FALSE

-----------------------------------------------------------------------------
(* The rest of the main loop: app_drive_update(), then the debug source.    *)

Step(here, there) == pc = here /\ pc' = there

(* Everything that process() alone writes.                                  *)
ServiceFrame == UNCHANGED <<networkVars, latchVars, reportVars, callVars, drive, pending,
                            goal, unacknowledged>>

(* What App operations alone write.                                         *)
AppFrame == UNCHANGED <<appVars, faultVars, starter>>

UpdateFaulted ==
  /\ latched # {} /\ Step("update", "debug")
  /\ app' = "FAULTED"
  /\ UNCHANGED <<calibrated, referenced, faultVars, starter>> /\ ServiceFrame

(* Nothing to do yet: the calibration or the dwell of a stop goes on.       *)
UpdateNothing == latched = {} /\ Step("update", "debug") /\ AppFrame /\ ServiceFrame

UpdateCalibrated ==
  /\ latched = {} /\ app = "CALIBRATION" /\ Step("update", "debug")
  /\ app' = "READY" /\ calibrated' = TRUE
  /\ UNCHANGED <<referenced, faultVars, starter>> /\ ServiceFrame

UpdateDwelt ==
  /\ latched = {} /\ app = "RAMP_TO_ZERO" /\ Step("update", "rampStop")
  /\ referenced' = FALSE
  /\ UNCHANGED <<app, calibrated, faultVars, starter>> /\ ServiceFrame

(* A stop stores READY, or gives up if it finds that the interrupt, on a    *)
(* fault, has taken the control mode away.                                  *)
StoreReady(expected) ==
  /\ app' \in {"READY"} \cup (IF latched = {} THEN {app} \ {expected} ELSE {app})
  /\ UNCHANGED <<calibrated, referenced, faultVars, starter>> /\ ServiceFrame

RampStop == Step("rampStop", "debug") /\ StoreReady("RAMP_TO_ZERO")

DebugIdle == Step("debug", "receive") /\ AppFrame /\ ServiceFrame

(* The debug source starts a READY drive and commands the drive it started. *)
DebugCommand ==
  /\ DebugSource /\ Step("debug", "receive")
  /\ \/ /\ app = "READY" /\ latched = {}
        /\ app' \in Running /\ starter' = "debug" /\ referenced' \in BOOLEAN
     \/ /\ app \in Running /\ starter = "debug" /\ UNCHANGED starter
        /\ \/ UNCHANGED app /\ referenced' \in BOOLEAN
           \/ /\ app' = IF app = "CURRENT_RUNNING" THEN "READY" ELSE "RAMP_TO_ZERO"
              /\ referenced' = FALSE
  /\ UNCHANGED <<calibrated, faultVars>> /\ ServiceFrame

-----------------------------------------------------------------------------
(* canopen_service_process() up to canopen_service_update_drive_state().    *)

(* An NMT reset request ends the call at once; nobody else acts on it.      *)
ResetRequested == Step("receive", "update") /\ AppFrame /\ ServiceFrame

(* Mutant: bit 7 counts as long as it is set.                               *)
ResetLevel(word) == word = "faultReset"

ResetEdge(word) == word = "faultReset" /\ ~previous

(* History: the bit has risen since the last look at it.                    *)
HasRisen == controlword = "faultReset" /\ ~previous

(* The interrupt is 40 times as frequent as this call, so it has served a   *)
(* clear request of an earlier one.                                         *)
InterruptIsFaster == clear_requested => latched = {}

(* CO_process() and the RPDOs fill the object dictionary, then overspeed    *)
(* and RPDO timeout are latched or released.                                *)
Receive(word, speed, timed_out) ==
  /\ Step("receive", "look") /\ InterruptIsFaster
  /\ controlword' = word /\ operation_mode' \in OperationModes
  /\ target' \in BOOLEAN /\ operational' \in BOOLEAN
  /\ edge' = ResetEdge(word)
  /\ overspeed' = (speed = "over" \/ (overspeed /\ ~(edge' /\ speed = "clear")))
  /\ rpdo' = (timed_out \/ (rpdo /\ ~edge'))
  /\ unacknowledged' = (unacknowledged \/ (overspeed' /\ ~overspeed) \/ (rpdo' /\ ~rpdo))
  /\ AppFrame /\ UNCHANGED <<previous, reportVars, app_faulted, drive, pending, goal>>

(* An invalid speed and one between 95 % and 100 % of the maximum act alike. *)
Speeds == {"clear", "near", "over"}

ReceiveAny ==
  \E word \in Controlwords, speed \in Speeds, timed_out \in BOOLEAN :
    Receive(word, speed, timed_out)

-----------------------------------------------------------------------------
(* canopen_service_update_drive_state().                                    *)

UpdateFrame == UNCHANGED <<networkVars, overspeed, rpdo, reportVars, edge>>

(* Mutant: the latches of the service itself are not looked at.             *)
AppIsFaulted == latched # {}

IsFaulted == latched # {} \/ overspeed \/ rpdo

(* Everything is decided on one look at the latches.                        *)
LookAt(there) ==
  /\ Step("look", there)
  /\ previous' = (controlword = "faultReset") /\ app_faulted' = (latched # {})
  /\ unacknowledged' = (unacknowledged /\ (~HasRisen \/ overspeed \/ rpdo))
  /\ AppFrame /\ UpdateFrame /\ UNCHANGED <<drive, pending>>

LookFaulted == IsFaulted /\ LookAt("stop") /\ goal' = "FAULT"

LookExit == ~IsFaulted /\ drive = "FAULT" /\ LookAt("exit") /\ UNCHANGED goal

LookOffline ==
  /\ ~IsFaulted /\ drive # "FAULT" /\ ~operational /\ LookAt("stop")
  /\ goal' = "SWITCH_ON_DISABLED"

LookHealthy ==
  ~IsFaulted /\ drive # "FAULT" /\ operational /\ LookAt("transition") /\ UNCHANGED goal

CallFrame == UpdateFrame /\ UNCHANGED <<previous, app_faulted, unacknowledged>>

(* Mutant: any running drive is taken for the service's own.                *)
OwnsAny == TRUE

OwnsDrive == drive \in Enabled

(* canopen_service_stop_drive(): STOP only to a drive of its own that runs. *)
StopDrive ==
  /\ pc = "stop"
  /\ IF OwnsDrive /\ app \in Running
       THEN /\ pc' = IF app = "CURRENT_RUNNING" THEN "stopCurrent" ELSE "stopSpeed"
            /\ referenced' = FALSE
       ELSE pc' = "stopped" /\ UNCHANGED referenced
  /\ UNCHANGED <<app, calibrated, faultVars, starter, drive, pending, goal>> /\ CallFrame

StopCurrent == Step("stopCurrent", "stopped") /\ StoreReady("CURRENT_RUNNING")

StopSpeed ==
  /\ Step("stopSpeed", "stopped")
  /\ app' = "RAMP_TO_ZERO"
  /\ UNCHANGED <<calibrated, referenced, faultVars, starter>> /\ ServiceFrame

Stopped ==
  /\ pc = "stopped"
  /\ drive' = goal
  /\ pc' = IF edge /\ app_faulted THEN "clear" ELSE "report"
  /\ AppFrame /\ CallFrame /\ UNCHANGED <<pending, goal>>

(* DRIVE_COMMAND_REQUEST_FAULT_CLEAR: look at the latch, then ask.          *)
ClearLook ==
  /\ pc = "clear" /\ pc' = IF latched # {} THEN "clearSet" ELSE "report"
  /\ AppFrame /\ CallFrame /\ UNCHANGED <<drive, pending, goal>>

(* Mutant: the pending recovery is forgotten.                               *)
ClearSetForgotten ==
  /\ Step("clearSet", "report")
  /\ clear_requested' = TRUE
  /\ UNCHANGED <<appVars, latched, starter, drive, pending, goal>> /\ CallFrame

ClearSet ==
  /\ Step("clearSet", "report")
  /\ clear_requested' = TRUE /\ pending' = TRUE
  /\ UNCHANGED <<appVars, latched, starter, drive, goal>> /\ CallFrame

(* FAULT without a latched fault: left once the App is READY.               *)
ExitFault ==
  /\ pc = "exit"
  /\ IF app = "READY"
       THEN pc' = "report" /\ drive' = "SWITCH_ON_DISABLED" /\ pending' = FALSE
       ELSE pc' = (IF pending THEN "recover" ELSE "report") /\ UNCHANGED <<drive, pending>>
  /\ AppFrame /\ CallFrame /\ UNCHANGED goal

(* DRIVE_COMMAND_RECOVER_FAULT: look at the App, then store READY.          *)
RecoverLook ==
  /\ pc = "recover"
  /\ pc' = IF app = "FAULTED" /\ latched = {} /\ calibrated THEN "recoverSet" ELSE "report"
  /\ AppFrame /\ CallFrame /\ UNCHANGED <<drive, pending, goal>>

RecoverSet ==
  /\ Step("recoverSet", "report")
  /\ app' = "READY" /\ drive' = "SWITCH_ON_DISABLED" /\ pending' = FALSE
  /\ UNCHANGED <<calibrated, referenced, faultVars, starter, goal>> /\ CallFrame

Supported == operation_mode \in {"torque", "velocity"}

(* Which controlword leads from which state where; any other is ignored.    *)
Moves ==
  {<<"SWITCH_ON_DISABLED", "shutdown",        "READY_TO_SWITCH_ON">>,
   <<"READY_TO_SWITCH_ON", "disableVoltage",  "SWITCH_ON_DISABLED">>,
   <<"READY_TO_SWITCH_ON", "switchOn",        "SWITCHED_ON">>,
   <<"SWITCHED_ON",        "disableVoltage",  "SWITCH_ON_DISABLED">>,
   <<"SWITCHED_ON",        "shutdown",        "READY_TO_SWITCH_ON">>,
   <<"SWITCHED_ON",        "enableOperation", "OPERATION_ENABLED">>,
   <<"OPERATION_ENABLED",  "quickStop",       "QUICK_STOP_ACTIVE">>,
   <<"OPERATION_ENABLED",  "disableVoltage",  "SWITCH_ON_DISABLED">>,
   <<"OPERATION_ENABLED",  "switchOn",        "SWITCHED_ON">>,
   <<"OPERATION_ENABLED",  "shutdown",        "READY_TO_SWITCH_ON">>,
   <<"QUICK_STOP_ACTIVE",  "disableVoltage",  "SWITCH_ON_DISABLED">>,
   <<"QUICK_STOP_ACTIVE",  "enableOperation", "OPERATION_ENABLED">>}

Asked == {to \in DriveStates : /\ <<drive, controlword, to>> \in Moves
                               /\ to = "OPERATION_ENABLED" => Supported}

(* To a state without power, by way of a stop.                              *)
LeaveEnabled ==
  /\ drive \in Enabled /\ pc = "transition" /\ pc' = "stop"
  /\ \/ drive = "OPERATION_ENABLED" /\ ~Supported /\ goal' = "SWITCHED_ON"
     \/ (drive = "OPERATION_ENABLED" => Supported) /\ goal' \in Asked \ Enabled
  /\ AppFrame /\ CallFrame /\ UNCHANGED <<drive, pending>>

EnterEnabled ==
  /\ drive = "SWITCHED_ON" /\ "OPERATION_ENABLED" \in Asked /\ Step("transition", "start")
  /\ AppFrame /\ CallFrame /\ UNCHANGED <<drive, pending, goal>>

(* Between two states with, or two without power.                           *)
Move ==
  /\ Step("transition", "command")
  /\ drive = "OPERATION_ENABLED" => Supported
  /\ \/ drive' \in Asked /\ (drive' \in Enabled <=> drive \in Enabled)
     \/ Asked = {} /\ UNCHANGED drive
  /\ AppFrame /\ CallFrame /\ UNCHANGED <<pending, goal>>

(* The control mode that 0x6060 selects for a start and for a reference.    *)
RunningState == IF operation_mode = "torque" THEN "CURRENT_RUNNING" ELSE "SPEED_RUNNING"

(* Mutant: a start is accepted of a drive that is not READY.               *)
StartAnytime ==
  /\ pc = "start"
  /\ \/ /\ latched = {}
        /\ pc' = "startRun" /\ referenced' = FALSE /\ UNCHANGED drive
     \/ pc' = "report" /\ drive' = "FAULT" /\ UNCHANGED referenced
  /\ UNCHANGED <<app, calibrated, faultVars, starter, pending, goal>> /\ CallFrame

(* Mutant: a start is repeated until the App accepts it.                    *)
StartUntilAccepted ==
  /\ pc = "start"
  /\ app = "READY" /\ latched = {}
  /\ pc' = "startRun" /\ referenced' = FALSE
  /\ UNCHANGED <<app, calibrated, faultVars, starter, drive, pending, goal>> /\ CallFrame

(* DRIVE_COMMAND_START_SPEED or _CURRENT with zero references; the App may  *)
(* reject it, for want of a rotor angle among others.                       *)
Start ==
  /\ pc = "start"
  /\ \/ /\ app = "READY" /\ latched = {}
        /\ pc' = "startRun" /\ referenced' = FALSE /\ UNCHANGED drive
     \/ pc' = "report" /\ drive' = "FAULT" /\ UNCHANGED referenced
  /\ UNCHANGED <<app, calibrated, faultVars, starter, pending, goal>> /\ CallFrame

(* The start stores its RUNNING state, unless its recheck finds a fault.    *)
StartRun ==
  /\ pc = "startRun"
  /\ \/ /\ pc' = "command" /\ app' = RunningState /\ drive' = "OPERATION_ENABLED"
        /\ starter' = "canopen"
     \/ /\ latched # {} /\ pc' = "report" /\ app' = "FAULTED" /\ drive' = "FAULT"
        /\ UNCHANGED starter
  /\ UNCHANGED <<calibrated, referenced, faultVars, pending, goal>> /\ CallFrame

-----------------------------------------------------------------------------
(* canopen_service_process() after the state machine.                       *)

(* The reference of the torque slope may lag behind, the velocity one never. *)
References ==
  LET requested == target /\ drive # "QUICK_STOP_ACTIVE"
  IN  IF operation_mode = "torque" THEN {requested, requested \/ referenced} ELSE {requested}

(* Mutant: the rejection of a command is answered without a stop.           *)
CommandUnstopped ==
  /\ Step("command", "report")
  /\ \/ OwnsDrive /\ app = RunningState /\ referenced' \in References /\ UNCHANGED drive
     \/ OwnsDrive /\ app # RunningState /\ drive' = "FAULT" /\ UNCHANGED referenced
     \/ ~OwnsDrive /\ UNCHANGED <<drive, referenced>>
  /\ UNCHANGED <<app, calibrated, faultVars, starter, pending, goal>> /\ CallFrame

(* SET_CURRENT or SET_SPEED; a rejection stops the drive and ends in FAULT. *)
Command ==
  /\ pc = "command"
  /\ \/ OwnsDrive /\ app = RunningState /\ pc' = "report" /\ referenced' \in References
        /\ UNCHANGED goal
     \/ OwnsDrive /\ app # RunningState /\ pc' = "stop" /\ goal' = "FAULT" /\ UNCHANGED referenced
     \/ ~OwnsDrive /\ pc' = "report" /\ UNCHANGED <<referenced, goal>>
  /\ UNCHANGED <<app, calibrated, faultVars, starter, drive, pending>> /\ CallFrame

(* canopen_service_fault_error_code().                                      *)
ErrorCode ==
  CASE "trip" \in latched -> "TRIP"
    [] "trip" \notin latched /\ overspeed -> "OVERSPEED"
    [] "trip" \notin latched /\ ~overspeed /\ rpdo -> "RPDO_TIMEOUT"
    [] OTHER -> IF latched # {} \/ drive = "FAULT" THEN "SOFTWARE" ELSE "NONE"

(* The error code, the emergency object, the statusword and the TPDO.       *)
Report ==
  /\ Step("report", "update")
  /\ error_code' = ErrorCode /\ statusword' = drive
  /\ reported' = (error_code' \notin {"NONE", "RPDO_TIMEOUT"})
  /\ AppFrame /\ UNCHANGED <<networkVars, latchVars, callVars, drive, pending, goal,
                             unacknowledged>>

-----------------------------------------------------------------------------
(* The ADC interrupt.                                                       *)

IsrFrame == ServiceFrame /\ UNCHANGED <<pc, calibrated, referenced, starter>>

(* A fault is latched and the drive disabled.                               *)
IsrFault ==
  /\ \E f \in Faults : latched' = latched \cup {f}
  /\ app' = "FAULTED"
  /\ unacknowledged' = (unacknowledged \/ latched = {})
  /\ UNCHANGED <<networkVars, latchVars, reportVars, callVars, drive, pending, goal, pc,
                 calibrated, referenced, starter, clear_requested>>

(* A cycle under a latched fault disables again and consumes a clear        *)
(* request; it releases the latch if all is well and the references zero.   *)
IsrServe ==
  /\ latched # {}
  /\ app' = "FAULTED" /\ clear_requested' = FALSE
  /\ latched' \in {latched} \cup
       (IF clear_requested /\ calibrated /\ ~referenced THEN {{}} ELSE {})
  /\ IsrFrame

Process ==
  \/ ReceiveAny \/ LookFaulted \/ LookExit \/ LookOffline \/ LookHealthy
  \/ StopDrive \/ StopCurrent \/ StopSpeed \/ Stopped
  \/ ClearLook \/ ClearSet \/ ExitFault \/ RecoverLook \/ RecoverSet
  \/ LeaveEnabled \/ EnterEnabled \/ Move \/ Start \/ StartRun \/ Command \/ Report

MainStep ==
  \/ UpdateFaulted \/ UpdateNothing \/ UpdateCalibrated \/ UpdateDwelt \/ RampStop
  \/ DebugIdle \/ DebugCommand \/ ResetRequested \/ Process

Next == MainStep \/ IsrFault \/ IsrServe

Spec == Init /\ [][Next]_vars

(* The main loop and the interrupt go on; no master requests a reset in     *)
(* every call; a calibration and the dwell of a stop end (DriveLifecycle).  *)
Fairness ==
  /\ WF_vars(MainStep) /\ WF_vars(IsrServe)
  /\ SF_vars(ReceiveAny) /\ SF_vars(UpdateCalibrated) /\ SF_vars(UpdateDwelt)

(* ... which says something only if main always can, and if process() and    *)
(* app_drive_update() go on when they are to: no state of the drive, the    *)
(* dictionary or the App leaves them without a branch to take.             *)
MainGoesOn == ENABLED <<MainStep>>_vars
ReceiveGoesOn == pc = "receive" /\ InterruptIsFaster => ENABLED <<ReceiveAny>>_vars
CalibrationGoesOn ==
  pc = "update" /\ latched = {} /\ app = "CALIBRATION" => ENABLED <<UpdateCalibrated>>_vars
DwellGoesOn ==
  pc = "update" /\ latched = {} /\ app = "RAMP_TO_ZERO" => ENABLED <<UpdateDwelt>>_vars
NobodyWaits == MainGoesOn /\ ReceiveGoesOn /\ CalibrationGoesOn /\ DwellGoesOn

FairSpec == Spec /\ Fairness

-----------------------------------------------------------------------------
(* Properties.                                                             *)

(* Between two calls a drive state that claims the motor is enabled or in   *)
(* quick stop is backed by an App drive that this service started and that  *)
(* runs in the commanded mode, unless a fault has stopped it since.         *)
EnabledIsRunning ==
  pc = "update" /\ OwnsDrive /\ latched = {} =>
    \/ app = RunningState /\ starter = "canopen"
    \/ app = "FAULTED"

(* Between two calls no motor that the service has started runs on under a  *)
(* drive state that denies it, whatever ended the operation.                *)
StartedIsOwned ==
  pc = "update" /\ latched = {} /\ app \in Running /\ starter = "canopen" => OwnsDrive

(* Why a fault is never left unacknowledged: a clear is requested only      *)
(* under a latched fault and served before the next call, so an unnoticed   *)
(* fault is still latched and no clear is on its way to it.                 *)
RestPcs == {"report", "update", "rampStop", "debug", "receive"}
StopPcs == {"stop", "stopCurrent", "stopSpeed", "stopped"}

ClearIsOwed ==
  /\ clear_requested =>
       latched # {} /\ pc \in RestPcs
  /\ pc = "look" => (edge <=> HasRisen)
  /\ pc \in {"clear", "clearSet"} => edge /\ app_faulted
  /\ pc \in StopPcs \cup {"clear", "clearSet"} /\ app_faulted => latched # {}
  /\ pc \in {"transition", "start", "startRun", "command", "exit", "recover", "recoverSet"} =>
       ~app_faulted

ExitIsClean ==
  /\ pc \in {"exit", "recover", "recoverSet"} => ~overspeed /\ ~rpdo
  /\ pc \in StopPcs /\ goal # "FAULT" => drive # "FAULT"

UnnoticedIsLatched ==
  unacknowledged =>
    \/ overspeed \/ rpdo
    \/ pc = "look" /\ edge
    \/ /\ latched # {} /\ ~clear_requested
       /\ ~(pc \in StopPcs \cup {"clear", "clearSet"} /\ edge /\ app_faulted)

(* A drive started by this service runs on only under an enabled state or   *)
(* while a stop of it is under way, and an enabled state has such a drive.  *)
RunningIsOwned ==
  /\ app \in Running /\ starter = "canopen" /\ latched = {} => OwnsDrive /\ pc # "stopped"
  /\ OwnsDrive /\ pc # "stopped" => app \in Running \cup {"FAULTED"}
  /\ OwnsDrive /\ app \in Running => starter = "canopen"
  /\ OwnsDrive /\ app \in Running /\ pc \in RestPcs => app = RunningState
  /\ OwnsDrive => pc # "rampStop"
  /\ pc \in {"clear", "clearSet", "exit", "recover", "recoverSet"} => drive = "FAULT"
  /\ pc \in StopPcs => goal \notin Enabled /\ (app_faulted => goal = "FAULT")
  /\ pc = "startRun" => app \in {"READY", "FAULTED"}
  /\ pc \in {"start", "startRun"} => drive = "SWITCHED_ON"
  /\ pc \in {"stopCurrent", "stopSpeed"} => OwnsDrive
  /\ pc = "stopCurrent" /\ latched = {} => app # "SPEED_RUNNING"

(* A recovery under way is of a drive nothing else has taken up, and a      *)
(* drive of another source runs unless a fault is latched.                  *)
RecoveryIsDecided ==
  /\ pc = "recoverSet" => app = "FAULTED"
  /\ starter = "debug" /\ app \in Running => latched = {}

(* Past the look of a call that does not end in FAULT the service has no     *)
(* latch of its own, and asks for no clear.                                 *)
LaterPcs == {"transition", "start", "startRun", "command"}

NothingIsHeld ==
  /\ pc \in LaterPcs => ~overspeed /\ ~rpdo
  /\ pc \in StopPcs /\ goal # "FAULT" => ~overspeed /\ ~rpdo
  /\ pc = "report" /\ drive # "FAULT" => ~overspeed /\ ~rpdo /\ ~clear_requested

(* An error code without its FAULT state is that of a fault still latched    *)
(* with no clear on its way, until the next call has taken it up.           *)
LagIsOneCall ==
  error_code # "NONE" /\ statusword # "FAULT" =>
    \/ pc \in (RestPcs \ {"report"}) \cup {"look"} /\ latched # {} /\ ~clear_requested
    \/ pc \in StopPcs /\ goal = "FAULT"
    \/ pc \in {"clear", "clearSet", "report"} /\ drive = "FAULT"

(* An operation of the App under way is what it was called for, unless a     *)
(* fault has come since, and of a calibrated drive.                        *)
OperationPcs == {"rampStop", "stopCurrent", "stopSpeed", "startRun", "recoverSet"}

OperationIsMeant ==
  /\ app \notin {"CALIBRATION", "FAULTED"} \/ pc \in OperationPcs => calibrated
  /\ pc = "rampStop" => ~clear_requested
  /\ latched = {} =>
       /\ pc = "rampStop" => app = "RAMP_TO_ZERO"
       /\ pc = "stopCurrent" => app = "CURRENT_RUNNING"
       /\ pc = "stopSpeed" => app = "SPEED_RUNNING"
       /\ pc = "startRun" => app = "READY"

(* A drive without a latched fault runs for a known source, or has the       *)
(* recovery of what was cleared still to come.                             *)
RecoveryIsPending ==
  /\ clear_requested => pending
  /\ app = "FAULTED" /\ latched = {} => pending /\ calibrated
  /\ app \in Running => starter # "nobody"
  /\ starter = "debug" => DebugSource

CallsAreCoherent ==
  /\ RecoveryIsDecided /\ NothingIsHeld /\ LagIsOneCall /\ OperationIsMeant
  /\ RecoveryIsPending

IInv == TypeOK /\ ClearIsOwed /\ ExitIsClean /\ UnnoticedIsLatched /\ RunningIsOwned

(* Whatever fault comes between two steps of a call, the service and the    *)
(* App agree: an enabled state has its motor running, a motor it started     *)
(* has its state, and no fault waits unseen behind a clear.                 *)
Safety == IInv /\ CallsAreCoherent /\ EnabledIsRunning /\ StartedIsOwned

(* The service never stops a drive that another command source started      *)
(* (comment at canopen_service_owns_drive).                                 *)
OthersKeepRunning ==
  [][starter = "debug" /\ app \in Running /\ app' \notin Running /\ pc \in UpdatePcs =>
       latched' # {}]_vars

(* FAULT is left after a latched fault only by an edge of the reset bit that *)
(* came after the latch: a bit held high acknowledges no later fault.       *)
AcknowledgedExit ==
  [][drive = "FAULT" /\ drive' # "FAULT" /\ latched = {} => ~unacknowledged]_vars

(* An error code may precede the FAULT state on the bus by one call, when   *)
(* the interrupt latched the fault in between, never by two.                *)
ReportSettles ==
  [][error_code # "NONE" /\ statusword # "FAULT" /\ error_code' # "NONE"
       /\ pc = "report" /\ pc' = "update" => statusword' = "FAULT"]_vars

(* Once no fault remains latched, FAULT is always left again.               *)
FaultEnds ==
  <>[](latched = {} /\ ~overspeed /\ ~rpdo) => []<>(drive # "FAULT")

(* canopen_cia402.md:53-54 says that Quick stop uses DRIVE_COMMAND_STOP,    *)
(* which publishes 0 A and turns the PWM off.                               *)
QuickStopStops == pc = "update" /\ drive = "QUICK_STOP_ACTIVE" => app \notin Running

-----------------------------------------------------------------------------
(* The App as this model takes it to be.  `app_t' has more to it, which     *)
(* DriveLifecycle models and proves to keep the same contract.             *)
App == INSTANCE AppContract
  WITH state <- app, faulted <- latched # {}, requested <- clear_requested

(* The service, the debug source and the interrupt use the App as the       *)
(* contract lets them (drive_command_router_execute), so that nothing the   *)
(* model says of the App rests on a step the lifecycle does not have.      *)
KeepsContract == App!Spec

=============================================================================
