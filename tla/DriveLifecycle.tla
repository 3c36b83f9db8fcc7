--------------------------- MODULE DriveLifecycle ---------------------------
(***************************************************************************)
(* The App lifecycle of the PMSM drive (Core/App/app.c): one main loop,    *)
(* one 1 kHz SysTick scheduler tick and one 40 kHz ADC interrupt share the *)
(* drive state, the control mode, the fault latch, the command buffers and *)
(* the PWM output enable without any lock.                                 *)
(*                                                                         *)
(* NVIC priorities give the interleaving: the ADC interrupt (priority 0)   *)
(* preempts everything and runs to completion, so each of its paths is one *)
(* action; the SysTick tick (priority 15) is preempted only by the ADC     *)
(* interrupt; the main loop is preempted by both.  Main and tick are       *)
(* therefore cut into one action per access to shared state, and `pc' and  *)
(* `tick' say where each of them stands.                                   *)
(*                                                                         *)
(* Abstractions: the latched fault mask is one bit; a rotor speed is fast, *)
(* slow (below the stop threshold) or stopped (Hall timeout); the speed    *)
(* controller does not fail in the tick (the latch and the stop that would *)
(* follow are in FaultMask); the open-loop mode is left out, as no caller  *)
(* in the repository starts it.                                            *)
(***************************************************************************)
EXTENDS Integers

CONSTANTS
  CurrentCommands,    \* current references a command source may ask for, 0 is none
  SpeedCommands,      \* speed references a command source may ask for, 0 is stand still
  CalibrationSamples, \* ADC samples that complete the offset calibration
  CalibrationTimeout, \* current_offset_calibration_timeout_ms, in ticks
  StopDwell,          \* speed_stop_dwell_ms, in ticks
  MaxCommands,        \* router commands one turn of the main loop may execute
  DisciplinedClear    \* TRUE: a fault clear ends its turn and is asked for with none pending

ASSUME CommandsAssumption ==
  /\ CurrentCommands \subseteq Nat /\ 0 \in CurrentCommands
  /\ SpeedCommands \subseteq Nat /\ 0 \in SpeedCommands
ASSUME BoundsAssumption ==
  /\ CalibrationSamples \in Nat \ {0} /\ CalibrationTimeout \in Nat \ {0}
  /\ StopDwell \in Nat \ {0} /\ MaxCommands \in Nat
  /\ DisciplinedClear \in BOOLEAN

VARIABLES
  drive_state,              \* app_t.drive_state
  mode,                     \* app_t.mode
  outputs,                  \* HRTIM output stage on (hardware)
  is_enabled,               \* pwm_driver_t.is_enabled
  sampling,                 \* HRTIM counter running, so ADC interrupts arrive
  latched,                  \* fault_manager latched_fault_mask # 0
  is_fault_clear_requested, \* app_t.is_fault_clear_requested
  current_command,          \* published current command, 0 is zero
  speed_command,            \* published speed command, 0 is zero
  speed_target,             \* the published speed-loop current target may be nonzero
  calibration,              \* current_sensor calibration_state
  samples,                  \* offset samples taken
  elapsed,                  \* current_offset_calibration_elapsed_ms
  timeout_requested,        \* is_current_offset_calibration_timeout_requested
  ramp,                     \* motor_control speed_reference_rate_limiter.output
  ramp_seen,                \* last_speed_output.omega_m_ref_limited_rad_s
  slow_seen,                \* last_speed_output speed is below the stop threshold
  feedback,                 \* published speed feedback
  dwell,                    \* speed_stop_low_speed_elapsed_ms
  rotor,                    \* the physical rotor speed
  pc,                       \* where the main loop stands
  kind,                     \* "CURRENT" or "SPEED": what the main operation starts or stops
  arg,                      \* the reference the main operation carries
  issued,                   \* router commands executed in this turn of the main loop
  tick                      \* where the SysTick tick stands

appVars   == <<drive_state, mode>>
pwmVars   == <<outputs, is_enabled>>
faultVars == <<latched, is_fault_clear_requested>>
cmdVars   == <<current_command, speed_command>>
speedVars == <<speed_target, ramp, dwell>>
calVars   == <<calibration, timeout_requested>>
opVars    == <<kind, arg, issued>>
mainVars  == <<pc, opVars>>
tickVars  == <<elapsed, ramp_seen, slow_seen, tick>>  \* written by the tick alone
plantVars == <<samples, feedback, rotor>>             \* written by the interrupt or the plant
vars == <<appVars, pwmVars, sampling, faultVars, cmdVars, speedVars, calVars, mainVars,
          tickVars, plantVars>>

Modes       == {"DISABLED", "CURRENT", "SPEED"}
FocModes    == {"CURRENT", "SPEED"}
DriveStates == {"CALIBRATION", "READY", "CURRENT_RUNNING", "SPEED_RUNNING",
                "RAMP_TO_ZERO", "FAULTED"}
Speeds      == {"stopped", "slow", "fast"}

(* Program points of the main loop, by the function they lie in.           *)
LoopPcs      == {"update", "parameters", "command"}
ParameterPcs == {"stopSampling", "apply", "restart"}
CalPcs       == {"calTimeout", "calAbort", "calCheck", "calReady", "latch"}
StartPcs     == {"startZero", "startSpeedZero", "startChecks", "startMode", "startTarget",
                 "enable", "enableHal", "enableFlag", "recheck", "setCommand", "setRunning"}
StopPcs      == {"stopMode", "stopZero", "stopHal", "stopHalLocked", "stopFlag", "stopReady"}
DisablePcs   == {"disableMode", "disableState", "disableHal", "disableHalLocked",
                 "disableFlag"}
OtherPcs     == {"rampState", "rampDwell", "clearSet", "recoverSet"}
Pcs == LoopPcs \cup ParameterPcs \cup CalPcs \cup StartPcs \cup StopPcs \cup DisablePcs
         \cup OtherPcs

(* The references that a start of control mode k may carry.                *)
Commands(k) == IF k = "CURRENT" THEN CurrentCommands ELSE SpeedCommands

(* Every variable keeps its type.                                          *)
TypeOK ==
  /\ drive_state \in DriveStates /\ mode \in Modes
  /\ outputs \in BOOLEAN /\ is_enabled \in BOOLEAN /\ sampling \in BOOLEAN
  /\ latched \in BOOLEAN /\ is_fault_clear_requested \in BOOLEAN
  /\ current_command \in CurrentCommands /\ speed_command \in SpeedCommands
  /\ speed_target \in BOOLEAN /\ ramp \in Nat /\ dwell \in 0..StopDwell
  /\ calibration \in {"RUNNING", "COMPLETE", "FAILED"} /\ timeout_requested \in BOOLEAN
  /\ pc \in Pcs /\ kind \in FocModes /\ issued \in 0..MaxCommands
  /\ arg \in CurrentCommands \cup SpeedCommands
  /\ pc \in StartPcs => arg \in Commands(kind)
  /\ elapsed \in 0..CalibrationTimeout /\ ramp_seen \in Nat /\ slow_seen \in BOOLEAN
  /\ tick \in {"idle", "publish", "dwell"}
  /\ samples \in 0..CalibrationSamples /\ feedback \in Speeds \cup {"invalid"}
  /\ rotor \in Speeds

(* After app_drive_start(): the calibration runs and the counter is started. *)
Init ==
  /\ drive_state = "CALIBRATION" /\ mode = "DISABLED"
  /\ outputs = FALSE /\ is_enabled = FALSE /\ sampling = TRUE
  /\ latched = FALSE /\ is_fault_clear_requested = FALSE
  /\ current_command = 0 /\ speed_command = 0
  /\ speed_target = FALSE /\ ramp = 0 /\ dwell = 0
  /\ calibration = "RUNNING" /\ timeout_requested = FALSE
  /\ pc = "update" /\ kind = "CURRENT" /\ arg = 0 /\ issued = 0
  /\ elapsed = 0 /\ ramp_seen = 0 /\ slow_seen = TRUE /\ tick = "idle"
  /\ samples = 0 /\ feedback = "invalid" /\ rotor = "stopped"

-----------------------------------------------------------------------------
(* Steps of the main loop, enabled while no tick is on top of it.          *)

At(here) == tick = "idle" /\ pc = here /\ UNCHANGED <<tickVars, plantVars>>

Goto(there) == pc' = there /\ UNCHANGED opVars

(* A finished router operation gives its registers back.                   *)
Return == pc' = "command" /\ kind' = "CURRENT" /\ arg' = 0 /\ UNCHANGED issued

(* A main step that moves on without a store to shared state.              *)
Jump(here, there) ==
  /\ At(here) /\ Goto(there)
  /\ UNCHANGED <<appVars, pwmVars, sampling, faultVars, cmdVars, speedVars, calVars>>

(* A main step that does nothing but store drive_state.                    *)
StoreState(here, state) ==
  /\ At(here) /\ drive_state' = state
  /\ UNCHANGED <<mode, pwmVars, sampling, faultVars, cmdVars, speedVars, calVars>>

(* app_commands_are_zero() as it is in a disabled or current mode.         *)
CommandsAreZero == current_command = 0 /\ speed_command = 0

(* What everybody asks of current_sensor_get_offset_calibration_state().   *)
Calibrated == calibration = "COMPLETE"

(* HAL_HRTIM_WaveformOutputStart/Stop hold the handle lock.                *)
HalLocked == pc \in {"enableHal", "stopHalLocked", "disableHalLocked"}

(* app_drive_update(), up to the branch it takes.                          *)
Update ==
  /\ At("update")
  /\ pc' = CASE latched -> IF drive_state # "FAULTED" THEN "disableMode" ELSE "parameters"
             [] ~latched /\ drive_state = "CALIBRATION" ->
                  IF timeout_requested THEN "calTimeout" ELSE "calCheck"
             [] ~latched /\ drive_state = "RAMP_TO_ZERO" /\ dwell >= StopDwell -> "stopMode"
             [] OTHER -> "parameters"
  /\ kind' = IF pc' = "stopMode" THEN "SPEED" ELSE "CURRENT"
  /\ timeout_requested' = (timeout_requested /\ pc' # "calTimeout")
  /\ issued' = 0
  /\ UNCHANGED <<appVars, pwmVars, sampling, faultVars, cmdVars, speedVars, calibration, arg>>

(* app_handle_current_offset_calibration_timeout(): look, then abort by CAS. *)
CalTimeout ==
  Jump("calTimeout", CASE calibration = "COMPLETE" -> "calCheck"
                       [] calibration = "RUNNING"  -> "calAbort"
                       [] OTHER                    -> "parameters")

CalAbort ==
  /\ At("calAbort")
  /\ calibration' = IF calibration = "RUNNING" THEN "FAILED" ELSE calibration
  /\ Goto(CASE calibration = "RUNNING"  -> "latch"
            [] calibration = "COMPLETE" -> "calCheck"
            [] OTHER                    -> "parameters")
  /\ UNCHANGED <<appVars, pwmVars, sampling, faultVars, cmdVars, speedVars,
                 timeout_requested>>

(* The calibration poll at the end of the CALIBRATION branch.              *)
CalCheck ==
  Jump("calCheck", CASE Calibrated -> "calReady"
                     [] ~Calibrated /\ calibration = "FAILED" -> "latch"
                     [] OTHER -> "parameters")

CalReady == StoreState("calReady", "READY") /\ Goto("parameters")

(* fault_manager_latch() called from main by app_latch_and_stop().         *)
Latch ==
  /\ At("latch") /\ Goto("disableMode")
  /\ latched' = TRUE
  /\ UNCHANGED <<appVars, pwmVars, sampling, is_fault_clear_requested, cmdVars, speedVars,
                 calVars>>

-----------------------------------------------------------------------------
(* app_disable_for_fault() in main context.  motor_control_reset() is taken *)
(* with the first store: nothing reads `ramp' while the mode is DISABLED.   *)

DisableMode ==
  /\ At("disableMode") /\ Goto("disableState")
  /\ mode' = "DISABLED"
  /\ ramp' = IF mode \in FocModes THEN 0 ELSE ramp
  /\ UNCHANGED <<drive_state, pwmVars, sampling, faultVars, cmdVars, speed_target, dwell,
                 calVars>>

DisableState ==
  /\ At("disableState") /\ Goto("disableHal")
  /\ drive_state' = "FAULTED"
  /\ calibration' = IF calibration = "RUNNING" THEN "FAILED" ELSE calibration
  /\ UNCHANGED <<mode, pwmVars, sampling, faultVars, cmdVars, speedVars, timeout_requested>>

(* pwm_driver_disable(): the flag is read, the outputs go off under the HAL *)
(* lock, the flag is stored.                                                *)
SkipDisable ==
  /\ At("disableHal") /\ ~is_enabled /\ Return
  /\ UNCHANGED <<appVars, pwmVars, sampling, faultVars, cmdVars, speedVars, calVars>>

LockOutputs ==
  /\ is_enabled
  /\ \/ Jump("disableHal", "disableHalLocked")
     \/ Jump("stopHal", "stopHalLocked")

StopOutputs(here, there) ==
  /\ At(here) /\ Goto(there)
  /\ outputs' = FALSE
  /\ UNCHANGED <<appVars, is_enabled, sampling, faultVars, cmdVars, speedVars, calVars>>

DisableOutputs == StopOutputs("disableHalLocked", "disableFlag")

DisableFlag ==
  /\ At("disableFlag") /\ Return
  /\ is_enabled' = FALSE
  /\ UNCHANGED <<appVars, outputs, sampling, faultVars, cmdVars, speedVars, calVars>>

-----------------------------------------------------------------------------
(* main_process_drive_parameters(): a pending update is applied in READY    *)
(* with the PWM off, in a window in which the ADC interrupt cannot come.    *)

(* Mutant: the update waits for a drive that is READY.                      *)
SkipParametersOnceReady == drive_state = "READY" /\ Jump("parameters", "command")

SkipParameters == Jump("parameters", "command")

OpenWindow ==
  /\ drive_state = "READY" /\ ~is_enabled
  /\ Jump("parameters", "stopSampling")

StopSampling ==
  /\ At("stopSampling") /\ Goto("apply")
  /\ sampling' = FALSE
  /\ UNCHANGED <<appVars, pwmVars, faultVars, cmdVars, speedVars, calVars>>

ApplyParameters ==
  /\ At("apply") /\ Goto("restart")
  /\ ramp' = 0
  /\ UNCHANGED <<appVars, pwmVars, sampling, faultVars, cmdVars, speed_target, dwell, calVars>>

RestartSampling ==
  /\ At("restart") /\ Goto("command")
  /\ sampling' = TRUE
  /\ UNCHANGED <<appVars, pwmVars, faultVars, cmdVars, speedVars, calVars>>

-----------------------------------------------------------------------------
(* drive_command_router_execute().  A rejected command changes no state.    *)

Issue(there, k, v) ==
  /\ At("command") /\ issued < MaxCommands
  /\ pc' = there /\ kind' = k /\ arg' = v /\ issued' = issued + 1

RunningState(k) == IF k = "CURRENT" THEN "CURRENT_RUNNING" ELSE "SPEED_RUNNING"

StartCommand ==
  /\ drive_state = "READY" /\ ~latched
  /\ \E k \in FocModes : \E v \in Commands(k) : Issue("startZero", k, v)
  /\ UNCHANGED <<appVars, pwmVars, sampling, faultVars, cmdVars, speedVars, calVars>>

SetCommand ==
  /\ Issue("command", "CURRENT", 0)
  /\ \/ /\ drive_state = "CURRENT_RUNNING"
        /\ current_command' \in CurrentCommands /\ UNCHANGED speed_command
     \/ /\ drive_state = "SPEED_RUNNING"
        /\ speed_command' \in SpeedCommands /\ UNCHANGED current_command
  /\ UNCHANGED <<appVars, pwmVars, sampling, faultVars, speedVars, calVars>>

(* The zero reference, first step of both stops.                           *)
StopCommand ==
  /\ \/ /\ drive_state = "CURRENT_RUNNING"
        /\ Issue("stopMode", "CURRENT", 0)
        /\ current_command' = 0 /\ UNCHANGED speed_command
     \/ /\ drive_state = "SPEED_RUNNING"
        /\ Issue("rampState", "SPEED", 0)
        /\ speed_command' = 0 /\ UNCHANGED current_command
  /\ UNCHANGED <<appVars, pwmVars, sampling, faultVars, speedVars, calVars>>

(* The CiA 402 service, which alone asks for clears, does so as the last of  *)
(* a turn and never with one pending (Cia402Proofs).                        *)
ClearCommand ==
  /\ latched
  /\ At("command") /\ issued < MaxCommands
  /\ DisciplinedClear => ~is_fault_clear_requested
  /\ pc' = "clearSet" /\ kind' = "CURRENT" /\ arg' = 0
  /\ issued' = IF DisciplinedClear THEN MaxCommands ELSE issued + 1
  /\ UNCHANGED <<appVars, pwmVars, sampling, faultVars, cmdVars, speedVars, calVars>>

RecoverCommand ==
  /\ drive_state = "FAULTED" /\ ~latched /\ Calibrated
  /\ Issue("recoverSet", "CURRENT", 0)
  /\ UNCHANGED <<appVars, pwmVars, sampling, faultVars, cmdVars, speedVars, calVars>>

EndTurn == Jump("command", "update")

(* app_request_fault_clear() and app_drive_recover_after_fault().          *)
ClearSet ==
  /\ At("clearSet") /\ Return
  /\ is_fault_clear_requested' = TRUE
  /\ UNCHANGED <<appVars, pwmVars, sampling, latched, cmdVars, speedVars, calVars>>

RecoverSet == StoreState("recoverSet", "READY") /\ Return

-----------------------------------------------------------------------------
(* app_drive_start_current() and app_drive_start_speed().                  *)

StartZero ==
  /\ At("startZero") /\ Goto(IF kind = "SPEED" THEN "startSpeedZero" ELSE "startChecks")
  /\ current_command' = 0
  /\ UNCHANGED <<appVars, pwmVars, sampling, faultVars, speed_command, speedVars, calVars>>

StartSpeedZero ==
  /\ At("startSpeedZero") /\ Goto("startChecks")
  /\ speed_command' = 0
  /\ UNCHANGED <<appVars, pwmVars, sampling, faultVars, current_command, speedVars, calVars>>

(* The checks of app_start_speed_control() and app_start_current_control(); *)
(* `hall' says whether the rotor feedback is running with a valid angle.    *)
StartChecks ==
  /\ At("startChecks")
  /\ \E hall \in BOOLEAN :
       LET passed == /\ mode = "DISABLED" /\ ~latched /\ CommandsAreZero
                     /\ Calibrated /\ hall
       IN /\ IF mode = kind THEN Goto("enable")
             ELSE IF passed THEN Goto("startMode") ELSE Return
          /\ ramp' = IF passed THEN 0 ELSE ramp
  /\ UNCHANGED <<appVars, pwmVars, sampling, faultVars, cmdVars, speed_target, dwell, calVars>>

StartMode ==
  /\ At("startMode") /\ Goto(IF kind = "SPEED" THEN "startTarget" ELSE "enable")
  /\ mode' = "CURRENT"
  /\ UNCHANGED <<drive_state, pwmVars, sampling, faultVars, cmdVars, speedVars, calVars>>

(* Mutant: the target of the previous run is left published.               *)
StartTargetKept ==
  /\ At("startTarget") /\ Goto("enable")
  /\ mode' = "SPEED"
  /\ UNCHANGED <<drive_state, pwmVars, sampling, faultVars, cmdVars, speedVars, calVars>>

StartTarget ==
  /\ At("startTarget") /\ Goto("enable")
  /\ mode' = "SPEED" /\ speed_target' = FALSE
  /\ UNCHANGED <<drive_state, pwmVars, sampling, faultVars, cmdVars, ramp, dwell, calVars>>

(* pwm_driver_enable(): the flag is read, the outputs go on, the flag is    *)
(* stored.  An interrupt in between finds is_enabled still FALSE.           *)
Enable == Jump("enable", IF is_enabled THEN "recheck" ELSE "enableHal")

StartOutputs ==
  /\ At("enableHal") /\ Goto("enableFlag")
  /\ outputs' = TRUE
  /\ UNCHANGED <<appVars, is_enabled, sampling, faultVars, cmdVars, speedVars, calVars>>

EnableFlag ==
  /\ At("enableFlag") /\ Goto("recheck")
  /\ is_enabled' = TRUE
  /\ UNCHANGED <<appVars, outputs, sampling, faultVars, cmdVars, speedVars, calVars>>

(* Mutant: the fault latch is not read again once the outputs are on.      *)
RecheckDropped == Jump("recheck", "setCommand")

Recheck == Jump("recheck", IF latched THEN "disableMode" ELSE "setCommand")

PublishCommand ==
  /\ At("setCommand") /\ Goto("setRunning")
  /\ IF kind = "CURRENT" THEN current_command' = arg /\ UNCHANGED speed_command
                         ELSE speed_command' = arg /\ UNCHANGED current_command
  /\ UNCHANGED <<appVars, pwmVars, sampling, faultVars, speedVars, calVars>>

SetRunning == StoreState("setRunning", RunningState(kind)) /\ Return

-----------------------------------------------------------------------------
(* app_drive_request_speed_stop(): the state is stored before the dwell.   *)

(* Mutant: the stop is taken for done before the rotor has slowed down.     *)
RampStateSkipped == StoreState("rampState", "READY") /\ Goto("rampDwell")

RampState == StoreState("rampState", "RAMP_TO_ZERO") /\ Goto("rampDwell")

(* Mutant: the dwell of the previous stop is kept.                         *)
RampDwellKept ==
  /\ At("rampDwell") /\ Return
  /\ UNCHANGED <<appVars, pwmVars, sampling, faultVars, cmdVars, speedVars, calVars>>

RampDwell ==
  /\ At("rampDwell") /\ Return
  /\ dwell' = 0
  /\ UNCHANGED <<appVars, pwmVars, sampling, faultVars, cmdVars, speed_target, ramp, calVars>>

-----------------------------------------------------------------------------
(* app_stop_foc_control(), then pwm_driver_disable(), then READY: called by *)
(* app_drive_stop_current() for CURRENT, by app_drive_update() for SPEED.   *)

Stopped ==
  IF kind = "SPEED" THEN pc' = "parameters" /\ kind' = "CURRENT" /\ UNCHANGED <<arg, issued>>
                    ELSE Return

StopMode ==
  /\ At("stopMode")
  /\ IF mode = kind THEN Goto("stopZero") /\ mode' = "DISABLED"
                    ELSE Stopped /\ UNCHANGED mode
  /\ UNCHANGED <<drive_state, pwmVars, sampling, faultVars, cmdVars, speedVars, calVars>>

StopZero ==
  /\ At("stopZero") /\ Goto("stopHal")
  /\ speed_command' = 0 /\ speed_target' = FALSE /\ ramp' = 0
  /\ UNCHANGED <<appVars, pwmVars, sampling, faultVars, current_command, dwell, calVars>>

SkipStop == ~is_enabled /\ Jump("stopHal", "stopReady")

StopHal == StopOutputs("stopHalLocked", "stopFlag")

StopFlag ==
  /\ At("stopFlag") /\ Goto("stopReady")
  /\ is_enabled' = FALSE
  /\ UNCHANGED <<appVars, outputs, sampling, faultVars, cmdVars, speedVars, calVars>>

StopReady == StoreState("stopReady", "READY") /\ Stopped

MainStep ==
  \/ Update \/ CalTimeout \/ CalAbort \/ CalCheck \/ CalReady \/ Latch
  \/ DisableMode \/ DisableState \/ SkipDisable \/ LockOutputs \/ DisableOutputs
  \/ DisableFlag
  \/ SkipParameters \/ OpenWindow \/ StopSampling \/ ApplyParameters \/ RestartSampling
  \/ StartCommand \/ SetCommand \/ StopCommand \/ ClearCommand \/ RecoverCommand \/ EndTurn
  \/ ClearSet \/ RecoverSet
  \/ StartZero \/ StartSpeedZero \/ StartChecks \/ StartMode \/ StartTarget
  \/ Enable \/ StartOutputs \/ EnableFlag \/ Recheck \/ PublishCommand \/ SetRunning
  \/ RampState \/ RampDwell
  \/ StopMode \/ StopZero \/ SkipStop \/ StopHal \/ StopFlag \/ StopReady

-----------------------------------------------------------------------------
(* app_drive_scheduler_tick() in the SysTick interrupt.  It runs on top of  *)
(* main and leaves everything but its own variables to it.                  *)

TickFrame == UNCHANGED <<appVars, pwmVars, sampling, faultVars, cmdVars, calibration,
                         mainVars, plantVars>>

(* Mutant: the timeout is asked for beyond a limit that saturates below it. *)
TickCalibrationLate ==
  /\ tick = "idle" /\ drive_state = "CALIBRATION"
  /\ elapsed' = IF elapsed < CalibrationTimeout THEN elapsed + 1 ELSE elapsed
  /\ timeout_requested' = (timeout_requested \/ elapsed' > CalibrationTimeout)
  /\ TickFrame /\ UNCHANGED <<speedVars, ramp_seen, slow_seen, tick>>

TickCalibration ==
  /\ tick = "idle" /\ drive_state = "CALIBRATION"
  /\ elapsed' = IF elapsed < CalibrationTimeout THEN elapsed + 1 ELSE elapsed
  /\ timeout_requested' = (timeout_requested \/ elapsed' >= CalibrationTimeout)
  /\ TickFrame /\ UNCHANGED <<speedVars, ramp_seen, slow_seen, tick>>

Towards(from, to) == IF from < to THEN from + 1 ELSE IF from > to THEN from - 1 ELSE from

(* app_speed_control_tick() up to motor_control_update_speed(), which moves *)
(* the rate limiter and takes an invalid feedback as 0 rad/s.               *)
TickControl ==
  /\ tick = "idle" /\ drive_state \in {"SPEED_RUNNING", "RAMP_TO_ZERO"}
  /\ mode = "SPEED" /\ ~latched
  /\ ramp' = Towards(ramp, speed_command) /\ ramp_seen' = ramp'
  /\ slow_seen' = (feedback # "fast")
  /\ tick' = "publish"
  /\ TickFrame /\ UNCHANGED <<timeout_requested, speed_target, dwell, elapsed>>

(* The new current target is published.                                    *)
TickPublish ==
  /\ tick = "publish" /\ tick' = "dwell"
  /\ speed_target' = TRUE
  /\ TickFrame /\ UNCHANGED <<timeout_requested, ramp, dwell, elapsed, ramp_seen, slow_seen>>

(* No speed control in this tick: the dwell is counted on the last output. *)
TickSkip ==
  /\ tick = "idle" /\ drive_state = "RAMP_TO_ZERO"
  /\ mode # "SPEED" \/ latched
  /\ tick' = "dwell"
  /\ TickFrame /\ UNCHANGED <<timeout_requested, speedVars, elapsed, ramp_seen, slow_seen>>

(* Mutant: only a valid speed confirms the stop.                           *)
StopConfirmedByEdges == feedback \in {"slow", "fast"} /\ slow_seen

StopConfirmed == feedback = "stopped" \/ (feedback # "invalid" /\ slow_seen)

TickDwell ==
  /\ tick = "dwell" /\ tick' = "idle"
  /\ dwell' = CASE drive_state # "RAMP_TO_ZERO" -> dwell
                [] drive_state = "RAMP_TO_ZERO" /\ ramp_seen # 0 -> 0
                [] OTHER -> IF (dwell # 0 \/ StopConfirmed) /\ dwell < StopDwell
                              THEN dwell + 1 ELSE dwell
  /\ TickFrame /\ UNCHANGED <<timeout_requested, speed_target, ramp, elapsed, ramp_seen,
                              slow_seen>>

Tick == TickCalibration \/ TickControl \/ TickPublish \/ TickSkip \/ TickDwell

-----------------------------------------------------------------------------
(* The ADC interrupt.  It preempts main and tick alike and leaves their     *)
(* program points where they are.                                           *)

IsrFrame == UNCHANGED <<sampling, cmdVars, speed_target, dwell, timeout_requested, mainVars,
                        tickVars, rotor>>

(* pwm_driver_disable() finds the handle locked by main: HAL_BUSY.         *)
DisableBusy == is_enabled /\ HalLocked

(* Mutant: the flag is cleared and the outputs are left on.                *)
IsrDisableFlagOnly ==
  /\ mode' = "DISABLED" /\ drive_state' = "FAULTED"
  /\ ramp' = IF mode \in FocModes THEN 0 ELSE ramp
  /\ is_enabled' = DisableBusy /\ UNCHANGED outputs

(* app_disable_for_fault() in the interrupt.                               *)
IsrDisable ==
  /\ mode' = "DISABLED" /\ drive_state' = "FAULTED"
  /\ ramp' = IF mode \in FocModes THEN 0 ELSE ramp
  /\ outputs' = (outputs /\ (DisableBusy \/ ~is_enabled))
  /\ is_enabled' = DisableBusy

(* app_latch_and_stop(): a failed ADC read or app_handle_adc_error() in any *)
(* mode, any failing check of a FOC cycle, an offset sample out of order.   *)
IsrStop ==
  /\ sampling /\ latched' = TRUE /\ IsrDisable
  /\ calibration' = IF calibration = "RUNNING" THEN "FAILED" ELSE calibration
  /\ UNCHANGED <<is_fault_clear_requested, samples, feedback>> /\ IsrFrame

(* Mutant: a healthy measurement releases the latch without a request.     *)
FaultCheckAutoClear(valid, trip) ==
  IF latched \/ trip
    THEN /\ IsrDisable
         /\ is_fault_clear_requested' = (is_fault_clear_requested /\ DisableBusy)
         /\ latched' = ~(~DisableBusy /\ CommandsAreZero /\ valid /\ ~trip)
    ELSE UNCHANGED <<appVars, pwmVars, ramp, faultVars>>

(* The fault check of app_motor_fast_loop() on a measurement that trips or  *)
(* does not, then app_process_fault_clear_request().  `valid': the phase    *)
(* currents could be converted, without which no clear succeeds.            *)
FaultCheck(valid, trip) ==
  IF latched \/ trip
    THEN /\ IsrDisable
         /\ is_fault_clear_requested' = (is_fault_clear_requested /\ DisableBusy)
         /\ latched' = ~(/\ is_fault_clear_requested /\ ~DisableBusy
                         /\ CommandsAreZero /\ valid /\ ~trip)
    ELSE UNCHANGED <<appVars, pwmVars, ramp, faultVars>>

(* A calibration cycle that does not end the calibration; a DC-link trip    *)
(* aborts it.                                                               *)
OffsetSample ==
  /\ sampling /\ mode = "DISABLED" /\ calibration = "RUNNING" /\ ~is_enabled
  /\ samples + 1 < CalibrationSamples /\ samples' = samples + 1
  /\ \E trip \in BOOLEAN : FaultCheck(FALSE, trip)
  /\ calibration' = IF drive_state' = "FAULTED" THEN "FAILED" ELSE "RUNNING"
  /\ UNCHANGED feedback /\ IsrFrame

(* The last offset sample completes the calibration, or finds the offset    *)
(* out of range and stops.                                                  *)
OffsetComplete ==
  /\ sampling /\ mode = "DISABLED" /\ calibration = "RUNNING" /\ ~is_enabled
  /\ samples + 1 = CalibrationSamples /\ samples' = CalibrationSamples
  /\ \/ calibration' = "COMPLETE" /\ \E trip \in BOOLEAN : FaultCheck(TRUE, trip)
     \/ /\ calibration' = "FAILED"
        /\ latched' = TRUE /\ IsrDisable /\ UNCHANGED is_fault_clear_requested
  /\ UNCHANGED feedback /\ IsrFrame

(* A cycle with the offset calibrated and no control mode.                 *)
MeasureTrip(trip) ==
  /\ sampling /\ mode = "DISABLED" /\ calibration = "COMPLETE"
  /\ FaultCheck(TRUE, trip)
  /\ UNCHANGED <<calibration, samples, feedback>> /\ IsrFrame

Measure == \E trip \in BOOLEAN : MeasureTrip(trip)

(* A cycle with a failed calibration: no phase current, no clear.          *)
Reject == mode = "DISABLED" /\ calibration = "FAILED" /\ IsrStop

(* A FOC cycle: a latched fault stops it, a healthy one feeds the tick.     *)
Control ==
  /\ sampling /\ mode \in FocModes /\ ~latched
  /\ feedback' \in IF mode # "SPEED" THEN {feedback}
                   ELSE IF rotor = "stopped" THEN {"stopped"} ELSE {rotor, "invalid"}
  /\ UNCHANGED <<appVars, pwmVars, ramp, faultVars, calibration, samples>> /\ IsrFrame

StopControl == mode \in FocModes /\ latched /\ IsrStop

FastLoop == OffsetSample \/ OffsetComplete \/ Measure \/ Reject \/ Control \/ StopControl

-----------------------------------------------------------------------------
(* The plant.                                                              *)

RotorStep == /\ UNCHANGED <<appVars, pwmVars, sampling, faultVars, cmdVars, speedVars,
                            calVars, mainVars, tickVars, samples, feedback>>

RotorSlows ==
  /\ rotor # "stopped" /\ rotor' = IF rotor = "fast" THEN "slow" ELSE "stopped"
  /\ RotorStep

(* The rotor is driven, unless the speed controller asks for 0 rad/s.      *)
RotorAccelerates ==
  /\ rotor # "fast" /\ outputs /\ (mode = "CURRENT" \/ (mode = "SPEED" /\ ramp # 0))
  /\ rotor' = IF rotor = "slow" THEN "fast" ELSE "slow"
  /\ RotorStep

Next == MainStep \/ Tick \/ FastLoop \/ IsrStop \/ RotorSlows \/ RotorAccelerates

Spec == Init /\ [][Next]_vars

(* Main and SysTick run whatever the ADC does; main goes on however often   *)
(* it is preempted.                                                         *)
CoreFairness == SF_vars(MainStep) /\ WF_vars(Tick)

(* With a working ADC its interrupt comes, and a rotor not driven runs down. *)
Fairness == CoreFairness /\ WF_vars(FastLoop) /\ WF_vars(RotorSlows)

(* ... which says something only if they always can: no state of the drive,  *)
(* the latch or the HAL handle leaves main or the tick waiting for another,  *)
(* or a speed stop waiting for an interrupt that has nothing to do.         *)
MainGoesOn == tick = "idle" => ENABLED <<MainStep>>_vars
TickIsAwaited ==
  \/ tick # "idle"
  \/ drive_state = "CALIBRATION" /\ ~timeout_requested
  \/ drive_state = "RAMP_TO_ZERO"
TickGoesOn == TickIsAwaited => ENABLED <<Tick>>_vars
FastLoopGoesOn ==
  drive_state = "RAMP_TO_ZERO" /\ (latched \/ (rotor = "stopped" /\ feedback # "stopped"))
    => ENABLED <<FastLoop>>_vars
RotorGoesOn == rotor # "stopped" => ENABLED <<RotorSlows>>_vars
NobodyWaits == MainGoesOn /\ TickGoesOn /\ FastLoopGoesOn /\ RotorGoesOn

CoreSpec == Spec /\ CoreFairness
FairSpec == Spec /\ Fairness

-----------------------------------------------------------------------------
(* Properties.                                                             *)

(* Outputs survive a latched fault only between an output start or stop in  *)
(* main and the check that follows it: the interrupt has turned them off in *)
(* every other place (app_disable_for_fault, app_drive_start_speed).       *)
FaultBoundsOutputs ==
  latched /\ outputs => pc \in {"enableFlag", "recheck", "disableMode", "disableState",
                                "disableHal", "disableHalLocked", "stopHalLocked"}

(* PWM outputs are never on before the current offset is calibrated.       *)
CalibrationBeforeOutputs == outputs => calibration = "COMPLETE"

(* READY means outputs off (runtime_and_dataflow.md section 8), but for a   *)
(* start that has them on already and has not yet stored its RUNNING state. *)
ReadyIsOff ==
  drive_state = "READY" /\ outputs =>
    pc \in {"enableFlag", "recheck", "setCommand", "setRunning", "disableMode", "disableState"}

(* Between two operations of main a RUNNING or ramping drive without a      *)
(* fault has its control mode active and the outputs on: the lifecycle      *)
(* state, written by main, never disagrees with what the interrupt left.    *)
RunningIsControlled ==
  pc \in LoopPcs /\ ~latched =>
    /\ drive_state = "CURRENT_RUNNING" => mode = "CURRENT" /\ outputs /\ is_enabled
    /\ drive_state \in {"SPEED_RUNNING", "RAMP_TO_ZERO"} => mode = "SPEED" /\ outputs /\ is_enabled

(* Parameters are applied to motor_control while nobody else can touch it:  *)
(* no control mode, outputs off, no speed tick half done.                   *)
ApplyIsExclusive ==
  pc = "apply" => mode = "DISABLED" /\ ~outputs /\ ~sampling /\ tick # "publish"

(* The outputs go on with every reference at zero, the rate limiter and the *)
(* speed loop's current target included: an earlier command never restarts  *)
(* the motor.                                                               *)
StartsFromZero ==
  [][~outputs /\ outputs' =>
       /\ current_command = 0
       /\ mode = "SPEED" => speed_command = 0 /\ ~speed_target /\ ramp = 0]_vars

(* A speed stop reaches READY only after the reference passed the limiter   *)
(* down to zero and a whole dwell was counted since this stop was asked for. *)
SpeedStopsAfterDwell ==
  [][drive_state = "RAMP_TO_ZERO" /\ drive_state' = "READY" =>
       dwell = StopDwell /\ ramp_seen = 0]_vars

(* A fault latch is released only with the drive mode and the outputs off.  *)
ClearedOnlyWhenOff ==
  [][latched /\ ~latched' => mode' = "DISABLED" /\ ~outputs']_vars

(* A released latch leaves the drive FAULTED until the recovery is asked    *)
(* for: no start or stop that was under way takes it on by itself.          *)
FaultedLeavesByRecovery ==
  [][drive_state = "FAULTED" /\ drive_state' # "FAULTED" /\ ~latched =>
       pc = "recoverSet"]_vars

(* The dwell of a speed stop starts on a Hall timeout or a low speed.       *)
DwellStartsSlow ==
  [][dwell = 0 /\ dwell' # 0 => feedback \in {"stopped", "slow"}]_vars

(* A latched fault turns the outputs off, even if no further cycle comes:   *)
(* what the interrupt could not turn off, main does.                       *)
FaultTurnsPwmOff == latched ~> ~outputs

(* The calibration ends, in READY or in FAULTED, even if no sample comes.  *)
CalibrationEnds == drive_state = "CALIBRATION" ~> drive_state \in {"READY", "FAULTED"}

(* A source that asks for the fault clear again and again, while the        *)
(* measurements it is served by show no fault, gets the latch released.     *)
ServedClearReleases ==
  []<><<is_fault_clear_requested /\ ~is_fault_clear_requested' /\ MeasureTrip(FALSE)>>_vars
    => []<>~latched

(* With a working ADC, and a rotor that runs down when it is not driven, a  *)
(* requested speed stop ends, in READY or in FAULTED.                       *)
StopEnds ==
  WF_vars(FastLoop) /\ WF_vars(RotorSlows) =>
    (drive_state = "RAMP_TO_ZERO" ~> drive_state \in {"READY", "FAULTED"})

=============================================================================
