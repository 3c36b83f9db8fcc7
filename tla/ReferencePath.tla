--------------------------- MODULE ReferencePath ----------------------------
(***************************************************************************)
(* The current reference on its way from a command to the current           *)
(* controller.  Main prepares the targets of current commands, the SysTick  *)
(* tick those of the speed controller, each in the inactive slot of a       *)
(* double buffer (Core/App/app.c); the ADC interrupt reads the active slot  *)
(* of the mode's buffer and moves the reference towards it under the limits *)
(* of Core/Control/motor_control.c and Core/Algorithm/rate_limiter.c.       *)
(* Parameters, which hold the limits, are applied in READY.                 *)
(*                                                                         *)
(* Abstractions: currents are integers, and where a move meets the circle   *)
(* the reference stops at the last grid point before it; the lifecycle has  *)
(* no calibration (a drive starts in READY), no outputs and no dwell, and a *)
(* fault is cleared only where main has nothing under way.  DriveLifecycle  *)
(* treats these.                                                           *)
(***************************************************************************)
EXTENDS Integers

CONSTANTS
  Configs,         \* motor_control_config_t of the parameters that may be applied
  CurrentRequests, \* d and q references of the current commands
  SpeedRequests    \* q references of the speed controller

Axes == {"d", "q"}
Points == [Axes -> Int]
Zero == [a \in Axes |-> 0]

(* motor_control_is_valid_config().                                        *)
ASSUME ConfigAssumption ==
  /\ Configs # {}
  /\ \A c \in Configs :
       /\ c \in [magnitude : Nat, min : Points, max : Points,
                 rise : [Axes -> Nat], fall : [Axes -> Nat]]
       /\ \A a \in Axes : c.min[a] <= 0 /\ 0 <= c.max[a]
ASSUME RequestAssumption ==
  CurrentRequests \subseteq Points /\ SpeedRequests \subseteq Int

VARIABLES
  config,     \* motor_control.config
  reference,  \* motor_control.i_dq_ref
  limiter,    \* i_d_rate_limiter.output and i_q_rate_limiter.output
  slot,       \* current_command_buffer and speed_current_target_buffer
  active,     \* active_current_command_index, active_speed_current_target_index
  mode,       \* app_t.mode
  drive,      \* app_t.drive_state
  fault,      \* the fault manager holds a fault
  speed,      \* the speed command is zero
  step,       \* where main stands
  next,       \* what main does after app_set_current_command()
  target,     \* the target main publishes there
  tick        \* the tick has a target to publish

controlVars == <<config, reference, limiter>>
bufferVars  == <<slot, active>>
stateVars   == <<mode, drive, fault, speed>>
mainVars    == <<step, next, target>>
vars == <<controlVars, bufferVars, stateVars, mainVars, tick>>

Buffers == {"CURRENT", "SPEED"}
Foc == mode \in Buffers
Drives == {"READY", "CURRENT_RUNNING", "SPEED_RUNNING", "RAMP_TO_ZERO", "FAULTED"}
Continuations == {"idle", "start_current", "start_speed", "run_current", "stop_current"}
Steps == Continuations \cup
  {"d", "q", "flip", "speed_mode", "recheck", "run_speed", "stop_speed", "stop_zero", "ready"}

(* Every variable keeps its type.                                          *)
TypeOK ==
  /\ config \in Configs /\ reference \in Points /\ limiter \in Points
  /\ slot \in [Buffers -> [{0, 1} -> Points]] /\ active \in [Buffers -> {0, 1}]
  /\ mode \in Buffers \cup {"DISABLED"} /\ drive \in Drives
  /\ fault \in {"clear", "latched"} /\ speed \in {"zero", "set"}
  /\ step \in Steps /\ next \in Continuations /\ target \in Points
  /\ tick \in {"idle", "publish"}

Init ==
  /\ config \in Configs /\ reference = Zero /\ limiter = Zero
  /\ slot = [b \in Buffers |-> [i \in {0, 1} |-> Zero]]
  /\ active = [b \in Buffers |-> 0]
  /\ mode = "DISABLED" /\ drive = "READY" /\ fault = "clear" /\ speed = "zero"
  /\ step = "idle" /\ next = "idle" /\ target = Zero /\ tick = "idle"

-----------------------------------------------------------------------------
(* The limits.                                                             *)

Lower(a) == IF config.min[a] > -config.magnitude THEN config.min[a] ELSE -config.magnitude
Upper(a) == IF config.max[a] < config.magnitude THEN config.max[a] ELSE config.magnitude

InCircle(p, m) == p["d"] * p["d"] + p["q"] * p["q"] <= m * m

InLimits(p) ==
  /\ InCircle(p, config.magnitude)
  /\ \A a \in Axes : config.min[a] <= p[a] /\ p[a] <= config.max[a]

(* y is between x and z, either way round.                                 *)
Between(x, y, z) == (x <= y /\ y <= z) \/ (z <= y /\ y <= x)

(* The grid points of the circle on the way from one point to another.     *)
Way(from, to) ==
  {p \in [Axes -> (from["d"]..to["d"]) \cup (to["d"]..from["d"])
                  \cup (from["q"]..to["q"]) \cup (to["q"]..from["q"])] :
     /\ \A a \in Axes : Between(from[a], p[a], to[a])
     /\ (p["d"] - from["d"]) * (to["q"] - from["q"]) =
        (p["q"] - from["q"]) * (to["d"] - from["d"])
     /\ InCircle(p, config.magnitude)}

(* The last of them (motor_control_limit_current_reference_step); the set   *)
(* has one member when the way starts inside the circle.                   *)
LimitStep(from, to) ==
  IF InCircle(to, config.magnitude) THEN {to}
  ELSE {p \in Way(from, to) :
          \A r \in Way(from, to) : \A a \in Axes : Between(from[a], r[a], p[a])}

Clamp(x, low, high) == IF x < low THEN low ELSE IF x > high THEN high ELSE x

(* The target a request is prepared to, after the axes and the magnitude.   *)
Prepared(request) ==
  LimitStep(Zero, [a \in Axes |-> Clamp(request[a], Lower(a), Upper(a))])

(* Mutant: the last step, smaller than the rate, is not taken.             *)
TowardsWholeSteps(x, y, rise, fall) ==
  IF y - x >= rise THEN x + rise ELSE IF x - y >= fall THEN x - fall ELSE x

Towards(x, y, rise, fall) ==
  IF y > x THEN (IF y - x > rise THEN x + rise ELSE y)
  ELSE (IF x - y > fall THEN x - fall ELSE y)

-----------------------------------------------------------------------------
(* The ADC interrupt.                                                      *)

Active(b) == slot[b][active[b]]
Target == Active(mode)

(* Mutant: the rate limiters run on when the circle stops the reference.    *)
UpdateReferenceAlone(goal) ==
  LET candidate == [a \in Axes |->
        Towards(limiter[a], goal[a], config.rise[a], config.fall[a])]
  IN /\ reference' \in LimitStep(reference, candidate)
     /\ limiter' = candidate

(* motor_control_update_current_reference_fast().                          *)
UpdateReference(goal) ==
  LET candidate == [a \in Axes |->
        Towards(limiter[a], goal[a], config.rise[a], config.fall[a])]
  IN /\ reference' \in LimitStep(reference, candidate)
     /\ limiter' = reference'

Control ==
  /\ Foc /\ fault = "clear"
  /\ UpdateReference(Target)
  /\ UNCHANGED <<config, bufferVars, stateVars, mainVars, tick>>

(* motor_control_reset() of app_disable_for_fault() and of the starts.      *)
ResetControl == reference' = Zero /\ limiter' = Zero

DisableForFault ==
  /\ mode' = "DISABLED" /\ drive' = "FAULTED"
  /\ IF Foc THEN ResetControl ELSE UNCHANGED <<reference, limiter>>

(* A cause of the interrupt's own, or one it finds latched.                *)
Fault ==
  /\ fault' = "latched" /\ DisableForFault
  /\ UNCHANGED <<config, bufferVars, speed, mainVars, tick>>

CommandsAreZero == Active(IF mode = "SPEED" THEN "SPEED" ELSE "CURRENT") = Zero /\ speed = "zero"

ClearFault ==
  /\ fault = "latched" /\ drive = "FAULTED" /\ mode = "DISABLED"
  /\ CommandsAreZero /\ step = "idle"
  /\ fault' = "clear"
  /\ UNCHANGED <<controlVars, bufferVars, mode, drive, speed, mainVars, tick>>

Adc == Control \/ Fault \/ ClearFault

-----------------------------------------------------------------------------
(* The tick: app_speed_control_tick().                                     *)

Write(b, p) == slot' = [slot EXCEPT ![b] = [@ EXCEPT ![1 - active[b]] = p]]
Flip(b) == active' = [active EXCEPT ![b] = 1 - active[b]]

TickUpdate ==
  /\ tick = "idle" /\ drive \in {"SPEED_RUNNING", "RAMP_TO_ZERO"}
  /\ mode = "SPEED" /\ fault = "clear"
  /\ \E q \in SpeedRequests :
       \E p \in Prepared([a \in Axes |-> IF a = "q" THEN q ELSE 0]) : Write("SPEED", p)
  /\ tick' = "publish"
  /\ UNCHANGED <<controlVars, active, stateVars, mainVars>>

(* Mutant: a target prepared under a mode that has ended is not published.   *)
TickPublishUnderMode ==
  /\ tick = "publish" /\ Foc
  /\ Flip("SPEED") /\ tick' = "idle"
  /\ UNCHANGED <<controlVars, slot, stateVars, mainVars>>

TickPublish ==
  /\ tick = "publish"
  /\ Flip("SPEED") /\ tick' = "idle"
  /\ UNCHANGED <<controlVars, slot, stateVars, mainVars>>

-----------------------------------------------------------------------------
(* Main, which the tick preempts.                                          *)

At(s) == step = s /\ tick = "idle"
Goto(s) == step' = s /\ UNCHANGED <<next, target, tick>>

(* app_set_current_command(), field by field.                              *)
SetTarget(p, then) == step' = "d" /\ target' = p /\ next' = then /\ UNCHANGED tick

(* Mutant: the active slot is written.                                     *)
WriteDActive ==
  /\ At("d") /\ Goto("q")
  /\ slot' = [slot EXCEPT !["CURRENT"] =
       [@ EXCEPT ![active["CURRENT"]] = [@ EXCEPT !["d"] = target["d"]]]]
  /\ UNCHANGED <<controlVars, active, stateVars>>

WriteD ==
  /\ At("d") /\ Goto("q")
  /\ LET i == 1 - active["CURRENT"]
     IN Write("CURRENT", [slot["CURRENT"][i] EXCEPT !["d"] = target["d"]])
  /\ UNCHANGED <<controlVars, active, stateVars>>

WriteQ ==
  /\ At("q") /\ Goto("flip")
  /\ LET i == 1 - active["CURRENT"]
     IN Write("CURRENT", [slot["CURRENT"][i] EXCEPT !["q"] = target["q"]])
  /\ UNCHANGED <<controlVars, active, stateVars>>

PublishTarget ==
  /\ At("flip") /\ Goto(next)
  /\ Flip("CURRENT")
  /\ UNCHANGED <<controlVars, slot, stateVars>>

(* drive_command_router_execute().                                         *)
SetCurrent ==
  /\ At("idle") /\ drive = "CURRENT_RUNNING"
  /\ \E r \in CurrentRequests : \E p \in Prepared(r) : SetTarget(p, "idle")
  /\ UNCHANGED <<controlVars, bufferVars, stateVars>>

StartCommand ==
  /\ At("idle") /\ drive = "READY" /\ fault = "clear"
  /\ \/ SetTarget(Zero, "start_current") /\ UNCHANGED speed
     \/ SetTarget(Zero, "start_speed") /\ speed' = "zero"
  /\ UNCHANGED <<controlVars, bufferVars, mode, drive, fault>>

StopCommand ==
  /\ At("idle") /\ drive = "CURRENT_RUNNING"
  /\ SetTarget(Zero, "stop_current")
  /\ UNCHANGED <<controlVars, bufferVars, stateVars>>

SpeedCommand ==
  /\ At("idle") /\ drive = "SPEED_RUNNING"
  /\ speed' \in {"zero", "set"}
  /\ UNCHANGED <<controlVars, bufferVars, mode, drive, fault, mainVars, tick>>

SpeedStopCommand ==
  /\ At("idle") /\ drive = "SPEED_RUNNING"
  /\ speed' = "zero" /\ drive' = "RAMP_TO_ZERO"
  /\ UNCHANGED <<controlVars, bufferVars, mode, fault, mainVars, tick>>

RecoverCommand ==
  /\ At("idle") /\ drive = "FAULTED" /\ fault = "clear"
  /\ drive' = "READY"
  /\ UNCHANGED <<controlVars, bufferVars, mode, fault, speed, mainVars, tick>>

(* app_start_current_control().                                            *)
StartMode ==
  /\ \E s \in {"start_current", "start_speed"} :
       /\ At(s)
       /\ IF fault = "clear" /\ CommandsAreZero /\ mode = "DISABLED"
            THEN /\ ResetControl /\ mode' = "CURRENT"
                 /\ Goto(IF s = "start_current" THEN "recheck" ELSE "speed_mode")
            ELSE Goto("idle") /\ UNCHANGED <<reference, limiter, mode>>
  /\ UNCHANGED <<config, bufferVars, drive, fault, speed>>

(* app_start_speed_control() and app_stop_foc_control(): nobody else has    *)
(* the buffer here.                                                        *)
ZeroSpeedTarget == Write("SPEED", Zero) /\ Flip("SPEED")

SpeedMode ==
  /\ At("speed_mode") /\ Goto("recheck")
  /\ ZeroSpeedTarget /\ mode' = "SPEED"
  /\ UNCHANGED <<controlVars, drive, fault, speed>>

(* The check for a fault after pwm_driver_enable(), and the command.        *)
Recheck ==
  /\ At("recheck")
  /\ IF fault = "latched"
       THEN DisableForFault /\ Goto("idle") /\ UNCHANGED speed
       ELSE /\ UNCHANGED <<reference, limiter, mode, drive>>
            /\ \/ /\ mode = "CURRENT" /\ UNCHANGED speed
                  /\ \E r \in CurrentRequests : \E p \in Prepared(r) : SetTarget(p, "run_current")
               \/ /\ mode = "SPEED" /\ speed' \in {"zero", "set"}
                  /\ Goto("run_speed")
  /\ UNCHANGED <<config, bufferVars, fault>>

SetRunning ==
  /\ \/ At("run_current") /\ drive' = "CURRENT_RUNNING"
     \/ At("run_speed") /\ drive' = "SPEED_RUNNING"
  /\ Goto("idle")
  /\ UNCHANGED <<controlVars, bufferVars, mode, fault, speed>>

(* app_drive_update(): a latched fault, or the end of a speed stop.         *)
Update ==
  /\ At("idle")
  /\ \/ /\ fault = "latched" /\ drive # "FAULTED"
        /\ DisableForFault /\ Goto("idle")
     \/ /\ fault = "clear" /\ drive = "RAMP_TO_ZERO"
        /\ Goto("stop_speed") /\ UNCHANGED <<reference, limiter, mode, drive>>
  /\ UNCHANGED <<config, bufferVars, fault, speed>>

(* app_stop_foc_control().                                                 *)
StopMode ==
  /\ \E s \in {"stop_current", "stop_speed"} :
       /\ At(s)
       /\ IF mode = (IF s = "stop_current" THEN "CURRENT" ELSE "SPEED")
            THEN mode' = "DISABLED" /\ Goto("stop_zero")
            ELSE Goto("idle") /\ UNCHANGED mode
  /\ UNCHANGED <<controlVars, bufferVars, drive, fault, speed>>

StopZero ==
  /\ At("stop_zero") /\ Goto("ready")
  /\ speed' = "zero" /\ ZeroSpeedTarget /\ ResetControl
  /\ UNCHANGED <<config, mode, drive, fault>>

StopReady ==
  /\ At("ready") /\ Goto("idle")
  /\ drive' = "READY"
  /\ UNCHANGED <<controlVars, bufferVars, mode, fault, speed>>

(* main_apply_drive_parameters() with the sampling stopped.                *)
ApplyParameters ==
  /\ At("idle") /\ drive = "READY"
  /\ config' \in Configs /\ ResetControl
  /\ UNCHANGED <<bufferVars, stateVars, mainVars, tick>>

Commands ==
  \/ SetCurrent \/ StartCommand \/ StopCommand \/ SpeedCommand \/ SpeedStopCommand
  \/ RecoverCommand

MainSteps ==
  \/ WriteD \/ WriteQ \/ PublishTarget
  \/ StartMode \/ SpeedMode \/ Recheck \/ SetRunning
  \/ Update \/ StopMode \/ StopZero \/ StopReady

Next == Adc \/ TickUpdate \/ TickPublish \/ Commands \/ MainSteps \/ ApplyParameters

Spec == Init /\ [][Next]_vars

(* The PWM triggers the ADC at a fixed rate and its interrupt preempts all; *)
(* the tick and main finish what they have begun.                          *)
FairSpec == Spec /\ WF_vars(Control) /\ WF_vars(TickPublish) /\ WF_vars(MainSteps)

-----------------------------------------------------------------------------
(* Properties.                                                             *)

(* Whatever the interrupt reads as its target is a whole target that was    *)
(* prepared under the limits in force: never a d of one command with the q  *)
(* of another, never one left over from before a change of parameters.     *)
TargetInLimits == Foc => InLimits(Target)

(* The reference keeps the circle and the range of each axis, as            *)
(* motor_control_update_current_reference() promises.                      *)
ReferenceInLimits == InLimits(reference)

(* In one cycle of the controller no axis moves faster than its rate, not   *)
(* even when the circle bends its way, and no reset comes under it.         *)
KeepsRate ==
  Foc /\ Foc' =>
    \A a \in Axes : /\ reference'[a] - reference[a] <= config.rise[a]
                   /\ reference[a] - reference'[a] <= config.fall[a]

StaysBetween ==
  Foc /\ Foc' => \A a \in Axes : Between(reference[a], reference'[a], Target[a])

(* Under a mode each axis keeps its rate, and moves neither away from the   *)
(* target the interrupt reads nor past it, whoever publishes meanwhile.     *)
MovesAreBounded == [][KeepsRate /\ StaysBetween]_vars

(* The rectangle between the reference and its target lies in the circle,   *)
(* so no move towards the target leaves it: so it is from and to zero, and  *)
(* wherever d stays 0 (torque and speed).                                   *)
OpenWay ==
  /\ Foc
  /\ InCircle([reference EXCEPT !["d"] = Target["d"]], config.magnitude)
  /\ InCircle([reference EXCEPT !["q"] = Target["q"]], config.magnitude)

TargetStays == Foc /\ Foc' /\ Target' = Target

(* A target that stays is reached where the circle is not in the way, and   *)
(* kept: so ends a stop by command at rest, whatever is under way in main.  *)
OpenTargetIsReached ==
  <>[]OpenWay /\ <>[][TargetStays]_vars => <>[](Foc /\ reference = Target)

(* What the fairness asks: the tick can publish what it prepared, main can   *)
(* go on from its check for a fault, and a controller whose target is not    *)
(* reached has a move to make where the circle is not in the way; the last  *)
(* because no rate is zero (drive_parameters.c:145).                       *)
NobodyWaits ==
  /\ tick = "publish" => ENABLED <<TickPublish>>_vars
  /\ step = "recheck" /\ tick = "idle" => ENABLED <<MainSteps>>_vars
  /\ fault = "clear" /\ OpenWay /\ reference # Target => ENABLED <<Control>>_vars

(* From one target that was reached the next one is reached too, unless it  *)
(* is replaced or the drive stops: motor_control.h calls only targets       *)
(* outside the limits unreachable.                                         *)
TargetIsReached ==
  \A old, new \in CurrentRequests :
    (mode = "CURRENT" /\ reference = old /\ Target = new)
      ~> (reference = new \/ mode # "CURRENT" \/ Target # new)

(* The rate limiters stand where the reference does.                       *)
Synchronised == limiter = reference

Inactive(b) == slot[b][1 - active[b]]
WritesTarget == step \in {"d", "q", "flip"}

(* What main and the tick have written to the inactive slots they publish.  *)
Publication ==
  /\ WritesTarget => InLimits(target)
  /\ step \in {"q", "flip"} => Inactive("CURRENT")["d"] = target["d"]
  /\ step = "flip" => Inactive("CURRENT")["q"] = target["q"]
  /\ tick = "publish" /\ mode = "SPEED" => InLimits(Inactive("SPEED"))

(* Where no control runs: in READY and FAULTED with no start under way, up  *)
(* to the mode of a start, and from the end of the mode in a stop.         *)
ModeOff ==
  /\ drive \in {"READY", "FAULTED"} =>
       /\ step \in {"idle", "stop_current", "stop_speed"} => mode = "DISABLED"
       /\ WritesTarget /\ next \in {"idle", "stop_current"} => mode = "DISABLED"
  /\ WritesTarget /\ next \in {"start_current", "start_speed"} => mode = "DISABLED"
  /\ step \in {"start_current", "start_speed", "stop_zero", "ready"} => mode = "DISABLED"

IInv ==
  TypeOK /\ Synchronised /\ ReferenceInLimits /\ TargetInLimits /\ Publication /\ ModeOff

=============================================================================
