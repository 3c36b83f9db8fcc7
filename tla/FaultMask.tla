------------------------------ MODULE FaultMask ------------------------------
(***************************************************************************)
(* The fault manager (Core/App/fault_manager.c) under its callers in        *)
(* Core/App/app.c.  The ADC interrupt updates it every 25 us and clears it  *)
(* on request; main and the SysTick tick latch causes of their own, by a    *)
(* read, a modification and a write of the mask that the interrupts above   *)
(* them preempt.  fault_manager.h asks for these updates to be serialised:  *)
(* `updates' remembers whether a run has kept to this.                      *)
(*                                                                         *)
(* Abstractions: a measured quantity is below its clear threshold, at or    *)
(* above its trip threshold, or in the band between them; the diagnostic    *)
(* counters and the measurements in the first-fault snapshot are left out.  *)
(***************************************************************************)
CONSTANTS
  PhaseFaults, \* FAULT_MANAGER_FAULT_PHASE_A/B/C_OVERCURRENT
  MainFaults,  \* causes main latches in app_latch_and_stop()
  TickFaults,  \* causes the tick latches there
  AdcFaults    \* causes the ADC interrupt latches there

MeasuredFaults == PhaseFaults \cup {"OVERVOLTAGE"}
Causes == MeasuredFaults \cup MainFaults \cup TickFaults \cup AdcFaults

ASSUME FaultsAssumption ==
  "CURRENT_SENSOR" \in MainFaults /\ {"CURRENT_SENSOR", "PWM"} \subseteq AdcFaults

VARIABLES
  active,      \* active_fault_mask
  held,        \* latched_fault_mask
  first,       \* first_fault_snapshot.fault_mask
  has_valid,   \* has_valid_measurement
  latest,      \* latest_i_abc and latest_v_dc, by the thresholds they reach
  calibration, \* current_sensor calibration_state
  foc,         \* app_t.mode is a FOC mode
  requested,   \* app_t.is_fault_clear_requested
  step,        \* where main and the tick stand in fault_manager_latch_internal()
  seen,        \* the mask they have read
  mask,        \* the causes they carry
  updates      \* "overlapped" once an update of the mask came between the steps of another

managerVars == <<active, held, first, has_valid, latest>>
appVars     == <<calibration, foc, requested>>
latchVars   == <<step, seen, mask>>
vars == <<managerVars, appVars, latchVars, updates>>

Writers == {"main", "tick"}
Levels  == {"low", "rising", "trip", "falling"}
Steps   == {"idle", "abort", "capture", "store", "request", "start"}

(* Every variable keeps its type.                                          *)
TypeOK ==
  /\ active \in SUBSET MeasuredFaults /\ held \in SUBSET Causes /\ first \in SUBSET Causes
  /\ has_valid \in BOOLEAN /\ latest \in [MeasuredFaults -> Levels]
  /\ calibration \in {"RUNNING", "COMPLETE", "FAILED"}
  /\ foc \in BOOLEAN /\ requested \in BOOLEAN
  /\ step \in [Writers -> Steps]
  /\ seen \in [Writers -> SUBSET Causes] /\ mask \in [Writers -> SUBSET Causes]
  /\ updates \in {"serialised", "overlapped"}

Init ==
  /\ active = {} /\ held = {} /\ first = {} /\ has_valid = FALSE
  /\ latest = [c \in MeasuredFaults |-> "low"]
  /\ calibration = "RUNNING" /\ foc = FALSE /\ requested = FALSE
  /\ step = [w \in Writers |-> "idle"]
  /\ seen = [w \in Writers |-> {}] /\ mask = [w \in Writers |-> {}]
  /\ updates = "serialised"

Serialised == updates = "serialised"

(* A writer is between its read of the mask and its store.                 *)
Latching(w) == step[w] \in {"capture", "store"}

(* The tick runs on top of main.                                           *)
Runs(w) == w = "main" => step["tick"] = "idle"

-----------------------------------------------------------------------------
(* fault_manager_latch() in main and in the tick, one access at a time.     *)

FaultsOf(w) == IF w = "main" THEN MainFaults ELSE TickFaults

(* Mutant: every fault is recorded as the first one.                       *)
LatchReadFirst(w) ==
  /\ Runs(w) /\ step[w] = "idle"
  /\ \E c \in FaultsOf(w) : mask' = [mask EXCEPT ![w] = {c}]
  /\ seen' = [seen EXCEPT ![w] = held] /\ step' = [step EXCEPT ![w] = "capture"]
  /\ updates' = IF \E v \in Writers \ {w} : Latching(v) THEN "overlapped" ELSE updates
  /\ UNCHANGED <<managerVars, appVars>>

(* The mask is read to see whether this fault opens a session.  A second    *)
(* fault of the same app_disable_for_fault() is latched after the first.    *)
LatchRead(w) ==
  /\ Runs(w) /\ step[w] = "idle"
  /\ \E c \in FaultsOf(w) : mask' = [mask EXCEPT ![w] = {c}]
  /\ seen' = [seen EXCEPT ![w] = held]
  /\ step' = [step EXCEPT ![w] = IF held = {} THEN "capture" ELSE "store"]
  /\ updates' = IF \E v \in Writers \ {w} : Latching(v) THEN "overlapped" ELSE updates
  /\ UNCHANGED <<managerVars, appVars>>

LatchCapture(w) ==
  /\ Runs(w) /\ step[w] = "capture"
  /\ first' = mask[w] /\ step' = [step EXCEPT ![w] = "store"]
  /\ UNCHANGED <<active, held, has_valid, latest, appVars, seen, mask, updates>>

(* The store uses the mask read for the comparison, or reads it once more:  *)
(* the compiler is free to do either.                                       *)
LatchReadAgain(w) ==
  /\ Runs(w) /\ step[w] = "store" /\ seen[w] # held
  /\ seen' = [seen EXCEPT ![w] = held]
  /\ UNCHANGED <<managerVars, appVars, step, mask, updates>>

(* Mutant: the bits of the fault are toggled.                              *)
LatchStoreToggles(w) ==
  /\ Runs(w) /\ step[w] = "store"
  /\ held' = (seen[w] \cup mask[w]) \ (seen[w] \cap mask[w])
  /\ step' = [step EXCEPT ![w] = "idle"]
  /\ seen' = [seen EXCEPT ![w] = {}] /\ mask' = [mask EXCEPT ![w] = {}]
  /\ UNCHANGED <<active, first, has_valid, latest, appVars, updates>>

LatchStore(w) ==
  /\ Runs(w) /\ step[w] = "store"
  /\ held' = seen[w] \cup mask[w]
  /\ step' = [step EXCEPT ![w] = "idle"]
  /\ seen' = [seen EXCEPT ![w] = {}] /\ mask' = [mask EXCEPT ![w] = {}]
  /\ UNCHANGED <<active, first, has_valid, latest, appVars, updates>>

Latch(w) == LatchRead(w) \/ LatchCapture(w) \/ LatchReadAgain(w) \/ LatchStore(w)

-----------------------------------------------------------------------------
(* Main around it.                                                         *)

MainIdle == Runs("main") /\ step["main"] = "idle"

(* app_handle_current_offset_calibration_timeout(): a calibration that runs *)
(* is aborted, then CURRENT_SENSOR is latched.                              *)
AbortCalibration ==
  /\ MainIdle /\ calibration = "RUNNING" /\ calibration' = "FAILED"
  /\ step' = [step EXCEPT !["main"] = "abort"]
  /\ UNCHANGED <<managerVars, foc, requested, seen, mask, updates>>

LatchAborted ==
  /\ Runs("main") /\ step["main"] = "abort"
  /\ mask' = [mask EXCEPT !["main"] = {"CURRENT_SENSOR"}]
  /\ seen' = [seen EXCEPT !["main"] = held]
  /\ step' = [step EXCEPT !["main"] = IF held = {} THEN "capture" ELSE "store"]
  /\ UNCHANGED <<managerVars, appVars, updates>>

(* app_request_fault_clear() looks at the latch, then sets its flag.        *)
LookFaulted ==
  /\ MainIdle /\ held # {}
  /\ step' = [step EXCEPT !["main"] = "request"]
  /\ UNCHANGED <<managerVars, appVars, seen, mask, updates>>

RequestClear ==
  /\ Runs("main") /\ step["main"] = "request"
  /\ requested' = TRUE /\ step' = [step EXCEPT !["main"] = "idle"]
  /\ UNCHANGED <<managerVars, calibration, foc, seen, mask, updates>>

(* A start looks at the latch and the calibration well before it stores the *)
(* control mode.                                                           *)
LookHealthy ==
  /\ MainIdle /\ held = {} /\ calibration = "COMPLETE"
  /\ step' = [step EXCEPT !["main"] = "start"]
  /\ UNCHANGED <<managerVars, appVars, seen, mask, updates>>

StartControl ==
  /\ Runs("main") /\ step["main"] = "start"
  /\ foc' = TRUE /\ step' = [step EXCEPT !["main"] = "idle"]
  /\ UNCHANGED <<managerVars, calibration, requested, seen, mask, updates>>

StopControl ==
  /\ MainIdle /\ foc /\ foc' = FALSE
  /\ UNCHANGED <<managerVars, calibration, requested, latchVars, updates>>

-----------------------------------------------------------------------------
(* The ADC interrupt, which nothing preempts.                              *)

(* Mutant: the hysteresis is gone.                                         *)
TripsOnly(c, level) == level[c] = "trip"

(* A quantity trips at its threshold and remains active down to the lower   *)
(* clear threshold.                                                        *)
Exceeds(c, level) == level[c] = "trip" \/ (level[c] = "band" /\ c \in active)

(* What a sample of a quantity is remembered as: the band is left by the    *)
(* side it was entered from, or not.                                       *)
Recorded(c, level) ==
  IF level[c] # "band" THEN level[c]
                       ELSE IF latest[c] \in {"trip", "falling"} THEN "falling" ELSE "rising"

(* fault_manager_update_measurements_fast() on phase currents and voltage.  *)
UpdateMeasurements(level) ==
  /\ latest' = [c \in MeasuredFaults |-> Recorded(c, level)] /\ has_valid' = TRUE
  /\ active' = {c \in MeasuredFaults : Exceeds(c, level)}

(* fault_manager_update_dc_link_voltage(): there are no phase currents yet. *)
UpdateDcLink(level) ==
  /\ latest' = [latest EXCEPT !["OVERVOLTAGE"] = Recorded("OVERVOLTAGE", level)]
  /\ has_valid' = FALSE
  /\ active' = (active \ {"OVERVOLTAGE"}) \cup {c \in {"OVERVOLTAGE"} : Exceeds(c, level)}

(* Mutant: the last fault is taken for the first one.                      *)
OpensAnew(reported) == IF reported # {} THEN reported ELSE first

(* The first-fault record after causes were latched in the interrupt.       *)
Opens(reported) == IF held = {} /\ reported # {} THEN reported ELSE first

(* HAL_HRTIM_WaveformOutputStop() finds the handle locked by main or by the  *)
(* tick, in a stop of its own; it is then in no latch.                      *)
MayBeBusy == \E w \in Writers : step[w] = "idle"

(* An interrupted writer will find the mask or the record changed.          *)
Overlap ==
  updates' = IF <<held', first'>> # <<held, first>> /\ \E w \in Writers : Latching(w)
               THEN "overlapped" ELSE updates

(* fault_manager_latch() in the interrupt, then app_disable_for_fault(),    *)
(* which aborts a calibration that runs.                                   *)
Stop(reported, busy, state) ==
  /\ busy => MayBeBusy
  /\ held' = held \cup reported \cup {c \in {"PWM"} : busy}
  /\ first' = Opens(reported)
  /\ foc' = FALSE
  /\ calibration' = IF state = "RUNNING" THEN "FAILED" ELSE state
  /\ Overlap

(* app_latch_and_stop(): an ADC error, a sensor, estimator or control error *)
(* of a cycle, or a calibration that has failed.                            *)
AdcStop ==
  /\ \E c \in AdcFaults, busy \in BOOLEAN : Stop({c}, busy, calibration)
  /\ UNCHANGED <<active, has_valid, latest, requested, latchVars>>

(* fault_manager_clear(): commands zero, a valid sample, nothing active.    *)
Clears(zero) == requested /\ zero /\ has_valid' /\ active' = {}

Clear == held' = {} /\ UNCHANGED <<first, foc>> /\ Overlap

(* The fault check of a cycle that finds the calibration in this state: a   *)
(* latched fault stops the drive, and the clear that is asked for is tried  *)
(* once, unless the outputs could not be stopped or this was a cycle of the *)
(* FOC loop.                                                               *)
FaultCheck(state) ==
  /\ UNCHANGED latchVars
  /\ IF held \cup active' = {}
       THEN calibration' = state /\ UNCHANGED <<held, first, foc, requested, updates>>
       ELSE \/ /\ \E busy \in BOOLEAN : (busy \/ foc) /\ Stop(active', busy, state)
               /\ UNCHANGED requested
            \/ /\ ~foc /\ requested' = FALSE
               /\ \E zero \in BOOLEAN :
                    IF Clears(zero) THEN Clear /\ calibration' = state
                                    ELSE Stop(active', FALSE, state)

Samples == [MeasuredFaults -> {"low", "band", "trip"}]

(* A sample of the offset calibration that does not end it.                *)
CalibrationCycle ==
  /\ calibration = "RUNNING"
  /\ \E level \in Samples : UpdateDcLink(level)
  /\ FaultCheck("RUNNING")

(* A cycle with phase currents, the last one of the calibration included.   *)
MeasuredCycle ==
  /\ calibration \in {"RUNNING", "COMPLETE"}
  /\ \E level \in Samples : UpdateMeasurements(level)
  /\ FaultCheck("COMPLETE")

Adc == AdcStop \/ CalibrationCycle \/ MeasuredCycle

Next ==
  \/ \E w \in Writers : Latch(w)
  \/ AbortCalibration \/ LatchAborted \/ LookFaulted \/ RequestClear
  \/ LookHealthy \/ StartControl \/ StopControl
  \/ Adc

Spec == Init /\ [][Next]_vars

-----------------------------------------------------------------------------
(* Properties.                                                             *)

(* The abstract fault session: outside a session there is no opening cause. *)
Session == INSTANCE FaultSession
  WITH held <- held, opening <- IF held = {} THEN {} ELSE first

(* As long as the updates have been serialised as fault_manager.h asks, the *)
(* fault manager is a fault session: it holds every cause latched since the *)
(* last clear and the first one (fault_manager_latch_internal).             *)
SerialisedIsSession ==
  Session!Init /\ [][Serialised' => [Session!Next]_(Session!svars)]_vars

(* However the latches of main, tick and interrupt overlap, a drive that is *)
(* faulted remains so until a clear was asked for: a lost update may lose a *)
(* cause, never the fault.                                                 *)
FaultStays ==
  [][held # {} /\ held' = {} => requested /\ ~requested']_vars

(* A clear is given only when every measured quantity that tripped has come *)
(* down to its clear threshold since, in a sample with phase currents.      *)
ClearedIsCalm ==
  [][held # {} /\ held' = {} =>
       \A c \in MeasuredFaults : latest'[c] \in {"low", "rising"}]_vars

(* The active causes are those whose quantity tripped and has not yet come  *)
(* down to its clear threshold.                                            *)
ActiveFollows ==
  active = {c \in MeasuredFaults : latest[c] \in {"trip", "falling"}}

(* Without an overlap a quantity that is out of bounds is in the mask.      *)
ActiveIsHeld == Serialised => active \subseteq held

(* The registers of a latch are what they were read as.                    *)
RegistersOf(w) ==
  Latching(w) =>
    /\ mask[w] # {}
    /\ Serialised =>
         /\ seen[w] = held
         /\ step[w] = "store" /\ held = {} => first = mask[w]
         /\ step[w] = "capture" => held = {}

LatchRegisters ==
  /\ Serialised => ~Latching("main") \/ ~Latching("tick")
  /\ \A w \in Writers : RegistersOf(w)

IInv == TypeOK /\ ActiveFollows /\ ActiveIsHeld /\ LatchRegisters

=============================================================================
