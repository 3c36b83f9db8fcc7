--------------------------- MODULE FaultMaskProofs ---------------------------
(***************************************************************************)
(* For every set of fault causes and every division of them among the       *)
(* writers: the inductive invariant of the fault manager, its refinement of *)
(* FaultSession while updates are serialised, and what survives if not.     *)
(***************************************************************************)
EXTENDS FaultMask, TLAPS

(* The measurement of a cycle keeps types and the hysteresis.              *)
LEMMA MeasurementStep ==
  ASSUME IInv, NEW level \in Samples, UpdateMeasurements(level) \/ UpdateDcLink(level)
  PROVE  /\ active' \in SUBSET MeasuredFaults /\ latest' \in [MeasuredFaults -> Levels]
         /\ has_valid' \in BOOLEAN /\ ActiveFollows'
<1>0. TypeOK /\ ActiveFollows
  BY DEF IInv
<1>1. CASE UpdateMeasurements(level)
  BY <1>0, <1>1 DEF UpdateMeasurements, Exceeds, Recorded, TypeOK, ActiveFollows, Samples, Levels
<1>2. CASE UpdateDcLink(level)
  <2>1. "OVERVOLTAGE" \in MeasuredFaults
    BY DEF MeasuredFaults
  <2>2. Recorded("OVERVOLTAGE", level) \in Levels
    BY <1>0, <2>1 DEF Recorded, Samples, Levels, TypeOK
  <2>3. /\ \A c \in MeasuredFaults :
             latest'[c] = IF c = "OVERVOLTAGE" THEN Recorded("OVERVOLTAGE", level) ELSE latest[c]
        /\ latest' \in [MeasuredFaults -> Levels]
    BY <1>0, <1>2, <2>2 DEF UpdateDcLink, TypeOK
  <2>4. "OVERVOLTAGE" \in active' <=> Exceeds("OVERVOLTAGE", level)
    BY <1>2 DEF UpdateDcLink
  <2>5. Exceeds("OVERVOLTAGE", level) <=>
          Recorded("OVERVOLTAGE", level) \in {"trip", "falling"}
    BY <1>0, <2>1 DEF Exceeds, Recorded, ActiveFollows, Samples
  <2>6. /\ active' \in SUBSET MeasuredFaults
        /\ \A c \in MeasuredFaults \ {"OVERVOLTAGE"} : c \in active' <=> c \in active
    BY <1>0, <1>2, <2>1 DEF UpdateDcLink, TypeOK
  <2>7. \A c \in MeasuredFaults : c \in active' <=> latest'[c] \in {"trip", "falling"}
    BY <1>0, <2>3, <2>4, <2>5, <2>6 DEF ActiveFollows
  <2>8. has_valid' \in BOOLEAN
    BY <1>2 DEF UpdateDcLink
  <2>9. QED
    BY <2>3, <2>6, <2>7, <2>8 DEF ActiveFollows
<1>3. QED
  BY <1>1, <1>2

(* The fault check of a cycle keeps the types, whatever was measured.       *)
LEMMA FaultCheckTypes ==
  ASSUME IInv, active' \in SUBSET MeasuredFaults, has_valid' \in BOOLEAN,
         latest' \in [MeasuredFaults -> Levels],
         NEW state \in {"RUNNING", "COMPLETE"}, FaultCheck(state)
  PROVE  TypeOK'
<1>0. TypeOK /\ "PWM" \in Causes /\ active' \in SUBSET Causes
  BY FaultsAssumption DEF IInv, Causes
<1>1. /\ held' \in SUBSET Causes /\ first' \in SUBSET Causes
      /\ calibration' \in {"RUNNING", "COMPLETE", "FAILED"}
  BY <1>0 DEF FaultCheck, Stop, Clear, Opens, TypeOK
<1>2. /\ foc' \in BOOLEAN /\ requested' \in BOOLEAN
      /\ updates' \in {"serialised", "overlapped"}
  BY <1>0, Zenon DEF FaultCheck, Stop, Clear, Overlap, TypeOK
<1>3. UNCHANGED latchVars
  BY DEF FaultCheck
<1>4. QED
  BY <1>0, <1>1, <1>2, <1>3 DEF TypeOK, latchVars

(* Every step keeps the types.                                             *)
LEMMA TypeStep ==
  ASSUME IInv, [Next]_vars PROVE TypeOK'
<1>0. TypeOK /\ "CURRENT_SENSOR" \in MainFaults /\ "PWM" \in Causes
  BY FaultsAssumption DEF IInv, Causes
<1> USE <1>0 DEF TypeOK, managerVars, appVars, latchVars, Steps
<1>1. ASSUME NEW w \in Writers, Latch(w) PROVE TypeOK'
  <2>1. FaultsOf(w) \subseteq Causes
    BY DEF FaultsOf, Causes
  <2>2. CASE LatchRead(w)
    BY <2>1, <2>2 DEF LatchRead
  <2>3. CASE LatchCapture(w)
    BY <2>3 DEF LatchCapture
  <2>4. CASE LatchReadAgain(w)
    BY <2>4 DEF LatchReadAgain
  <2>5. CASE LatchStore(w)
    BY <2>5 DEF LatchStore
  <2>6. QED
    BY <1>1, <2>2, <2>3, <2>4, <2>5 DEF Latch
<1>2. CASE AbortCalibration
  BY <1>2 DEF AbortCalibration
<1>3. CASE LatchAborted
  BY <1>3 DEF LatchAborted, Causes
<1>4. CASE LookFaulted
  BY <1>4 DEF LookFaulted
<1>5. CASE RequestClear
  BY <1>5 DEF RequestClear
<1>6. CASE LookHealthy \/ StartControl \/ StopControl
  BY <1>6 DEF LookHealthy, StartControl, StopControl
<1>7. CASE AdcStop
  <2>1. PICK c \in AdcFaults, busy \in BOOLEAN : Stop({c}, busy, calibration)
    BY <1>7 DEF AdcStop
  <2>2. /\ held' \in SUBSET Causes /\ first' \in SUBSET Causes
        /\ calibration' \in {"RUNNING", "COMPLETE", "FAILED"}
    BY <2>1 DEF Stop, Opens, Causes
  <2>3. foc' \in BOOLEAN /\ updates' \in {"serialised", "overlapped"}
    BY <2>1, Zenon DEF Stop, Overlap
  <2>4. QED
    BY <1>7, <2>2, <2>3 DEF AdcStop
<1>8. CASE CalibrationCycle \/ MeasuredCycle
  BY <1>8, MeasurementStep, FaultCheckTypes DEF CalibrationCycle, MeasuredCycle
<1>9. CASE UNCHANGED vars
  BY <1>9 DEF vars
<1>10. QED
  BY <1>1, <1>2, <1>3, <1>4, <1>5, <1>6, <1>7, <1>8, <1>9 DEF Next, Adc

(* A store to mask or record in the interrupt that finds a writer between   *)
(* read and store is an overlap, so that the other parts are kept.          *)
LEMMA OverlapKeepsRegisters ==
  ASSUME IInv, Overlap, UNCHANGED latchVars PROVE LatchRegisters'
<1>1. /\ step' = step /\ seen' = seen /\ mask' = mask
  BY DEF latchVars
<1>2. \A w \in Writers : Latching(w)' <=> Latching(w)
  BY <1>1 DEF Latching
<1>3. ASSUME Serialised'
      PROVE  Serialised /\ \A w \in Writers : Latching(w) => held' = held /\ first' = first
  BY <1>3 DEF Overlap, Serialised
<1>4. QED
  BY <1>1, <1>2, <1>3 DEF IInv, LatchRegisters, RegistersOf, Writers

(* The fault check keeps what the invariant says of mask and registers.     *)
LEMMA FaultCheckStep ==
  ASSUME IInv, active' \in SUBSET MeasuredFaults, NEW state, FaultCheck(state)
  PROVE  ActiveIsHeld' /\ LatchRegisters'
<1>1. CASE held \cup active' = {}
  <2>1. active' = {} /\ UNCHANGED <<held, first, updates, latchVars>>
    BY <1>1 DEF FaultCheck
  <2>2. Overlap
    BY <2>1 DEF Overlap
  <2>3. active' \subseteq held'
    BY <2>1
  <2>4. LatchRegisters'
    BY <2>1, <2>2, OverlapKeepsRegisters
  <2>5. QED
    BY <2>3, <2>4 DEF ActiveIsHeld
<1>2. CASE held \cup active' # {}
  <2>1. /\ Overlap /\ UNCHANGED latchVars
        /\ active' \subseteq held' \/ active' = {}
    BY <1>2 DEF FaultCheck, Stop, Clear, Clears
  <2>2. QED
    BY <2>1, OverlapKeepsRegisters DEF ActiveIsHeld
<1>3. QED
  BY <1>1, <1>2

(* Every step keeps the invariant.                                         *)
LEMMA InvStep ==
  ASSUME IInv, [Next]_vars PROVE IInv'
<1>0. TypeOK' /\ TypeOK /\ ActiveFollows /\ ActiveIsHeld /\ LatchRegisters
  BY TypeStep DEF IInv
<1> SUFFICES ActiveFollows' /\ ActiveIsHeld' /\ LatchRegisters'
  BY <1>0 DEF IInv
<1>1. ASSUME NEW w \in Writers, Latch(w)
      PROVE  ActiveFollows' /\ ActiveIsHeld' /\ LatchRegisters'
  <2>0. active' = active /\ latest' = latest
    BY <1>1 DEF Latch, LatchRead, LatchCapture, LatchReadAgain, LatchStore, managerVars
  <2>1. ActiveFollows'
    BY <1>0, <2>0 DEF ActiveFollows
  <2>2. ASSUME Serialised', NEW v \in Writers
        PROVE  Serialised /\ (v = w \/ ~Latching(v) \/ ~LatchRead(w))
    BY <1>1, <2>2 DEF Latch, LatchRead, LatchCapture, LatchReadAgain, LatchStore, Serialised
  <2>3. ASSUME NEW v \in Writers, v # w
        PROVE  step'[v] = step[v] /\ seen'[v] = seen[v] /\ mask'[v] = mask[v]
    BY <1>0, <1>1, <2>3 DEF Latch, LatchRead, LatchCapture, LatchReadAgain, LatchStore, TypeOK
  <2>4. ASSUME Serialised' PROVE held \subseteq held'
    BY <1>0, <1>1, <2>2, <2>4 DEF Latch, LatchRead, LatchCapture, LatchReadAgain, LatchStore,
         LatchRegisters, RegistersOf, Latching, managerVars
  <2>5. ActiveIsHeld'
    BY <1>0, <2>0, <2>2, <2>4 DEF ActiveIsHeld
  <2>6. RegistersOf(w)'
    <3>1. CASE LatchRead(w)
      BY <1>0, <2>2, <3>1 DEF LatchRead, RegistersOf, Latching, TypeOK, managerVars
    <3>2. CASE LatchCapture(w)
      BY <1>0, <2>2, <3>2 DEF LatchCapture, LatchRegisters, RegistersOf, Latching, TypeOK
    <3>3. CASE LatchReadAgain(w)
      BY <1>0, <2>2, <3>3 DEF LatchReadAgain, LatchRegisters, RegistersOf, Latching, TypeOK,
           managerVars
    <3>4. CASE LatchStore(w)
      BY <1>0, <3>4 DEF LatchStore, RegistersOf, Latching, TypeOK
    <3>5. QED
      BY <1>1, <3>1, <3>2, <3>3, <3>4 DEF Latch
  <2>7. Latching(w) \/ LatchRead(w)
    BY <1>1 DEF Latch, LatchCapture, LatchReadAgain, LatchStore, Latching
  <2>8. ASSUME Serialised', NEW v \in Writers, v # w PROVE ~Latching(v)
    BY <1>0, <2>2, <2>7, <2>8 DEF LatchRegisters, Writers
  <2>9. ASSUME NEW v \in Writers, v # w PROVE RegistersOf(v)'
    BY <1>0, <2>3, <2>8, <2>9 DEF LatchRegisters, RegistersOf, Latching
  <2>10. LatchRegisters'
    BY <2>3, <2>6, <2>8, <2>9 DEF LatchRegisters, RegistersOf, Latching, Writers
  <2>11. QED
    BY <2>1, <2>5, <2>10
<1>2. CASE \/ AbortCalibration \/ LatchAborted \/ LookFaulted \/ RequestClear
           \/ LookHealthy \/ StartControl \/ StopControl
  BY <1>0, <1>2 DEF AbortCalibration, LatchAborted, LookFaulted, RequestClear,
       LookHealthy, StartControl, StopControl,
       MainIdle, ActiveFollows, ActiveIsHeld, LatchRegisters, RegistersOf, Latching, managerVars, appVars,
       latchVars, Serialised, TypeOK, Writers, Runs, Steps
<1>3. CASE AdcStop
  <2>1. /\ Overlap /\ UNCHANGED <<active, latest, latchVars>> /\ held \subseteq held'
    BY <1>3 DEF AdcStop, Stop
  <2>2. Serialised' => Serialised
    BY <2>1 DEF Overlap, Serialised
  <2>3. QED
    BY <1>0, <2>1, <2>2, OverlapKeepsRegisters DEF ActiveFollows, ActiveIsHeld
<1>4. CASE CalibrationCycle \/ MeasuredCycle
  BY <1>4, MeasurementStep, FaultCheckStep DEF CalibrationCycle, MeasuredCycle
<1>5. CASE UNCHANGED vars
  BY <1>0, <1>5 DEF vars, managerVars, latchVars, ActiveFollows, ActiveIsHeld, LatchRegisters,
       RegistersOf, Latching, Serialised
<1>6. QED
  BY <1>1, <1>2, <1>3, <1>4, <1>5 DEF Next, Adc

(* A started fault manager satisfies the invariant.                        *)
LEMMA InvInit ==
  ASSUME Init PROVE IInv
<1>1. TypeOK
  BY DEF Init, TypeOK, Levels, Steps
<1>2. ActiveFollows /\ ActiveIsHeld
  BY DEF Init, ActiveFollows, ActiveIsHeld
<1>3. LatchRegisters
  BY DEF Init, LatchRegisters, RegistersOf, Latching, Writers
<1>4. QED
  BY <1>1, <1>2, <1>3 DEF IInv

(* Types, hysteresis, mask and registers hold in every state.              *)
THEOREM Invariance == Spec => []IInv
<1>1. Init => IInv
  BY InvInit
<1>2. IInv /\ [Next]_vars => IInv'
  BY InvStep
<1>3. QED
  BY <1>1, <1>2, PTL DEF Spec

(* Every variable keeps its type, for all causes.                          *)
THEOREM TypeCorrect == Spec => []TypeOK
  BY Invariance, PTL DEF IInv

(* Without an overlap a quantity that is out of bounds is in the mask.      *)
THEOREM OutOfBoundsIsHeld == Spec => []ActiveIsHeld
  BY Invariance, PTL DEF IInv



-----------------------------------------------------------------------------

(* The mask is emptied by a clear that was asked for, and by nothing else:  *)
(* a store of main or the tick always carries a cause.                      *)
LEMMA EmptiedByClear ==
  ASSUME IInv, [Next]_vars, held # {}, held' = {}
  PROVE  requested /\ ~requested' /\ active' = {}
<1>1. ASSUME NEW w \in Writers, Latch(w) PROVE FALSE
  BY <1>1 DEF IInv, LatchRegisters, RegistersOf, Latching, Latch, LatchRead, LatchCapture, LatchReadAgain,
       LatchStore, managerVars
<1>2. CASE \/ AbortCalibration \/ LatchAborted \/ LookFaulted \/ RequestClear
           \/ LookHealthy \/ StartControl \/ StopControl
           \/ UNCHANGED vars
  BY <1>2 DEF AbortCalibration, LatchAborted, LookFaulted, RequestClear,
       LookHealthy, StartControl, StopControl,
       managerVars, vars
<1>3. CASE AdcStop
  BY <1>3 DEF AdcStop, Stop
<1>4. ASSUME NEW state, FaultCheck(state) PROVE requested /\ ~requested' /\ active' = {}
  BY <1>4 DEF FaultCheck, Stop, Clears
<1>5. QED
  BY <1>1, <1>2, <1>3, <1>4 DEF Next, Adc, CalibrationCycle, MeasuredCycle

(* However latches overlap, a faulted drive remains so until a clear was    *)
(* asked for.                                                              *)
THEOREM FaultsStay == Spec => FaultStays
<1>1. IInv /\ [Next]_vars =>
        [held # {} /\ held' = {} => requested /\ ~requested']_vars
  BY EmptiedByClear
<1>2. QED
  BY <1>1, Invariance, PTL DEF Spec, FaultStays

(* A clear finds every tripped quantity down at its clear threshold.        *)
THEOREM ClearsAreCalm == Spec => ClearedIsCalm
<1>1. IInv /\ [Next]_vars =>
        [held # {} /\ held' = {} =>
           \A c \in MeasuredFaults : latest'[c] \in {"low", "rising"}]_vars
  <2>1. SUFFICES ASSUME IInv, [Next]_vars, held # {}, held' = {}, NEW c \in MeasuredFaults
                 PROVE  latest'[c] \in {"low", "rising"}
    OBVIOUS
  <2>2. active' = {} /\ ActiveFollows' /\ TypeOK'
    BY <2>1, EmptiedByClear, InvStep DEF IInv
  <2>3. QED
    BY <2>2 DEF ActiveFollows, TypeOK, Levels
<1>2. QED
  BY <1>1, Invariance, PTL DEF Spec, ClearedIsCalm

(* A report in the interrupt, of a first set of causes and what follows it. *)
LEMMA ReportStep ==
  ASSUME NEW S \in SUBSET Causes, NEW T \in SUBSET Causes,
         S # {} \/ held # {}, held' = held \cup S \cup T,
         first' = IF held = {} /\ S # {} THEN S ELSE first
  PROVE  [Session!Next]_(Session!svars)
<1>1. CASE S # {}
  <2>1. S \in (SUBSET Causes) \ {{}}
    BY <1>1
  <2>2. (IF held' = {} THEN {} ELSE first') =
          (IF held = {} THEN S ELSE IF held = {} THEN {} ELSE first)
    BY <1>1
  <2>3. QED
    BY <2>1, <2>2, Zenon DEF Session!Next, Session!Report
<1>2. CASE S = {} /\ T # {}
  <2>1. /\ held' = held \cup T \cup {} /\ held # {}
        /\ (IF held' = {} THEN {} ELSE first') =
             (IF held = {} THEN T ELSE IF held = {} THEN {} ELSE first)
    BY <1>2
  <2>2. QED
    BY <1>2, <2>1 DEF Session!Next, Session!Report, Session!svars
<1>3. CASE S = {} /\ T = {}
  BY <1>3 DEF Session!svars
<1>4. QED
  BY <1>1, <1>2, <1>3

(* Every step that leaves the updates serialised is one of the session.     *)
LEMMA SessionStep ==
  ASSUME IInv, [Next]_vars, Serialised' PROVE [Session!Next]_(Session!svars)
<1>0. "PWM" \in Causes /\ TypeOK /\ LatchRegisters
  BY FaultsAssumption DEF Causes, IInv
<1>1. ASSUME UNCHANGED <<held, first>> PROVE [Session!Next]_(Session!svars)
  BY <1>1 DEF Session!svars
<1>2. ASSUME NEW w \in Writers, Latch(w) PROVE [Session!Next]_(Session!svars)
  <2>1. Serialised
    BY <1>2 DEF Latch, LatchRead, LatchCapture, LatchReadAgain, LatchStore, Serialised
  <2>2. CASE LatchRead(w) \/ LatchReadAgain(w)
    BY <1>1, <2>2 DEF LatchRead, LatchReadAgain, managerVars
  <2>3. CASE LatchCapture(w)
    BY <1>0, <2>1, <2>3 DEF LatchCapture, LatchRegisters, RegistersOf, Latching, Session!svars
  <2>4. CASE LatchStore(w)
    <3>1. /\ held' = held \cup mask[w] /\ first' = first
          /\ mask[w] # {} /\ mask[w] \in SUBSET Causes
          /\ held = {} => first = mask[w]
      BY <1>0, <2>1, <2>4 DEF LatchStore, LatchRegisters, RegistersOf, Latching, TypeOK
    <3>2. first' = IF held = {} /\ mask[w] # {} THEN mask[w] ELSE first
      BY <3>1
    <3>3. held' = held \cup mask[w] \cup {}
      BY <3>1
    <3>4. QED
      BY <3>1, <3>2, <3>3, ReportStep
  <2>5. QED
    BY <1>2, <2>2, <2>3, <2>4 DEF Latch
<1>3. CASE \/ AbortCalibration \/ LatchAborted \/ LookFaulted \/ RequestClear
           \/ LookHealthy \/ StartControl \/ StopControl
           \/ UNCHANGED vars
  BY <1>1, <1>3 DEF AbortCalibration, LatchAborted, LookFaulted, RequestClear,
       LookHealthy, StartControl, StopControl,
       managerVars, vars
<1>4. ASSUME NEW S \in SUBSET Causes, NEW busy, NEW state, S # {} \/ held # {},
             Stop(S, busy, state)
      PROVE  [Session!Next]_(Session!svars)
  <2>1. {c \in {"PWM"} : busy} \in SUBSET Causes
    BY <1>0
  <2>2. held' = held \cup S \cup {c \in {"PWM"} : busy}
    BY <1>4, Zenon DEF Stop
  <2>3. first' = IF held = {} /\ S # {} THEN S ELSE first
    BY <1>4, Zenon DEF Stop, Opens
  <2>4. QED
    BY <1>4, <2>1, <2>2, <2>3, ReportStep
<1>5. CASE AdcStop
  BY <1>4, <1>5 DEF AdcStop, Causes
<1>6. ASSUME NEW state, active' \in SUBSET MeasuredFaults, FaultCheck(state)
      PROVE  [Session!Next]_(Session!svars)
  <2>1. CASE held \cup active' = {}
    BY <1>1, <1>6, <2>1 DEF FaultCheck
  <2>2. CASE held \cup active' # {} /\ \E busy \in BOOLEAN : Stop(active', busy, state)
    BY <1>4, <1>6, <2>2 DEF Causes
  <2>3. CASE held' = {} /\ first' = first
    BY <2>3 DEF Session!Next, Session!Clear, Session!svars
  <2>4. QED
    BY <1>6, <2>1, <2>2, <2>3 DEF FaultCheck, Clear
<1>7. CASE CalibrationCycle \/ MeasuredCycle
  BY <1>6, <1>7, MeasurementStep DEF CalibrationCycle, MeasuredCycle
<1>8. QED
  BY <1>2, <1>3, <1>5, <1>7 DEF Next, Adc

(* While the updates are serialised, as fault_manager.h asks, the fault     *)
(* manager is a fault session: nothing latched is lost before a clear, and  *)
(* the record of the first fault is the first one.                          *)
THEOREM SerialisedManagerIsSession == Spec => SerialisedIsSession
<1>1. Init => Session!Init
  BY DEF Init, Session!Init
<1>2. IInv /\ [Next]_vars => [Serialised' => [Session!Next]_(Session!svars)]_vars
  BY SessionStep
<1>3. QED
  BY <1>1, <1>2, Invariance, PTL DEF Spec, SerialisedIsSession

=============================================================================
