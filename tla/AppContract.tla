----------------------------- MODULE AppContract -----------------------------
(***************************************************************************)
(* What the App promises those who command it (Core/App/app.h): a drive    *)
(* runs only calibrated, by a start from READY; a stop of the speed ends by *)
(* way of the ramp; a latched fault is released only by a clear that was   *)
(* asked for under it, with the references at zero, and leaves the drive   *)
(* FAULTED until the recovery.  DriveLifecycle implements it over three    *)
(* contexts without a lock; Cia402 relies on no more of the App.           *)
(***************************************************************************)
VARIABLES
  state,      \* the lifecycle state
  calibrated, \* the current offset is calibrated
  referenced, \* a published command reference is nonzero
  faulted,    \* a fault is latched
  requested   \* a clear has been asked for and not been served

drive == <<state, calibrated, referenced>>
fault == <<faulted, requested>>
avars == <<drive, fault>>

Running == {"CURRENT_RUNNING", "SPEED_RUNNING"}
States  == Running \cup {"CALIBRATION", "READY", "RAMP_TO_ZERO", "FAULTED"}

Init == state = "CALIBRATION" /\ ~calibrated /\ ~referenced /\ ~faulted /\ ~requested

(* The calibration completes, and the drive gets READY then or later.      *)
Calibrate ==
  /\ calibrated'
  /\ state' = state \/ (state = "CALIBRATION" /\ ~faulted /\ state' = "READY")
  /\ UNCHANGED <<referenced, fault>>

Start ==
  /\ state = "READY" /\ calibrated /\ ~faulted /\ state' \in Running
  /\ referenced' \in BOOLEAN
  /\ UNCHANGED <<calibrated, fault>>

(* A current control stops at once, a speed control by way of the ramp.    *)
Stop ==
  /\ ~faulted /\ <<state, state'>> \in {<<"CURRENT_RUNNING", "READY">>,
                                        <<"SPEED_RUNNING", "RAMP_TO_ZERO">>,
                                        <<"RAMP_TO_ZERO", "READY">>}
  /\ referenced' \in {referenced, FALSE}
  /\ UNCHANGED <<calibrated, fault>>

(* The references move, but not in a drive whose latch has been released.  *)
Refer ==
  /\ state \in Running \cup {"READY", "RAMP_TO_ZERO"} \/ faulted
  /\ referenced' \in BOOLEAN
  /\ UNCHANGED <<state, calibrated, fault>>

(* A fault comes, or is found latched: the drive is disabled now or in the  *)
(* next cycle, and a clear that waits may be used up without success.       *)
Fault ==
  /\ faulted' /\ state' \in {state, "FAULTED"}
  /\ calibrated => calibrated'
  /\ UNCHANGED requested \/ (state' = "FAULTED" /\ ~requested')
  /\ UNCHANGED referenced

(* An operation that was under way when the fault came stores its state;    *)
(* the next cycle stores FAULTED again.                                    *)
Overtaken ==
  /\ faulted /\ state' \in States \ {"CALIBRATION"}
  /\ UNCHANGED <<calibrated, referenced, fault>>

RequestClear == faulted /\ requested' /\ UNCHANGED <<drive, faulted>>

Clear ==
  /\ faulted /\ requested /\ ~referenced
  /\ ~faulted' /\ ~requested' /\ calibrated' /\ state' = "FAULTED" /\ UNCHANGED referenced

Recover ==
  /\ state = "FAULTED" /\ calibrated /\ ~faulted /\ state' = "READY"
  /\ UNCHANGED <<calibrated, referenced, fault>>

Next ==
  \/ Calibrate \/ Start \/ Stop \/ Refer
  \/ Fault \/ Overtaken \/ RequestClear \/ Clear \/ Recover

Spec == Init /\ [][Next]_avars

=============================================================================
