--------------------------- MODULE ParameterStore ---------------------------
(***************************************************************************)
(* The drive parameters: the debugger mailbox and its manager              *)
(* (Core/App/drive_parameter_manager.c), the maintenance window of the     *)
(* main loop (Core/Src/main.c) and the two Flash slots (drive_parameters.c,*)
(* flash_storage_driver.c).  One action per access to Flash and per access *)
(* to the mailbox, which the debugger writes while the core runs; power    *)
(* may go away between any two of them, and each Flash call may fail with  *)
(* or without its effect.                                                  *)
(*                                                                         *)
(* Abstractions: a parameter set is one value; a request counter is a      *)
(* member of `requests' while it differs from its handled counter; a slot  *)
(* is empty when its record is rejected for any reason but the missing     *)
(* commit marker, so a torn erase or program leaves it empty.              *)
(***************************************************************************)
EXTENDS Integers

CONSTANTS
  Sets,         \* parameter sets the debugger may write
  Valid,        \* those that drive_parameters_is_valid() accepts
  Usable,       \* those that motor_control_init() accepts as well
  Defaults,     \* the compiled-in set
  NoSet,        \* no parameter set
  Half,         \* generations count modulo 2 * Half (2^32 in the code)
  Undisturbed   \* TRUE: the debugger writes only between two turns of main

ASSUME SetsAssumption ==
  Usable \subseteq Valid /\ Valid \subseteq Sets /\ Defaults \in Usable /\ NoSet \notin Sets
ASSUME HalfAssumption == Half \in Nat /\ Half >= 2
ASSUME UndisturbedAssumption == Undisturbed \in BOOLEAN

VARIABLES
  slot,              \* contents of the Flash slots "A" and "B"
  working,           \* drive_parameter_debug.working_set
  active,            \* drive_parameter_debug.active_set
  controller,        \* the set motor_control was initialised with
  active_slot,       \* manager's active_slot
  active_generation, \* drive_parameter_debug.active_generation
  requests,          \* request counters that differ from the handled ones
  safe,              \* drive READY and PWM off
  is_safe_state,     \* what main saw of it in this turn
  sampling,          \* HRTIM counter and ADC run
  pc                 \* where main stands

ramVars  == <<working, active, controller, active_slot, active_generation>>
mainVars == <<is_safe_state, sampling>>
vars     == <<slot, ramVars, requests, safe, mainVars, pc>>

Kinds       == {"load", "defaults", "apply", "save", "erase"}
Maintenance == {"apply", "save", "erase"}
Generations == 0..(2 * Half - 1)
Empty       == [marker |-> FALSE, generation |-> 0, set |-> NoSet]
Records     == [marker : BOOLEAN, generation : Generations, set : Sets]
ErasePcs    == {"eraseA", "eraseB", "erased"}
SavePcs     == {"saveErase", "saveBody", "saveMarker", "saved"}
Pcs == {"boot", "idle", "window", "stop", "process", "applyCall", "applyCopy", "close",
        "halted"} \cup ErasePcs \cup SavePcs

(* Every variable keeps its type.                                          *)
TypeOK ==
  /\ slot \in [{"A", "B"} -> Records \cup {Empty}]
  /\ working \in Sets /\ active \in Sets /\ controller \in Sets
  /\ active_slot \in {"none", "A", "B"} /\ active_generation \in Generations
  /\ requests \subseteq Kinds /\ safe \in BOOLEAN /\ is_safe_state \in BOOLEAN
  /\ sampling \in BOOLEAN /\ pc \in Pcs

-----------------------------------------------------------------------------
(* Records and generations.                                                *)

(* generation + 1 as the code counts it.                                   *)
Next32(g) == IF g = 2 * Half - 1 THEN 0 ELSE g + 1

(* Mutant: generations are compared as plain numbers.                      *)
NewerPlain(a, b) == a > b

(* (int32_t)(a - b) > 0.                                                   *)
Newer(a, b) == (IF a >= b THEN a - b ELSE a - b + 2 * Half) \in 1..(Half - 1)

(* drive_parameter_record_decode() succeeds.                               *)
Good(s) == slot[s].marker /\ slot[s].set \in Valid

(* drive_parameter_record_select_latest(): the slot it chooses.            *)
Latest ==
  IF Good("A") /\ (Good("B") => Newer(slot["A"].generation, slot["B"].generation))
    THEN "A" ELSE IF Good("B") THEN "B" ELSE "none"

(* Mutant: a save overwrites the slot the active record is in.             *)
TargetSame == IF active_slot = "B" THEN "B" ELSE "A"

(* The slot a save goes to.                                                *)
Target == IF active_slot = "A" THEN "B" ELSE "A"

(* drive_parameter_record_encode(), without and with the commit marker.    *)
Record(marker) ==
  [marker |-> marker, generation |-> Next32(active_generation), set |-> active]

-----------------------------------------------------------------------------
(* Start.  The RAM is written before it is read, so it keeps its content   *)
(* until then.                                                             *)

Init ==
  /\ slot = [s \in {"A", "B"} |-> Empty]
  /\ working = Defaults /\ active = Defaults /\ controller = Defaults
  /\ active_slot = "none" /\ active_generation = 0
  /\ requests = {} /\ safe = FALSE /\ is_safe_state = FALSE /\ sampling = TRUE
  /\ pc = "boot"

(* drive_parameter_manager_init(), then motor_control_init() with the      *)
(* active set, without which the firmware halts in Error_Handler().        *)
Boot ==
  /\ pc = "boot"
  /\ LET loaded == IF Latest = "none" THEN Defaults ELSE slot[Latest].set
     IN /\ working' = loaded /\ active' = loaded
        /\ controller' = IF loaded \in Usable THEN loaded ELSE controller
        /\ pc' = IF loaded \in Usable THEN "idle" ELSE "halted"
  /\ active_slot' = Latest
  /\ active_generation' = IF Latest = "none" THEN 0 ELSE slot[Latest].generation
  /\ requests' = {} /\ safe' = FALSE /\ is_safe_state' = FALSE /\ sampling' = TRUE
  /\ UNCHANGED slot

PowerLoss ==
  /\ pc' = "boot"
  /\ UNCHANGED <<slot, ramVars, requests, safe, mainVars>>

-----------------------------------------------------------------------------
(* main_process_drive_parameters().                                        *)

Goto(there) == pc' = there

(* Mutant: the drive state is looked at once and for all.                  *)
LookSafeOnce ==
  /\ pc = "idle" /\ Goto("window")
  /\ UNCHANGED <<slot, ramVars, requests, safe, mainVars>>

(* main looks at the drive state, then at the request counters.            *)
LookSafe ==
  /\ pc = "idle" /\ is_safe_state' = safe /\ Goto("window")
  /\ UNCHANGED <<slot, ramVars, requests, safe, sampling>>

LookPending ==
  /\ pc = "window"
  /\ Goto(IF is_safe_state /\ requests \cap Maintenance # {} THEN "stop" ELSE "process")
  /\ UNCHANGED <<slot, ramVars, requests, safe, mainVars>>

(* A counter or ADC that does not stop or start again halts the firmware.  *)
StopSampling ==
  /\ pc = "stop"
  /\ \/ sampling' = FALSE /\ Goto("process")
     \/ UNCHANGED sampling /\ Goto("halted")
  /\ UNCHANGED <<slot, ramVars, requests, safe, is_safe_state>>

RestartSampling ==
  /\ pc = "close"
  /\ IF sampling THEN Goto("idle") /\ UNCHANGED sampling
     ELSE \/ Goto("idle") /\ sampling' = TRUE
          \/ Goto("halted") /\ UNCHANGED sampling
  /\ UNCHANGED <<slot, ramVars, requests, safe, is_safe_state>>

-----------------------------------------------------------------------------
(* drive_parameter_manager_process(): one request per call, in this order. *)

(* The requests that are looked at before this one.                        *)
Before == [load     |-> {},
           defaults |-> {"load"},
           apply    |-> {"load", "defaults"},
           save     |-> {"load", "defaults", "apply"},
           erase    |-> {"load", "defaults", "apply", "save"}]

Dispatch(k) ==
  /\ pc = "process" /\ k \in requests /\ requests \cap Before[k] = {}
  /\ requests' = requests \ {k}
  /\ UNCHANGED <<slot, safe, mainVars>>

(* Mutant: a request that is held back is neither served nor passed over.   *)
NothingRequested ==
  /\ pc = "process" /\ requests = {} /\ Goto("close")
  /\ UNCHANGED <<slot, ramVars, requests, safe, mainVars>>

NothingToDo ==
  /\ pc = "process"
  /\ \/ requests = {}
     \/ ~is_safe_state /\ requests \subseteq Maintenance   \* PENDING_SAFE_STATE
  /\ Goto("close")
  /\ UNCHANGED <<slot, ramVars, requests, safe, mainVars>>

Load ==
  /\ Dispatch("load") /\ Goto("close")
  /\ IF Latest = "none"
       THEN UNCHANGED <<working, active_slot, active_generation>>
       ELSE /\ working' = slot[Latest].set /\ active_slot' = Latest
            /\ active_generation' = slot[Latest].generation
  /\ UNCHANGED <<active, controller>>

LoadDefaults ==
  /\ Dispatch("defaults") /\ Goto("close")
  /\ working' = Defaults
  /\ UNCHANGED <<active, controller, active_slot, active_generation>>

(* The working set is read three times: for the range check, by            *)
(* main_apply_drive_parameters(), and for the copy to the active set.      *)
Apply ==
  /\ is_safe_state /\ Dispatch("apply")
  /\ Goto(IF working \in Valid THEN "applyCall" ELSE "close")
  /\ UNCHANGED ramVars

ApplyCall ==
  /\ pc = "applyCall"
  /\ IF working \in Usable THEN controller' = working /\ Goto("applyCopy")
                           ELSE UNCHANGED controller /\ Goto("close")
  /\ UNCHANGED <<slot, working, active, active_slot, active_generation, requests, safe,
                 mainVars>>

ApplyCopy ==
  /\ pc = "applyCopy" /\ active' = working /\ Goto("close")
  /\ UNCHANGED <<slot, working, controller, active_slot, active_generation, requests, safe,
                 mainVars>>

(* Only an active set equal to the working set is encoded and saved.       *)
Save ==
  /\ is_safe_state /\ Dispatch("save")
  /\ Goto(IF working = active /\ active \in Valid THEN "saveErase" ELSE "close")
  /\ UNCHANGED ramVars

-----------------------------------------------------------------------------
(* Flash calls.  `done': the effect happened; `ok': the call said so.      *)

Flash(here, s, content, there) ==
  /\ pc = here
  /\ \E done \in BOOLEAN, ok \in BOOLEAN :
       /\ ok => done
       /\ slot' = IF done THEN [slot EXCEPT ![s] = content] ELSE slot
       /\ Goto(IF ok THEN there ELSE "close")
  /\ UNCHANGED <<ramVars, requests, safe, mainVars>>

SaveErase == Flash("saveErase", Target, Empty, "saveBody")

(* A body that could not be programmed leaves a record that is rejected.   *)
SaveBody == Flash("saveBody", Target, Record(FALSE), "saveMarker")

SaveMarker == Flash("saveMarker", Target, Record(TRUE), "saved")

Saved ==
  /\ pc = "saved" /\ Goto("close")
  /\ active_slot' = Target /\ active_generation' = Next32(active_generation)
  /\ UNCHANGED <<slot, working, active, controller, requests, safe, mainVars>>

(* The erase request takes slot A, then slot B.                            *)
Erase ==
  /\ is_safe_state /\ Dispatch("erase")
  /\ Goto("eraseA")
  /\ UNCHANGED ramVars

EraseA == Flash("eraseA", "A", Empty, "eraseB")
EraseB == Flash("eraseB", "B", Empty, "erased")

Erased ==
  /\ pc = "erased" /\ Goto("close") /\ active_slot' = "none"
  /\ UNCHANGED <<slot, working, active, controller, active_generation, requests, safe,
                 mainVars>>

Main ==
  \/ Boot \/ LookSafe \/ LookPending \/ StopSampling \/ RestartSampling
  \/ NothingToDo \/ Load \/ LoadDefaults \/ Apply \/ ApplyCall \/ ApplyCopy
  \/ Save \/ SaveErase \/ SaveBody \/ SaveMarker \/ Saved
  \/ Erase \/ EraseA \/ EraseB \/ Erased

-----------------------------------------------------------------------------
(* The debugger and the rest of the firmware.                              *)

MailboxOpen == pc \notin {"boot", "halted"} /\ (Undisturbed => pc = "idle")

DebuggerEdits ==
  /\ MailboxOpen /\ working' \in Sets
  /\ UNCHANGED <<slot, active, controller, active_slot, active_generation, requests, safe,
                 mainVars, pc>>

DebuggerRequests ==
  /\ MailboxOpen /\ \E k \in Kinds \ requests : requests' = requests \cup {k}
  /\ UNCHANGED <<slot, ramVars, safe, mainVars, pc>>

(* Main starts and stops the drive between its turns; a fault takes READY  *)
(* away whenever ADC interrupts come.                                      *)
DriveMoves ==
  /\ \/ pc = "idle" /\ safe' = ~safe
     \/ pc # "boot" /\ sampling /\ safe /\ safe' = FALSE
  /\ UNCHANGED <<slot, ramVars, requests, mainVars, pc>>

Next == Main \/ PowerLoss \/ DebuggerEdits \/ DebuggerRequests \/ DriveMoves

Spec == Init /\ [][Next]_vars

(* The main loop goes on.                                                  *)
FairSpec == Spec /\ WF_vars(Main)

(* ... which says something only if it always can: no state of the mailbox, *)
(* the drive or the Flash leaves main waiting, outside Error_Handler().     *)
MainGoesOn == pc # "halted" => ENABLED <<Main>>_vars

-----------------------------------------------------------------------------
(* Properties.                                                             *)

(* What the slots hold, in the terms of DurableParameters: the record the  *)
(* manager stands on, and beside it the successor of a save that was not   *)
(* reported, or anything older.                                            *)
Confirmed ==
  IF active_slot # "none" /\ slot[active_slot].marker THEN slot[active_slot].set ELSE NoSet
IsAttempt == slot[Target].marker /\ slot[Target].generation = Next32(active_generation)
IsOlder   == slot[Target].marker /\ slot[Target].generation # Next32(active_generation)

Durable == INSTANCE DurableParameters WITH
  confirmed <- Confirmed,
  attempt   <- IF IsAttempt THEN slot[Target].set ELSE NoSet,
  older     <- IF IsOlder THEN slot[Target].set ELSE NoSet,
  erasing   <- pc \in ErasePcs

(* A start after a power loss at any step of a save or a load finds the set *)
(* saved last or the one being saved; only an erase brings an older one     *)
(* back (flash_parameter_storage.md, "Record", boot and torn saves).       *)
DurableSpec == Durable!Spec

(* Every record that a start would load is one motor_control_init() takes: *)
(* no save can leave a board that halts in Error_Handler() on every start. *)
BootableRecords == \A s \in {"A", "B"} : slot[s].marker => slot[s].set \in Usable

(* The active set is the one the controller runs with                      *)
(* (drive_parameter_manager.h), whatever was applied, loaded or refused.   *)
ActiveIsApplied == pc \notin {"boot", "halted", "applyCopy"} => active = controller

(* Flash and controller are touched with the ADC trigger stopped           *)
(* (flash_parameter_storage.md, "Maintenance window").                     *)
MaintenanceIsQuiet ==
  pc \in {"applyCall", "applyCopy"} \cup SavePcs \cup ErasePcs => ~sampling

(* A request is served once nothing of a higher order is asked for and, if   *)
(* it needs the maintenance window, the drive stays READY.                  *)
RequestIsServed(k) ==
  <>[]((k \in Maintenance => safe) /\ requests \cap Before[k] = {})
    => []<>(k \notin requests \/ pc \in {"halted", "boot"})

(* So an apply, a save or an erase that was held back is served.            *)
HeldRequestsAreServed == \A k \in Maintenance : RequestIsServed(k)

-----------------------------------------------------------------------------
(* The inductive invariant.                                                *)

MarkedIsValid == \A s \in {"A", "B"} : slot[s].marker => slot[s].set \in Valid

(* The slots hold neighbouring generations, the manager's own among them.  *)
Neighbours ==
  /\ active_slot # "none" /\ slot[active_slot].marker =>
       slot[active_slot].generation = active_generation
  /\ active_slot # "none" /\ slot[Target].marker =>
       \/ slot[Target].generation = Next32(active_generation)
       \/ Next32(slot[Target].generation) = active_generation
  /\ active_slot = "none" =>
       ~slot["B"].marker /\ (slot["A"].marker =>
                               slot["A"].generation = Next32(active_generation))

(* What is known of the slots at each point of a save and an erase.        *)
Progress ==
  /\ pc \in SavePcs => active \in Valid
  /\ pc \in {"saveBody", "saveMarker"} => ~slot[Target].marker
  /\ pc = "saved" => /\ slot[Target].marker /\ slot[Target].set = active
                     /\ slot[Target].generation = Next32(active_generation)
  /\ pc \in {"eraseB", "erased"} => ~slot["A"].marker
  /\ pc = "erased" => ~slot["B"].marker

IInv == TypeOK /\ MarkedIsValid /\ Neighbours /\ Progress

(* The records stay neighbours, a start finds one the controller takes, the *)
(* active set is the one that runs, and a window has the ADC trigger off.   *)
Safety == IInv /\ BootableRecords /\ ActiveIsApplied /\ MaintenanceIsQuiet

=============================================================================
