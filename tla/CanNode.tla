------------------------------ MODULE CanNode -------------------------------
(***************************************************************************)
(* The CANopen node as canopen_service_process() drives it once a turn:      *)
(* the FDCAN interrupt leaves NMT commands and RPDOs in the stack's          *)
(* variables at any moment, main takes them from there; the service latches  *)
(* and reports faults, the error register follows the reports, the NMT       *)
(* state follows the register, and the RPDOs follow the NMT state.           *)
(*                                                                         *)
(* Abstractions: a frame is one word, which the OD takes in two fields, the   *)
(* control word and the target; the App's faults are one, which a reset edge *)
(* may release (Cia402.tla has the state machine in full); the timers of     *)
(* heartbeat, RPDO and SDO may expire in any turn, and of the heartbeat's it *)
(* is known that a write of object 0x1017 ends it; the bus reports the       *)
(* bus-off and no other error; the address and the length of a frame are     *)
(* right.                                                                  *)
(***************************************************************************)
EXTENDS Integers

CONSTANTS
  EmergencySlots, \* emergencies the queue of CO_Emergency.c holds
  MaxTroubles,    \* bound: App faults, RPDO timeouts and bus-offs of a run
  Requests        \* bound: the NMT commands the master sends

Commands == {"PRE_OPERATIONAL", "OPERATIONAL", "STOPPED", "RESET"}

ASSUME NodeAssumption ==
  EmergencySlots \in Nat \ {0} /\ MaxTroubles \in Nat /\ Requests \subseteq Commands

VARIABLES
  nmt,      \* operatingState
  prev,     \* operatingStatePrev
  command,  \* internalCommand
  taken,    \* NMTstateCpy between the switch and the error register
  told,     \* the state the last heartbeat tells
  producer, \* HBproducerTime_us: "off" if 0; "due" if HBproducerTimer is known to be 0
  rpdo,     \* the frame in CANrxData
  flag,     \* CANrxNew
  od,       \* controlword and target in OD_RAM
  received, \* rpdoReceived of the pass under way
  watch,    \* timeoutTimer of the RPDO: "off", "on", "late"
  em,       \* errorStatusBits that are set, emergencies queued, fifoOverflow
  register, \* the errors that errorRegister tells
  latched,  \* faults latched by the App and by the RPDO watch of the service
  drive,    \* drive_state: "FAULT" or another one
  previous, \* the reset bit of previous_controlword
  pc,       \* where main stands in canopen_service_process()
  since,    \* history: "idle" once a pass outside OPERATIONAL came after the RPDO
  troubles  \* faults and timeouts so far

nmtVars     == <<nmt, prev, command, taken, told, producer>>
rpdoVars    == <<rpdo, flag, od, received, watch, since>>
errorVars   == <<em, register>>
serviceVars == <<latched, drive, previous>>
nodeVars == <<nmtVars, rpdoVars, errorVars, serviceVars, pc, troubles>>

NmtStates == {"INITIALIZING", "PRE_OPERATIONAL", "OPERATIONAL", "STOPPED"}
Words == {"reset", "plain"}
(* The errors of the classes in NMT_CONTROL.                                *)
Stopping == {"generic", "timeout", "busOff"}
Points == {"emergency", "heartbeat", "take", "clear", "clearReset", "sdo", "sdoReset",
           "rpdo", "check", "word", "target", "watch", "service"}

(* Every variable keeps its type.                                          *)
NodeTypeOK ==
  /\ nmt \in NmtStates /\ prev \in NmtStates /\ told \in NmtStates
  /\ producer \in {"off", "due", "on"}
  /\ command \in Commands \cup {"NONE"} /\ taken \in NmtStates \cup {"NONE"}
  /\ rpdo \in Words /\ od \in [word : Words, target : Words]
  /\ flag \in {"old", "new"} /\ received \in {"nothing", "frame"}
  /\ watch \in {"off", "on", "late"} /\ since \in {"live", "idle"}
  /\ em \in [errors : SUBSET (Stopping \cup {"overflow"}), queued : 0..EmergencySlots,
             lost : {"no", "lost", "told"}]
  /\ register \in SUBSET Stopping
  /\ latched \in SUBSET {"app", "rpdo"} /\ drive \in {"FAULT", "OTHER"}
  /\ previous \in Words
  /\ pc \in Points /\ troubles \in 0..MaxTroubles

NodeInit ==
  /\ nmt = "INITIALIZING" /\ prev = "INITIALIZING" /\ command = "NONE"
  /\ taken = "NONE" /\ told = "INITIALIZING" /\ producer = "on"
  /\ rpdo = "plain" /\ od = [word |-> rpdo, target |-> rpdo]
  /\ flag = "old" /\ received = "nothing" /\ watch = "off" /\ since = "idle"
  /\ em = [errors |-> {}, queued |-> 0, lost |-> "no"] /\ register = {}
  /\ latched = {} /\ drive = "OTHER" /\ previous = "plain"
  /\ pc = "emergency" /\ troubles = 0

At(here, there) == pc = here /\ pc' = there

PreOrOperational == nmt \in {"PRE_OPERATIONAL", "OPERATIONAL"}

(* CO_error(): a change is one emergency more, or one that is lost.         *)
CO_error(e, errors) ==
  [errors |-> errors,
   queued |-> IF e.queued < EmergencySlots THEN e.queued + 1 ELSE e.queued,
   lost |-> IF e.queued < EmergencySlots THEN e.lost ELSE "lost"]

CO_errorReport(e, error) ==
  IF error \in e.errors THEN e ELSE CO_error(e, e.errors \cup {error})

CO_errorReset(e, error) ==
  IF error \in e.errors THEN CO_error(e, e.errors \ {error}) ELSE e

-----------------------------------------------------------------------------
(* The FDCAN interrupt, at any moment.                                      *)

CO_NMT_receive(c) ==
  /\ command' = c
  /\ UNCHANGED <<nmt, prev, taken, told, producer, rpdoVars, errorVars, serviceVars, pc, troubles>>

CO_PDO_receive(w) ==
  /\ rpdo' = w /\ flag' = "new" /\ since' = "live"
  /\ UNCHANGED <<od, received, watch, nmtVars, errorVars, serviceVars, pc, troubles>>

(* The ADC interrupt latches a fault.                                      *)
AppFault ==
  /\ troubles < MaxTroubles /\ troubles' = troubles + 1
  /\ latched' = latched \cup {"app"}
  /\ UNCHANGED <<drive, previous, nmtVars, rpdoVars, errorVars, pc>>

-----------------------------------------------------------------------------
(* CO_process().                                                           *)

(* One emergency goes out; that some were lost is an error of its own, which *)
(* ends with the queue.                                                    *)
SendEmergency(e) ==
  LET Sent(lost) == [errors |-> e.errors, queued |-> e.queued - 1, lost |-> lost]
  IN IF e.lost = "lost" THEN CO_errorReport(Sent("told"), "overflow")
     ELSE IF e.lost = "told" /\ e.queued = 1 THEN CO_errorReset(Sent("no"), "overflow")
     ELSE Sent(e.lost)

(* The bus-off of the driver first, then the register, then an emergency,   *)
(* if its buffer is free.                                                  *)
EmergencyProcess ==
  /\ At("emergency", "heartbeat")
  /\ \E e \in {em, CO_errorReport(em, "busOff"), CO_errorReset(em, "busOff")} :
       /\ troubles' = IF "busOff" \in e.errors \ em.errors THEN troubles + 1 ELSE troubles
       /\ troubles' <= MaxTroubles
       /\ register' = e.errors \cap Stopping
       /\ em' \in {e} \cup (IF PreOrOperational /\ e.queued > 0 THEN {SendEmergency(e)} ELSE {})
  /\ UNCHANGED <<nmtVars, rpdoVars, serviceVars>>

(* The boot-up message in any case; with a producer time, a heartbeat by the *)
(* timer or of a state the last turn did not have.                          *)
Heartbeat ==
  /\ At("heartbeat", "take")
  /\ \/ nmt = "INITIALIZING" /\ told' = nmt /\ UNCHANGED producer
     \/ nmt # "INITIALIZING" /\ producer # "off" /\ told' = nmt /\ producer' = "on"
     \/ /\ nmt # "INITIALIZING" /\ (producer # "off" => producer = "on" /\ nmt = prev)
        /\ UNCHANGED <<told, producer>>
  /\ prev' = IF nmt = "INITIALIZING" THEN "PRE_OPERATIONAL" ELSE nmt
  /\ UNCHANGED <<nmt, command, taken, rpdoVars, errorVars, serviceVars, troubles>>

(* The switch reads the command...                                         *)
TakeCommand ==
  /\ At("take", IF command = "RESET" THEN "clearReset" ELSE "clear")
  /\ taken' = IF command \in NmtStates THEN command ELSE prev
  /\ UNCHANGED <<nmt, prev, command, told, producer, rpdoVars, errorVars, serviceVars, troubles>>

(* NMT_CONTROL: an error in the register ends OPERATIONAL.                  *)
Enter(state) ==
  IF state = "OPERATIONAL" /\ register # {} THEN "PRE_OPERATIONAL" ELSE state

(* ... and the command is cleared a few instructions later, with whatever   *)
(* has come since.                                                         *)
ClearCommand ==
  /\ \/ At("clear", "sdo")
     \/ At("clearReset", "sdoReset")
  /\ command' = "NONE" /\ nmt' = Enter(taken) /\ taken' = "NONE"
  /\ UNCHANGED <<prev, told, producer, rpdoVars, errorVars, serviceVars, troubles>>

(* Mutant: the timer runs on, and the heartbeat waits for it.               *)
WriteProducerTimeOnly == producer' \in {"off", "on"} /\ UNCHANGED od

(* OD_write_1017(): a new producer time, and a heartbeat at once.           *)
WriteProducerTime == producer' \in {"off", "due"} /\ UNCHANGED od

(* The SDO server may write the control word or the producer time.  A reset  *)
(* request ends the turn here.                                             *)
SdoWrite ==
  /\ \/ At("sdo", "rpdo")
     \/ At("sdoReset", "emergency")
  /\ \/ UNCHANGED <<od, producer>>
     \/ /\ PreOrOperational /\ UNCHANGED producer
        /\ \E w \in Words : od' = [od EXCEPT !.word = w]
     \/ PreOrOperational /\ WriteProducerTime
  /\ UNCHANGED <<rpdo, flag, received, watch, since, nmt, prev, command, taken, told,
                 errorVars, serviceVars, troubles>>

-----------------------------------------------------------------------------
(* CO_process_RPDO().                                                      *)

IdlePass ==
  /\ At("rpdo", "watch") /\ nmt # "OPERATIONAL"
  /\ flag' = "old" /\ watch' = "off" /\ received' = "nothing" /\ since' = "idle"
  /\ UNCHANGED <<rpdo, od, nmtVars, errorVars, serviceVars, troubles>>

BeginPass ==
  /\ At("rpdo", "check") /\ nmt = "OPERATIONAL"
  /\ received' = "nothing"
  /\ UNCHANGED <<rpdo, flag, od, watch, since, nmtVars, errorVars, serviceVars, troubles>>

TakeFrame ==
  /\ At("check", "word") /\ flag = "new"
  /\ flag' = "old" /\ received' = "frame"
  /\ UNCHANGED <<rpdo, od, watch, since, nmtVars, errorVars, serviceVars, troubles>>

CopyWord ==
  /\ At("word", "target")
  /\ od' = [od EXCEPT !.word = rpdo]
  /\ UNCHANGED <<rpdo, flag, received, watch, since, nmtVars, errorVars, serviceVars, troubles>>

(* Mutant: no second look at the flag.                                     *)
CopyTargetOnce ==
  /\ At("target", "watch")
  /\ od' = [od EXCEPT !.target = rpdo]
  /\ UNCHANGED <<rpdo, flag, received, watch, since, nmtVars, errorVars, serviceVars, troubles>>

CopyTarget ==
  /\ At("target", "check")
  /\ od' = [od EXCEPT !.target = rpdo]
  /\ UNCHANGED <<rpdo, flag, received, watch, since, nmtVars, errorVars, serviceVars, troubles>>

EndPass ==
  /\ At("check", "watch") /\ flag = "old"
  /\ \/ received = "frame" /\ watch' = "on" /\ UNCHANGED troubles
     \/ received = "nothing" /\ UNCHANGED <<watch, troubles>>
     \/ /\ received = "nothing" /\ watch = "on" /\ troubles < MaxTroubles
        /\ watch' = "late" /\ troubles' = troubles + 1
  /\ UNCHANGED <<rpdo, flag, od, received, since, nmtVars, errorVars, serviceVars>>

(* The timeout is an error as long as it lasts.                             *)
WatchRpdo ==
  /\ At("watch", "service")
  /\ em' = IF watch = "late" THEN CO_errorReport(em, "timeout") ELSE CO_errorReset(em, "timeout")
  /\ UNCHANGED <<register, nmtVars, rpdoVars, serviceVars, troubles>>

-----------------------------------------------------------------------------
(* The service: update_rpdo_timeout(), update_drive_state() and             *)
(* update_emergency().                                                     *)

ResetEdge == od.word = "reset" /\ previous # "reset"

LatchRpdo ==
  IF "timeout" \in em.errors THEN latched \cup {"rpdo"}
  ELSE IF ResetEdge THEN latched \ {"rpdo"} ELSE latched

(* A reset edge asks for the clear, which the interrupt may refuse.  With   *)
(* no fault left, FAULT ends when the App is READY or recovers; in          *)
(* OPERATIONAL a command the App rejects leads to FAULT.                    *)
NextDrive ==
  IF LatchRpdo # {} THEN {"FAULT"}
  ELSE IF nmt = "OPERATIONAL" \/ drive = "FAULT" THEN {"FAULT", "OTHER"} ELSE {"OTHER"}

(* The emergency is open while there is a fault; a timeout that comes before *)
(* the others in fault_error_code() withdraws it.                          *)
Service ==
  /\ At("service", "emergency")
  /\ latched' \in {LatchRpdo, IF ResetEdge THEN LatchRpdo \ {"app"} ELSE LatchRpdo}
  /\ drive' \in NextDrive
  /\ previous' = od.word
  /\ em' \in
       (IF latched' # {"rpdo"} /\ (latched' # {} \/ drive' = "FAULT")
        THEN {CO_errorReport(em, "generic")} ELSE {})
       \cup (IF "rpdo" \in latched' \/ (latched' = {} /\ drive' # "FAULT")
             THEN {CO_errorReset(em, "generic")} ELSE {})
  /\ UNCHANGED <<register, nmtVars, rpdoVars, troubles>>

NodeMain ==
  \/ EmergencyProcess \/ Heartbeat \/ TakeCommand \/ ClearCommand \/ SdoWrite
  \/ IdlePass \/ BeginPass \/ TakeFrame \/ CopyWord \/ CopyTarget \/ EndPass \/ WatchRpdo
  \/ Service

NodeNext ==
  \/ NodeMain
  \/ \E c \in Requests : CO_NMT_receive(c)
  \/ \E w \in Words : CO_PDO_receive(w)
  \/ AppFault

NodeSpec == NodeInit /\ [][NodeNext]_nodeVars

-----------------------------------------------------------------------------
(* Properties.                                                             *)

(* What a pass has copied is one frame, whole, although the interrupt may   *)
(* write a new one between two fields; and it is the newest, or the flag    *)
(* says that a newer one waits.                                            *)
WholeFrame ==
  pc \in {"watch", "service"} /\ received = "frame" =>
    /\ od.word = od.target
    /\ flag = "old" => od.word = rpdo

(* A frame that came before a pass outside OPERATIONAL is never copied      *)
(* later: an old control word cannot enable the drive after a new start.    *)
OldFramesAreDropped == pc \in {"word", "target"} => since = "live"

(* canopen_service.c:21-23: an error stops the RPDOs from the next turn on.  *)
ErrorsStopRpdos == pc \in {"check", "word", "target"} => register = {}

(* So the drive acts on whole frames, of this start, in a node without errors. *)
RpdosAreSound == WholeFrame /\ OldFramesAreDropped /\ ErrorsStopRpdos

(* While an emergency has been lost, the error that says so is set, or will  *)
(* be with the next emergency; it ends when the queue is empty.             *)
LossIsTold ==
  /\ em.lost = "told" => "overflow" \in em.errors
  /\ em.lost = "no" => "overflow" \notin em.errors
  /\ em.lost = "lost" => em.queued > 0

(* The emergency ring keeps within its slots, what it drops is told, and     *)
(* the RPDOs are sound.                                                    *)
NodeSafety == NodeTypeOK /\ LossIsTold /\ RpdosAreSound

WasTold ==
  nmt' # nmt /\ producer # "off" =>
    told = nmt \/ (told = "INITIALIZING" /\ nmt = "PRE_OPERATIONAL")

(* No NMT state is passed through untold: with a heartbeat producer time,    *)
(* main leaves a state only after a heartbeat has told it (the boot-up      *)
(* message tells PRE_OPERATIONAL).  That holds of the state in which a      *)
(* master switches the producer on again, whatever went untold before.      *)
StatesAreTold == [][WasTold]_nodeVars

=============================================================================
