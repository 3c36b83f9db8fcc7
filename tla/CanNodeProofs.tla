--------------------------- MODULE CanNodeProofs ----------------------------
(***************************************************************************)
(* What holds of CanNode for every length of the emergency queue.            *)
(***************************************************************************)
EXTENDS CanNode, TLAPS

Emergencies ==
  [errors : SUBSET (Stopping \cup {"overflow"}), queued : 0..EmergencySlots,
   lost : {"no", "lost", "told"}]

LossTold(e) ==
  /\ e.lost = "told" => "overflow" \in e.errors
  /\ e.lost = "no" => "overflow" \notin e.errors
  /\ e.lost = "lost" => e.queued > 0

(* Reports and resets of errors keep the emergency ring in its type.       *)
LEMMA ErrorFacts ==
  ASSUME NEW e \in Emergencies, NEW x \in Stopping \cup {"overflow"}
  PROVE  CO_errorReport(e, x) \in Emergencies /\ CO_errorReset(e, x) \in Emergencies
<1>1. ASSUME NEW s \in SUBSET (Stopping \cup {"overflow"})
      PROVE  CO_error(e, s) \in Emergencies
  BY NodeAssumption DEF CO_error, Emergencies
<1>2. e.errors \cup {x} \in SUBSET (Stopping \cup {"overflow"})
  BY DEF Emergencies
<1>3. e.errors \ {x} \in SUBSET (Stopping \cup {"overflow"})
  BY DEF Emergencies
<1> QED  BY <1>1, <1>2, <1>3 DEF CO_errorReport, CO_errorReset

(* Neither touches what is known of a loss, for overflow is not theirs.    *)
LEMMA ErrorKeepsLoss ==
  ASSUME NEW e \in Emergencies, NEW x \in Stopping, LossTold(e)
  PROVE  LossTold(CO_errorReport(e, x)) /\ LossTold(CO_errorReset(e, x))
<1>1. ASSUME NEW s \in SUBSET (Stopping \cup {"overflow"}), "overflow" \in s <=> "overflow" \in e.errors
      PROVE  LossTold(CO_error(e, s))
  BY <1>1, NodeAssumption DEF CO_error, LossTold, Emergencies
<1>2. x # "overflow"
  BY DEF Stopping
<1>3. /\ e.errors \cup {x} \in SUBSET (Stopping \cup {"overflow"})
      /\ e.errors \ {x} \in SUBSET (Stopping \cup {"overflow"})
      /\ "overflow" \in e.errors \cup {x} <=> "overflow" \in e.errors
      /\ "overflow" \in e.errors \ {x} <=> "overflow" \in e.errors
  BY <1>2 DEF Emergencies
<1> QED  BY <1>1, <1>3 DEF CO_errorReport, CO_errorReset

(* A sent emergency frees a slot, and tells a loss that is due.            *)
LEMMA SendFacts ==
  ASSUME NEW e \in Emergencies, e.queued > 0, LossTold(e)
  PROVE  SendEmergency(e) \in Emergencies /\ LossTold(SendEmergency(e))
<1> DEFINE Sent(l) == [errors |-> e.errors, queued |-> e.queued - 1, lost |-> l]
<1>1. ASSUME NEW l \in {"no", "lost", "told"}
      PROVE  /\ Sent(l) \in Emergencies /\ Sent(l).lost = l /\ Sent(l).errors = e.errors
             /\ Sent(l).queued = e.queued - 1 /\ Sent(l).queued < EmergencySlots
  BY NodeAssumption DEF Emergencies
<1>2. e.lost \in {"no", "lost", "told"} /\ e.queued \in Nat /\ EmergencySlots \in Nat
  BY NodeAssumption DEF Emergencies
<1> HIDE DEF Sent
<1>3. CASE e.lost = "lost"
  <2>1. SendEmergency(e) = CO_errorReport(Sent("told"), "overflow")
    BY <1>3 DEF SendEmergency, Sent
  <2>2. SendEmergency(e) \in Emergencies
    BY <2>1, <1>1, ErrorFacts
  <2>3. /\ SendEmergency(e).lost = "told"
        /\ "overflow" \in SendEmergency(e).errors
    BY <2>1, <1>1 DEF CO_errorReport, CO_error
  <2> QED  BY <2>2, <2>3 DEF LossTold
<1>4. CASE e.lost = "told" /\ e.queued = 1
  <2>1. SendEmergency(e) = CO_errorReset(Sent("no"), "overflow")
    BY <1>4 DEF SendEmergency, Sent
  <2>2. SendEmergency(e) \in Emergencies
    BY <2>1, <1>1, ErrorFacts
  <2>3. /\ SendEmergency(e).lost = "no"
        /\ "overflow" \notin SendEmergency(e).errors
    BY <2>1, <1>1 DEF CO_errorReset, CO_error
  <2> QED  BY <2>2, <2>3 DEF LossTold
<1>5. CASE e.lost # "lost" /\ ~(e.lost = "told" /\ e.queued = 1)
  <2>1. SendEmergency(e) = Sent(e.lost)
    BY <1>5 DEF SendEmergency, Sent
  <2> QED  BY <2>1, <1>1, <1>2, <1>5 DEF LossTold
<1> QED  BY <1>3, <1>4, <1>5

-----------------------------------------------------------------------------
(* Types, the command in the switch, and the losses of the queue, which keep *)
(* the type of the queue.                                                  *)

NodeTyped ==
  /\ NodeTypeOK /\ LossIsTold
  /\ pc \in {"clear", "clearReset"} => taken \in NmtStates

(* The ring as the lemmas above want it.                                   *)
LEMMA EmergencyTyped == NodeTyped => em \in Emergencies /\ LossTold(em)
  BY DEF NodeTyped, NodeTypeOK, Emergencies, LossIsTold, LossTold

(* Every step keeps the types and what is known of a loss.                 *)
LEMMA NodeTypedInductive == NodeTyped /\ [NodeNext]_nodeVars => NodeTyped'
<1> SUFFICES ASSUME NodeTyped, [NodeNext]_nodeVars
             PROVE  NodeTyped'
  OBVIOUS
<1>1. em \in Emergencies /\ LossTold(em)
  BY EmergencyTyped
<1>2. ASSUME em' \in Emergencies, LossTold(em')
      PROVE  LossIsTold' /\ em' \in [errors : SUBSET (Stopping \cup {"overflow"}),
                                     queued : 0..EmergencySlots, lost : {"no", "lost", "told"}]
  BY <1>2 DEF LossIsTold, LossTold, Emergencies
<1>3. CASE EmergencyProcess
  <2>1. PICK e \in {em, CO_errorReport(em, "busOff"), CO_errorReset(em, "busOff")} :
          /\ troubles' = IF "busOff" \in e.errors \ em.errors THEN troubles + 1 ELSE troubles
          /\ troubles' <= MaxTroubles
          /\ register' = e.errors \cap Stopping
          /\ em' \in {e} \cup (IF PreOrOperational /\ e.queued > 0 THEN {SendEmergency(e)} ELSE {})
    BY <1>3 DEF EmergencyProcess
  <2>2. e \in Emergencies /\ LossTold(e)
    BY <1>1, ErrorFacts, ErrorKeepsLoss DEF Stopping
  <2>3. em' \in Emergencies /\ LossTold(em')
    BY <2>1, <2>2, SendFacts
  <2>4. register' \in SUBSET Stopping /\ troubles' \in 0..MaxTroubles
    BY <2>1, NodeAssumption DEF NodeTyped, NodeTypeOK
  <2>5. pc' = "heartbeat" /\ UNCHANGED <<nmtVars, rpdoVars, serviceVars>>
    BY <1>3 DEF EmergencyProcess, At
  <2> QED
    BY <1>2, <2>3, <2>4, <2>5
    DEF NodeTyped, NodeTypeOK, Points, nmtVars, rpdoVars, serviceVars
<1>4. CASE WatchRpdo
  <2>1. em' \in Emergencies /\ LossTold(em')
    BY <1>1, <1>4, ErrorFacts, ErrorKeepsLoss DEF WatchRpdo, Stopping
  <2>2. pc' = "service" /\ UNCHANGED <<register, nmtVars, rpdoVars, serviceVars, troubles>>
    BY <1>4 DEF WatchRpdo, At
  <2> QED
    BY <1>2, <2>1, <2>2 DEF NodeTyped, NodeTypeOK, Points, nmtVars, rpdoVars, serviceVars
<1>5. CASE Service
  <2>1. em' = CO_errorReport(em, "generic") \/ em' = CO_errorReset(em, "generic")
    BY <1>5 DEF Service
  <2>2. em' \in Emergencies /\ LossTold(em')
    BY <1>1, <2>1, ErrorFacts, ErrorKeepsLoss DEF Stopping
  <2>3. /\ latched' \in SUBSET {"app", "rpdo"} /\ drive' \in {"FAULT", "OTHER"} /\ previous' \in Words
        /\ pc' = "emergency" /\ UNCHANGED <<register, nmtVars, rpdoVars, troubles>>
    BY <1>5 DEF Service, At, LatchRpdo, NextDrive, NodeTyped, NodeTypeOK, Words
  <2> QED
    BY <1>2, <2>2, <2>3 DEF NodeTyped, NodeTypeOK, Points, nmtVars, rpdoVars
<1> USE NodeAssumption
    DEF At, NodeTyped, NodeTypeOK, LossIsTold, Points, Words, Commands, NmtStates,
        nmtVars, rpdoVars, errorVars, serviceVars
<1>6. CASE Heartbeat
  BY <1>6 DEF Heartbeat
<1>7. CASE TakeCommand
  BY <1>7 DEF TakeCommand
<1>8. CASE ClearCommand
  BY <1>8 DEF ClearCommand, Enter
<1>9. CASE SdoWrite
  BY <1>9 DEF SdoWrite, WriteProducerTime
<1>10. CASE IdlePass
  BY <1>10 DEF IdlePass
<1>11. CASE BeginPass
  BY <1>11 DEF BeginPass
<1>12. CASE TakeFrame
  BY <1>12 DEF TakeFrame
<1>13. CASE CopyWord
  BY <1>13 DEF CopyWord
<1>14. CASE CopyTarget
  BY <1>14 DEF CopyTarget
<1>15. CASE EndPass
  BY <1>15 DEF EndPass
<1>16. ASSUME NEW c \in Requests, CO_NMT_receive(c)
      PROVE  NodeTyped'
  BY <1>16 DEF CO_NMT_receive
<1>17. ASSUME NEW w \in Words, CO_PDO_receive(w)
      PROVE  NodeTyped'
  BY <1>17 DEF CO_PDO_receive
<1>18. CASE AppFault
  BY <1>18 DEF AppFault
<1>19. CASE UNCHANGED nodeVars
  BY <1>19 DEF nodeVars
<1> HIDE DEF NodeTyped
<1> QED
  BY <1>3, <1>4, <1>5, <1>6, <1>7, <1>8, <1>9, <1>10, <1>11, <1>12,
     <1>13, <1>14, <1>15, <1>16, <1>17, <1>18, <1>19
  DEF NodeNext, NodeMain

(* They hold at the start.                                                 *)
LEMMA NodeTypedInit == NodeInit => NodeTyped
  BY NodeAssumption DEF NodeInit, NodeTyped, NodeTypeOK, LossIsTold, NmtStates, Words, Points

(* Every variable keeps its type: the emergency queue never holds more than  *)
(* it has room for.                                                        *)
THEOREM NodeTypeCorrect == NodeSpec => []NodeTypeOK
<1>2. NodeTyped => NodeTypeOK
  BY DEF NodeTyped
<1> QED  BY <1>2, NodeTypedInit, NodeTypedInductive, PTL DEF NodeSpec

(* A lost emergency is told by an error of its own, until the queue is empty. *)
THEOREM LossCorrect == NodeSpec => []LossIsTold
<1>2. NodeTyped => LossIsTold
  BY DEF NodeTyped
<1> QED  BY <1>2, NodeTypedInit, NodeTypedInductive, PTL DEF NodeSpec

-----------------------------------------------------------------------------
(* Frames.  Behind the field that is being copied the OD holds the newest    *)
(* frame, or the flag is set again; and the flag is old after a pass outside *)
(* OPERATIONAL.                                                            *)

FrameInv ==
  /\ flag = "old" /\ pc = "target" => od.word = rpdo
  /\ flag = "old" /\ pc = "check" /\ received = "frame" => od.word = rpdo /\ od.target = rpdo
  /\ flag = "new" => since = "live"
  /\ WholeFrame /\ OldFramesAreDropped

(* Every step keeps what is known of the half-done pass.                   *)
LEMMA FrameInductive == NodeTyped /\ FrameInv /\ [NodeNext]_nodeVars => FrameInv'
<1> SUFFICES ASSUME NodeTyped, FrameInv, [NodeNext]_nodeVars
             PROVE  FrameInv'
  OBVIOUS
<1> USE DEF FrameInv, WholeFrame, OldFramesAreDropped, At, NodeTyped, NodeTypeOK,
        nmtVars, rpdoVars, errorVars, serviceVars
<1>1. CASE EmergencyProcess
  BY <1>1 DEF EmergencyProcess
<1>2. CASE Heartbeat
  BY <1>2 DEF Heartbeat
<1>3. CASE TakeCommand
  BY <1>3 DEF TakeCommand
<1>4. CASE ClearCommand
  BY <1>4 DEF ClearCommand
<1>5. CASE SdoWrite
  BY <1>5 DEF SdoWrite, WriteProducerTime
<1>6. CASE IdlePass
  BY <1>6 DEF IdlePass
<1>7. CASE BeginPass
  BY <1>7 DEF BeginPass
<1>8. CASE TakeFrame
  BY <1>8 DEF TakeFrame
<1>9. CASE CopyWord
  BY <1>9 DEF CopyWord
<1>10. CASE CopyTarget
  BY <1>10 DEF CopyTarget
<1>11. CASE EndPass
  BY <1>11 DEF EndPass
<1>12. CASE WatchRpdo
  BY <1>12 DEF WatchRpdo
<1>13. CASE Service
  BY <1>13 DEF Service
<1>14. ASSUME NEW c \in Requests, CO_NMT_receive(c)
      PROVE  FrameInv'
  BY <1>14 DEF CO_NMT_receive
<1>15. ASSUME NEW w \in Words, CO_PDO_receive(w)
      PROVE  FrameInv'
  BY <1>15 DEF CO_PDO_receive
<1>16. CASE AppFault
  BY <1>16 DEF AppFault
<1>17. CASE UNCHANGED nodeVars
  BY <1>17 DEF nodeVars
<1> HIDE DEF FrameInv
<1> QED
  BY <1>1, <1>2, <1>3, <1>4, <1>5, <1>6, <1>7, <1>8, <1>9, <1>10, <1>11, <1>12,
     <1>13, <1>14, <1>15, <1>16, <1>17
  DEF NodeNext, NodeMain

(* It holds at the start.                                                  *)
LEMMA FrameInit == NodeInit => FrameInv
  BY DEF NodeInit, FrameInv, WholeFrame, OldFramesAreDropped

(* What a pass has copied is one whole frame, the newest one unless the flag *)
(* announces another.                                                      *)
THEOREM FramesAreWhole == NodeSpec => []WholeFrame
<1>1. FrameInv => WholeFrame
  BY DEF FrameInv
<1> QED  BY <1>1, FrameInit, FrameInductive, NodeTypedInit, NodeTypedInductive, PTL DEF NodeSpec

(* A frame that came before a pass outside OPERATIONAL is never copied.      *)
THEOREM OldFramesStayOut == NodeSpec => []OldFramesAreDropped
<1>1. FrameInv => OldFramesAreDropped
  BY DEF FrameInv
<1> QED  BY <1>1, FrameInit, FrameInductive, NodeTypedInit, NodeTypedInductive, PTL DEF NodeSpec

-----------------------------------------------------------------------------
(* The NMT state.                                                          *)

StopInv ==
  /\ pc \in {"sdo", "rpdo"} /\ nmt = "OPERATIONAL" => register = {}
  /\ ErrorsStopRpdos

(* Every step keeps what is known of the register on the way to a pass.    *)
LEMMA StopInductive == NodeTyped /\ StopInv /\ [NodeNext]_nodeVars => StopInv'
<1> SUFFICES ASSUME NodeTyped, StopInv, [NodeNext]_nodeVars
             PROVE  StopInv'
  OBVIOUS
<1> USE DEF StopInv, ErrorsStopRpdos, At, nmtVars, rpdoVars, errorVars, serviceVars
<1>1. CASE EmergencyProcess
  BY <1>1 DEF EmergencyProcess
<1>2. CASE Heartbeat
  BY <1>2 DEF Heartbeat
<1>3. CASE TakeCommand
  BY <1>3 DEF TakeCommand
<1>4. CASE ClearCommand
  BY <1>4 DEF ClearCommand, Enter
<1>5. CASE SdoWrite
  BY <1>5 DEF SdoWrite, WriteProducerTime
<1>6. CASE IdlePass
  BY <1>6 DEF IdlePass
<1>7. CASE BeginPass
  BY <1>7 DEF BeginPass
<1>8. CASE TakeFrame
  BY <1>8 DEF TakeFrame
<1>9. CASE CopyWord
  BY <1>9 DEF CopyWord
<1>10. CASE CopyTarget
  BY <1>10 DEF CopyTarget
<1>11. CASE EndPass
  BY <1>11 DEF EndPass
<1>12. CASE WatchRpdo
  BY <1>12 DEF WatchRpdo
<1>13. CASE Service
  BY <1>13 DEF Service
<1>14. ASSUME NEW c \in Requests, CO_NMT_receive(c)
      PROVE  StopInv'
  BY <1>14 DEF CO_NMT_receive
<1>15. ASSUME NEW w \in Words, CO_PDO_receive(w)
      PROVE  StopInv'
  BY <1>15 DEF CO_PDO_receive
<1>16. CASE AppFault
  BY <1>16 DEF AppFault
<1>17. CASE UNCHANGED nodeVars
  BY <1>17 DEF nodeVars
<1> HIDE DEF StopInv
<1> QED
  BY <1>1, <1>2, <1>3, <1>4, <1>5, <1>6, <1>7, <1>8, <1>9, <1>10, <1>11, <1>12,
     <1>13, <1>14, <1>15, <1>16, <1>17
  DEF NodeNext, NodeMain

(* An error in the register keeps every RPDO out of the object dictionary.   *)
THEOREM ErrorsStop == NodeSpec => []ErrorsStopRpdos
<1>1. NodeInit => StopInv
  BY DEF NodeInit, StopInv, ErrorsStopRpdos
<1>2. StopInv => ErrorsStopRpdos
  BY DEF StopInv
<1> QED  BY <1>1, <1>2, StopInductive, NodeTypedInit, NodeTypedInductive, PTL DEF NodeSpec

(* What reaches the object dictionary is one whole frame, received while the *)
(* node was operational and with the error register clear.                   *)
THEOREM RpdosSound == NodeSpec => []RpdosAreSound
<1>1. WholeFrame /\ OldFramesAreDropped /\ ErrorsStopRpdos => RpdosAreSound
  BY DEF RpdosAreSound
<1> QED  BY <1>1, FramesAreWhole, OldFramesStayOut, ErrorsStop, PTL

(* The whole of the node's safety: types, the emergency ring, the RPDOs.     *)
THEOREM NodeIsSafe == NodeSpec => []NodeSafety
<1>1. NodeTypeOK /\ LossIsTold /\ RpdosAreSound => NodeSafety
  BY DEF NodeSafety
<1> QED  BY <1>1, NodeTypeCorrect, LossCorrect, RpdosSound, PTL

Told == told = nmt \/ (told = "INITIALIZING" /\ nmt = "PRE_OPERATIONAL")

(* With a producer time a state that was there at the last heartbeat has     *)
(* been told, unless the time is new; between the heartbeat and the end of    *)
(* the switch that is the state of the node.                                *)
ToldInv ==
  /\ producer = "on" /\ nmt = prev => Told
  /\ pc \in {"take", "clear", "clearReset"} =>
       (producer # "off" => Told) /\ prev = IF nmt = "INITIALIZING" THEN "PRE_OPERATIONAL" ELSE nmt
  /\ pc \in {"clear", "clearReset"} => taken \in {"PRE_OPERATIONAL", "OPERATIONAL", "STOPPED", prev}

(* Every step keeps what has been told.                                    *)
LEMMA ToldInductive == NodeTyped /\ ToldInv /\ [NodeNext]_nodeVars => ToldInv'
<1> SUFFICES ASSUME NodeTyped, ToldInv, [NodeNext]_nodeVars
             PROVE  ToldInv'
  OBVIOUS
<1> USE DEF ToldInv, Told, At, NmtStates, Commands, nmtVars, rpdoVars, errorVars, serviceVars
<1>1. CASE EmergencyProcess
  BY <1>1 DEF EmergencyProcess
<1>2. CASE Heartbeat
  BY <1>2 DEF Heartbeat
<1>3. CASE TakeCommand
  BY <1>3 DEF TakeCommand, NodeTyped, NodeTypeOK
<1>4. CASE ClearCommand
  BY <1>4 DEF ClearCommand, Enter
<1>5. CASE SdoWrite
  BY <1>5 DEF SdoWrite, WriteProducerTime
<1>6. CASE IdlePass
  BY <1>6 DEF IdlePass
<1>7. CASE BeginPass
  BY <1>7 DEF BeginPass
<1>8. CASE TakeFrame
  BY <1>8 DEF TakeFrame
<1>9. CASE CopyWord
  BY <1>9 DEF CopyWord
<1>10. CASE CopyTarget
  BY <1>10 DEF CopyTarget
<1>11. CASE EndPass
  BY <1>11 DEF EndPass
<1>12. CASE WatchRpdo
  BY <1>12 DEF WatchRpdo
<1>13. CASE Service
  BY <1>13 DEF Service
<1>14. ASSUME NEW c \in Requests, CO_NMT_receive(c)
      PROVE  ToldInv'
  BY <1>14 DEF CO_NMT_receive
<1>15. ASSUME NEW w \in Words, CO_PDO_receive(w)
      PROVE  ToldInv'
  BY <1>15 DEF CO_PDO_receive
<1>16. CASE AppFault
  BY <1>16 DEF AppFault
<1>17. CASE UNCHANGED nodeVars
  BY <1>17 DEF nodeVars
<1> HIDE DEF ToldInv
<1> QED
  BY <1>1, <1>2, <1>3, <1>4, <1>5, <1>6, <1>7, <1>8, <1>9, <1>10, <1>11, <1>12,
     <1>13, <1>14, <1>15, <1>16, <1>17
  DEF NodeNext, NodeMain

(* With a producer time main leaves an NMT state only after a heartbeat has   *)
(* told it, however often the time was taken away and given back.            *)
THEOREM EveryStateTold == NodeSpec => StatesAreTold
<1>1. NodeInit => ToldInv
  BY DEF NodeInit, ToldInv, Told
<1>2. ToldInv /\ [NodeNext]_nodeVars => [WasTold]_nodeVars
  <2> SUFFICES ASSUME ToldInv, [NodeNext]_nodeVars, nmt' # nmt, producer # "off"
               PROVE  Told
    BY DEF WasTold, Told
  <2>1. ClearCommand
    BY DEF NodeNext, NodeMain, EmergencyProcess, Heartbeat, TakeCommand, SdoWrite, IdlePass,
       BeginPass, TakeFrame, CopyWord, CopyTarget, EndPass, WatchRpdo, Service, AppFault,
       CO_NMT_receive, CO_PDO_receive, nodeVars, nmtVars
  <2> QED  BY <2>1 DEF ClearCommand, At, ToldInv
<1> QED
  BY <1>1, <1>2, ToldInductive, NodeTypedInit, NodeTypedInductive, PTL DEF NodeSpec, StatesAreTold

=============================================================================
