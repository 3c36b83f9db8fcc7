---------------------------- MODULE CanTransmit -----------------------------
(***************************************************************************)
(* The way of a frame from the CANopen stack to the bus.  The adapter        *)
(* (Core/Platform/canopen_fdcan_adapter.c) gives CANopenNode one buffer per  *)
(* kind of message; a frame goes into the transmit FIFO of the FDCAN at      *)
(* once, or its buffer stays marked as full until a later call of            *)
(* CO_CANmodule_process() flushes it.  There is no transmit interrupt: the   *)
(* bus empties the FIFO on its own, between any two steps of main.           *)
(*                                                                         *)
(* Abstractions: the data of a frame is the number of the version it tells   *)
(* (which emergency, which answer, which status, which NMT state); the       *)
(* driver is started before the first frame and its FIFO retransmits, so a   *)
(* frame is refused only when the FIFO is full.                              *)
(***************************************************************************)
EXTENDS Integers, Sequences, FiniteSets

CONSTANTS
  FifoSize,  \* elements of the transmit FIFO
  MaxVersion \* bound: no kind of message tells more versions than this

ASSUME TransmitAssumption == FifoSize \in Nat \ {0} /\ MaxVersion \in Nat

(* txArray in the order of CANopen.c's indices.                            *)
EMCY == 1
TPDO == 2
SDO == 3
HEARTBEAT == 4
Buffers == 1..4

(* Emergencies and answers look at bufferFull before they write the data.   *)
Guarded == {EMCY, SDO}

VARIABLES
  full,  \* the buffers with bufferFull set
  count, \* CANtxCount
  data,  \* the data in each buffer
  fifo,  \* the transmit FIFO
  shown, \* the last data of each buffer that went over the bus
  turn,  \* where main stands in a turn of canopen_service_process()
  at     \* the index of the flush

txVars == <<full, count, data, fifo, shown, turn, at>>

Frames == [buffer : Buffers, data : Nat]
Turns == {"flush", "emergency", "heartbeat", "answer", "pdo"}

(* Every variable keeps its type.                                          *)
TxTypeOK ==
  /\ full \in SUBSET Buffers /\ count \in Int
  /\ data \in [Buffers -> Nat] /\ shown \in [Buffers -> Nat]
  /\ fifo \in Seq(Frames) /\ Len(fifo) <= FifoSize
  /\ turn \in Turns /\ at \in Buffers

TxInit ==
  /\ full = {} /\ count = 0
  /\ data = [b \in Buffers |-> 0] /\ shown = [b \in Buffers |-> 0]
  /\ fifo = <<>>
  /\ turn = "flush" /\ at = 1

HasRoom == Len(fifo) < FifoSize

Frame(b) == [buffer |-> b, data |-> data[b]]

-----------------------------------------------------------------------------
(* CO_CANmodule_process(): the backlog, lowest index first.                 *)

(* The flush looks at the next buffer, or has looked at all of them.        *)
NextBuffer ==
  IF at = HEARTBEAT THEN turn' = "emergency" /\ at' = 1
                    ELSE turn' = "flush" /\ at' = at + 1

FlushNothing ==
  /\ turn = "flush" /\ at = 1 /\ count = 0
  /\ turn' = "emergency"
  /\ UNCHANGED <<full, count, data, fifo, shown, at>>

FlushSkip ==
  /\ turn = "flush" /\ (at = 1 => count # 0) /\ at \notin full
  /\ NextBuffer
  /\ UNCHANGED <<full, count, data, fifo, shown>>

FlushSend ==
  /\ turn = "flush" /\ (at = 1 => count # 0) /\ at \in full /\ HasRoom
  /\ fifo' = Append(fifo, Frame(at))
  /\ full' = full \ {at} /\ count' = count - 1
  /\ NextBuffer
  /\ UNCHANGED <<data, shown>>

(* Mutant: the flush waits for room in the FIFO.                            *)
FlushRefusedWaits ==
  /\ turn = "flush" /\ (at = 1 => count # 0) /\ at \in full /\ ~HasRoom
  /\ UNCHANGED txVars

FlushRefused ==
  /\ turn = "flush" /\ (at = 1 => count # 0) /\ at \in full /\ ~HasRoom
  /\ turn' = "emergency" /\ at' = 1
  /\ UNCHANGED <<full, count, data, fifo, shown>>

Flush == FlushNothing \/ FlushSkip \/ FlushSend \/ FlushRefused

-----------------------------------------------------------------------------
(* The senders.                                                            *)

(* Mutant: a waiting buffer is marked but not counted.                      *)
WaitUncounted(b) == full' = full \cup {b} /\ count' = count

Wait(b) ==
  /\ full' = full \cup {b}
  /\ count' = IF b \in full THEN count ELSE count + 1

(* Mutant: new data goes past a buffer that waits with its old data.        *)
CO_CANsendPastWaiting(b, version) ==
  \/ /\ HasRoom /\ fifo' = Append(fifo, [buffer |-> b, data |-> version])
     /\ data' = IF b \in full THEN data ELSE [data EXCEPT ![b] = version]
     /\ UNCHANGED <<full, count>>
  \/ /\ ~HasRoom /\ data' = [data EXCEPT ![b] = version] /\ Wait(b) /\ UNCHANGED fifo

(* The caller has written the data into the buffer.  A buffer that waits is *)
(* tried as well, and when the FIFO takes it, it stays marked.              *)
CO_CANsend(b, version) ==
  /\ data' = [data EXCEPT ![b] = version]
  /\ \/ HasRoom /\ fifo' = Append(fifo, [buffer |-> b, data |-> version]) /\ UNCHANGED <<full, count>>
     \/ ~HasRoom /\ Wait(b) /\ UNCHANGED fifo

(* Mutant: bufferFull is not looked at.                                    *)
MaySendUnguarded(b) == TRUE

MaySend(b) == b \in Guarded => b \notin full

(* An emergency and an answer are told once; a heartbeat and a TPDO are     *)
(* sent by their timers, whether there is something new or not.             *)
Versions(b) ==
  {v \in {data[b], data[b] + 1} : v \in 1..MaxVersion /\ (b \in Guarded => v # data[b])}

Sends(b, here, there) ==
  /\ turn = here /\ turn' = there
  /\ \/ MaySend(b) /\ (\E v \in Versions(b) : CO_CANsend(b, v))
     \/ UNCHANGED <<full, count, data, fifo>>
  /\ UNCHANGED <<shown, at>>

CO_EM_process == Sends(EMCY, "emergency", "heartbeat")
CO_NMT_process == Sends(HEARTBEAT, "heartbeat", "answer")
CO_SDOserver_process == Sends(SDO, "answer", "pdo")
CO_TPDO_process == Sends(TPDO, "pdo", "flush")

-----------------------------------------------------------------------------
(* The bus takes the oldest frame.                                         *)
Transmit ==
  /\ fifo # <<>>
  /\ shown' = [shown EXCEPT ![Head(fifo).buffer] = Head(fifo).data]
  /\ fifo' = Tail(fifo)
  /\ UNCHANGED <<full, count, data, turn, at>>

TxMain == Flush \/ CO_EM_process \/ CO_NMT_process \/ CO_SDOserver_process \/ CO_TPDO_process

TxNext == TxMain \/ Transmit

TxSpec == TxInit /\ [][TxNext]_txVars

TxFairSpec == TxSpec /\ WF_txVars(TxMain)

(* ... and there is always a step for main: no full FIFO holds it up.        *)
TxGoesOn == ENABLED <<TxMain>>_txVars

-----------------------------------------------------------------------------
(* Properties.                                                             *)

(* CANtxCount is the number of buffers that wait, or the flush would return *)
(* early and leave a frame behind.                                         *)
CountIsFull == count = Cardinality(full)

Waiting(b) == IF b \in full THEN 1 ELSE 0

InFifo(b) == {fifo[i].data : i \in {j \in DOMAIN fifo : fifo[j].buffer = b}}

(* What lies between the bus and the stack, of the emergencies and of the   *)
(* answers: each exactly once, in order, none left out and none overwritten.*)
EachOnce ==
  \A b \in Guarded :
    /\ InFifo(b) = (shown[b] + 1) .. (data[b] - Waiting(b))
    /\ \A i, j \in DOMAIN fifo :
         i < j /\ fifo[i].buffer = b /\ fifo[j].buffer = b => fifo[i].data < fifo[j].data

(* canopen_fdcan_adapter_flush_pending() takes the lowest index first: it has *)
(* passed no buffer that waits, whatever room the bus frees meanwhile.       *)
FlushPassesNone ==
  /\ turn # "flush" => at = 1
  /\ \A a \in full : a >= at

(* The backlog counts right, holds the FIFO in its size, goes out from its   *)
(* lowest index, and neither loses, repeats nor reorders an emergency or an  *)
(* answer, whatever the bus frees.                                         *)
TxSafety == TxTypeOK /\ CountIsFull /\ FlushPassesNone /\ EachOnce

NeverGoesBack == \A b \in Buffers : shown'[b] >= shown[b]

(* No kind of message goes back to an older version on the bus, though a     *)
(* heartbeat or a TPDO overwrites one that waits and overtakes it, and what  *)
(* has overtaken goes out again with the flush (CO_CANsend).                *)
BusOrder == [][NeverGoesBack]_txVars

LowestIsFlushed == \A b \in full \ full' : \A a \in full : a >= b

(* So no buffer is flushed while one of a lower index waits.  This is about  *)
(* the flush alone: CO_CANsend() may still put a frame past the backlog,     *)
(* against CO_driver.h:245-246.                                             *)
FlushOrder == [][LowestIsFlushed]_txVars

(* The bus empties the FIFO before a flush begins, again and again.         *)
BusKeepsUp == []<>(turn = "flush" /\ at = 1 /\ fifo = <<>>)

(* On such a bus the latest of every kind arrives (a run has a last version  *)
(* of each, because of MaxVersion; the senders may repeat it for ever).      *)
LatestArrives == BusKeepsUp => (shown # data ~> shown = data)

=============================================================================
