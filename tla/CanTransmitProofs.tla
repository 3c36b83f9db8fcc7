------------------------- MODULE CanTransmitProofs --------------------------
(***************************************************************************)
(* What holds of CanTransmit for every size of the FIFO.                     *)
(***************************************************************************)
EXTENDS CanTransmit, Descent, FiniteSetTheorems, TLAPS

(* What a frame that is put into the FIFO leaves as it was.                *)
LEMMA AppendFacts ==
  ASSUME NEW S, NEW s \in Seq(S), NEW e \in S
  PROVE  /\ Append(s, e) \in Seq(S)
         /\ Len(Append(s, e)) = Len(s) + 1
         /\ \A i \in 1..Len(s) : Append(s, e)[i] = s[i]
         /\ Append(s, e)[Len(s) + 1] = e
  OBVIOUS

(* What remains in the FIFO when its first frame is taken.                 *)
LEMMA TailFacts ==
  ASSUME NEW S, NEW s \in Seq(S), s # <<>>
  PROVE  /\ Len(s) \in Nat \ {0}
         /\ Tail(s) \in Seq(S)
         /\ Len(Tail(s)) = Len(s) - 1
         /\ \A i \in 1..(Len(s) - 1) : Tail(s)[i] = s[i + 1]
         /\ Head(s) = s[1] /\ s[1] \in S
  OBVIOUS

-----------------------------------------------------------------------------
(* Types.  The actions are taken in three kinds: those that change nothing   *)
(* but the control of main, those that append to the FIFO, those that wait.  *)

(* A message keeps its version or takes the next one; a guarded one always *)
(* takes it.                                                               *)
LEMMA VersionFacts ==
  ASSUME NEW b \in Buffers, data \in [Buffers -> Nat], NEW v \in Versions(b)
  PROVE  v \in Nat /\ v >= data[b] /\ v <= data[b] + 1 /\ (b \in Guarded => v = data[b] + 1)
  BY TransmitAssumption DEF Versions, Guarded

(* A frame that is put in where there is room fits.                        *)
LEMMA RoomFacts ==
  ASSUME TxTypeOK, HasRoom
  PROVE  Len(fifo) + 1 <= FifoSize
  BY TransmitAssumption DEF TxTypeOK, HasRoom

(* Every variable keeps its type, and the FIFO of the FDCAN is never written *)
(* when it is full.                                                        *)
THEOREM TxTypeCorrect == TxSpec => []TxTypeOK
<1>1. TxInit => TxTypeOK
  BY TransmitAssumption DEF TxInit, TxTypeOK, Buffers, Turns
<1>2. TxTypeOK /\ [TxNext]_txVars => TxTypeOK'
  <2> SUFFICES ASSUME TxTypeOK, [TxNext]_txVars
               PROVE  TxTypeOK'
    OBVIOUS
  <2>1. CASE Flush
    <3>1. NextBuffer => turn' \in Turns /\ at' \in Buffers
      BY DEF TxTypeOK, NextBuffer, Turns, Buffers, HEARTBEAT
    <3>2. CASE FlushSend
      <4>1. Frame(at) \in Frames
        BY DEF TxTypeOK, Frame, Frames
      <4>2. fifo' \in Seq(Frames) /\ Len(fifo') <= FifoSize
        BY <4>1, <3>2, AppendFacts, RoomFacts DEF TxTypeOK, FlushSend
      <4> QED  BY <4>2, <3>1, <3>2 DEF TxTypeOK, FlushSend
    <3>3. CASE FlushNothing
      BY <3>3 DEF TxTypeOK, FlushNothing, Turns
    <3>4. CASE FlushSkip
      BY <3>1, <3>4 DEF TxTypeOK, FlushSkip
    <3>5. CASE FlushRefused
      BY <3>5 DEF TxTypeOK, FlushRefused, Turns, Buffers
    <3> QED  BY <2>1, <3>2, <3>3, <3>4, <3>5 DEF Flush
  <2>2. ASSUME NEW b \in Buffers, NEW here \in Turns, NEW there \in Turns, Sends(b, here, there)
        PROVE  TxTypeOK'
    <3>1. CASE UNCHANGED <<full, count, data, fifo>>
      BY <2>2, <3>1 DEF TxTypeOK, Sends
    <3>2. ASSUME NEW v \in Versions(b), CO_CANsend(b, v)
          PROVE  TxTypeOK'
      <4>1. v \in Nat  BY VersionFacts DEF TxTypeOK
      <4>2. [buffer |-> b, data |-> v] \in Frames  BY <4>1 DEF Frames
      <4>3. data' \in [Buffers -> Nat]  BY <3>2, <4>1 DEF CO_CANsend, TxTypeOK
      <4>4. fifo' \in Seq(Frames) /\ Len(fifo') <= FifoSize
        <5>1. CASE HasRoom /\ fifo' = Append(fifo, [buffer |-> b, data |-> v])
          BY <5>1, <4>2, AppendFacts, RoomFacts DEF TxTypeOK
        <5>2. CASE UNCHANGED fifo
          BY <5>2 DEF TxTypeOK
        <5> QED  BY <3>2, <5>1, <5>2 DEF CO_CANsend
      <4>5. full' \in SUBSET Buffers /\ count' \in Int
        BY <3>2 DEF CO_CANsend, Wait, TxTypeOK
      <4> QED  BY <2>2, <4>3, <4>4, <4>5 DEF Sends, TxTypeOK
    <3> QED  BY <2>2, <3>1, <3>2 DEF Sends
  <2>3. CASE Transmit
    <3>1. Tail(fifo) \in Seq(Frames) /\ Len(Tail(fifo)) = Len(fifo) - 1 /\ Head(fifo) \in Frames
      BY <2>3, TailFacts DEF TxTypeOK, Transmit
    <3> QED  BY <2>3, <3>1, TransmitAssumption DEF TxTypeOK, Transmit, Frames
  <2>4. CASE UNCHANGED txVars
    BY <2>4 DEF TxTypeOK, txVars
  <2> QED
    BY <2>1, <2>2, <2>3, <2>4
    DEF TxNext, TxMain, CO_EM_process, CO_NMT_process, CO_SDOserver_process, CO_TPDO_process,
        Buffers, Turns, EMCY, TPDO, SDO, HEARTBEAT
<1> QED  BY <1>1, <1>2, PTL DEF TxSpec

-----------------------------------------------------------------------------
(* What a step does with the backlog and with the FIFO.                     *)

(* A sender's frame goes into the FIFO at once, or its buffer waits.        *)
GoesAtOnce(b, v) ==
  /\ MaySend(b) /\ data' = [data EXCEPT ![b] = v]
  /\ fifo' = Append(fifo, [buffer |-> b, data |-> v])
  /\ UNCHANGED <<full, count, shown>>

StartsToWait(b, v) ==
  /\ MaySend(b) /\ data' = [data EXCEPT ![b] = v] /\ Wait(b)
  /\ UNCHANGED <<fifo, shown>>

(* The frames and the backlog stay.                                        *)
Rests == UNCHANGED <<full, count, data, fifo, shown>>

(* For the order, a step sends at once, starts to wait, flushes, transmits *)
(* or rests.                                                               *)
LEMMA StepKinds ==
  ASSUME [TxNext]_txVars
  PROVE  \/ Rests \/ FlushSend \/ Transmit
         \/ \E b \in Buffers : \E v \in Versions(b) : GoesAtOnce(b, v) \/ StartsToWait(b, v)
<1>1. ASSUME NEW b \in Buffers, NEW here, NEW there, Sends(b, here, there)
      PROVE  Rests \/ \E v \in Versions(b) : GoesAtOnce(b, v) \/ StartsToWait(b, v)
  BY <1>1 DEF Sends, Rests, CO_CANsend, GoesAtOnce, StartsToWait
<1>2. EMCY \in Buffers /\ TPDO \in Buffers /\ SDO \in Buffers /\ HEARTBEAT \in Buffers
  BY DEF EMCY, TPDO, SDO, HEARTBEAT, Buffers
<1>3. CASE Flush
  BY <1>3 DEF Flush, FlushNothing, FlushSkip, FlushRefused, Rests
<1>4. CASE UNCHANGED txVars
  BY <1>4 DEF txVars, Rests
<1> QED
  BY <1>1, <1>2, <1>3, <1>4
  DEF TxNext, TxMain, CO_EM_process, CO_NMT_process, CO_SDOserver_process, CO_TPDO_process

-----------------------------------------------------------------------------
(* The count of the backlog.                                               *)

(* The waiting buffers can be counted.                                     *)
LEMMA FullIsFinite == ASSUME TxTypeOK PROVE IsFiniteSet(full) /\ Cardinality(full) \in Nat
<1>1. 1 \in Int /\ 4 \in Int
  OBVIOUS
<1>2. IsFiniteSet(Buffers)
  BY <1>1, FS_Interval, Zenon DEF Buffers
<1> QED  BY <1>2, FS_Subset, FS_CardinalityType DEF TxTypeOK

(* The flush may return early when CANtxCount is zero: no buffer waits then. *)
THEOREM CountCorrect == TxSpec => []CountIsFull
<1>1. TxInit => CountIsFull
  BY FS_EmptySet DEF TxInit, CountIsFull
<1>2. TxTypeOK /\ CountIsFull /\ [TxNext]_txVars => CountIsFull'
  <2> SUFFICES ASSUME TxTypeOK, CountIsFull, [TxNext]_txVars
               PROVE  CountIsFull'
    OBVIOUS
  <2>1. CASE Rests
    BY <2>1 DEF Rests, CountIsFull
  <2>2. CASE FlushSend
    <3>1. Cardinality(full \ {at}) = Cardinality(full) - 1
      BY <2>2, FullIsFinite, FS_RemoveElement DEF FlushSend
    <3> QED  BY <2>2, <3>1 DEF FlushSend, CountIsFull
  <2>3. CASE Transmit
    BY <2>3 DEF Transmit, CountIsFull
  <2>4. ASSUME NEW b \in Buffers, Wait(b)
        PROVE  CountIsFull'
    <3>1. Cardinality(full \cup {b}) = IF b \in full THEN Cardinality(full) ELSE Cardinality(full) + 1
      BY FullIsFinite, FS_AddElement
    <3> QED  BY <2>4, <3>1 DEF Wait, CountIsFull
  <2> QED
    BY <2>1, <2>2, <2>3, <2>4, StepKinds DEF GoesAtOnce, StartsToWait, CountIsFull
<1> QED  BY <1>1, <1>2, TxTypeCorrect, PTL DEF TxSpec

-----------------------------------------------------------------------------
(* The flush has passed no buffer that waits.                               *)
THEOREM FlushPasses == TxSpec => []FlushPassesNone
<1>1. TxInit => FlushPassesNone
  BY DEF TxInit, FlushPassesNone
<1>2. TxTypeOK /\ FlushPassesNone /\ [TxNext]_txVars => FlushPassesNone'
  <2> SUFFICES ASSUME TxTypeOK, FlushPassesNone, [TxNext]_txVars
               PROVE  FlushPassesNone'
    OBVIOUS
  <2>0. at \in 1..4 /\ \A a \in full : a \in 1..4 /\ a >= at
    BY DEF TxTypeOK, FlushPassesNone, Buffers
  <2>1. CASE FlushNothing
    BY <2>1 DEF FlushNothing, FlushPassesNone
  <2>2. CASE FlushSkip
    <3>1. full' = full /\ at \notin full /\ NextBuffer
      BY <2>2 DEF FlushSkip
    <3> QED  BY <2>0, <3>1 DEF FlushPassesNone, NextBuffer, HEARTBEAT
  <2>3. CASE FlushSend
    <3>1. full' = full \ {at} /\ NextBuffer
      BY <2>3 DEF FlushSend
    <3> QED  BY <2>0, <3>1 DEF FlushPassesNone, NextBuffer, HEARTBEAT
  <2> USE DEF TxTypeOK, FlushPassesNone, Buffers
  <2>4. CASE FlushRefused
    BY <2>4 DEF FlushRefused
  <2>5. ASSUME NEW b \in Buffers, NEW here \in Turns \ {"flush"}, NEW there, Sends(b, here, there)
        PROVE  FlushPassesNone'
    <3>1. full' \in SUBSET Buffers /\ at = 1 /\ at' = 1
      BY <2>5 DEF Sends, CO_CANsend, Wait
    <3> QED  BY <3>1
  <2>6. CASE Transmit
    BY <2>6 DEF Transmit
  <2>7. CASE UNCHANGED txVars
    BY <2>7 DEF txVars
  <2> QED
    BY <2>1, <2>2, <2>3, <2>4, <2>5, <2>6, <2>7
    DEF TxNext, TxMain, Flush, CO_EM_process, CO_NMT_process, CO_SDOserver_process, CO_TPDO_process,
        Turns, EMCY, TPDO, SDO, HEARTBEAT
<1> QED  BY <1>1, <1>2, TxTypeCorrect, PTL DEF TxSpec

(* The flush takes the buffer with the lowest index of those that wait.     *)
THEOREM FlushOrdered == TxSpec => FlushOrder
<1>1. TxTypeOK /\ FlushPassesNone /\ [TxNext]_txVars => [LowestIsFlushed]_txVars
  <2> SUFFICES ASSUME TxTypeOK, FlushPassesNone, [TxNext]_txVars
               PROVE  LowestIsFlushed
    OBVIOUS
  <2>1. full \subseteq full' \/ (FlushSend /\ full \ full' = {at})
    BY StepKinds DEF Rests, FlushSend, Transmit, GoesAtOnce, StartsToWait, Wait
  <2> QED  BY <2>1 DEF LowestIsFlushed, FlushPassesNone
<1> QED  BY <1>1, FlushPasses, TxTypeCorrect, PTL DEF TxSpec, FlushOrder

-----------------------------------------------------------------------------
(* What lies between the bus and the stack is in order.                     *)

Ordered ==
  /\ \A b \in Buffers : shown[b] <= data[b]
  /\ \A i \in 1..Len(fifo) :
       shown[fifo[i].buffer] <= fifo[i].data /\ fifo[i].data <= data[fifo[i].buffer]
  /\ \A i, j \in 1..Len(fifo) :
       i < j /\ fifo[i].buffer = fifo[j].buffer => fifo[i].data <= fifo[j].data

(* The types of a frame, field by field.                                   *)
LEMMA FrameFacts ==
  ASSUME TxTypeOK
  PROVE  /\ Len(fifo) \in Nat
         /\ \A i \in 1..Len(fifo) : fifo[i].buffer \in Buffers /\ fifo[i].data \in Nat
         /\ \A b \in Buffers : data[b] \in Nat /\ shown[b] \in Nat
<1>1. \A i \in 1..Len(fifo) : fifo[i] \in Frames
  BY DEF TxTypeOK
<1> QED  BY <1>1 DEF Frames, TxTypeOK

(* A buffer that is written gets its version, the others keep theirs.      *)
LEMMA WriteFacts ==
  ASSUME TxTypeOK, NEW b \in Buffers, NEW v \in Versions(b), data' = [data EXCEPT ![b] = v]
  PROVE  /\ v \in Nat /\ data' \in [Buffers -> Nat] /\ data'[b] = v
         /\ \A c \in Buffers : data'[c] = IF c = b THEN v ELSE data[c]
         /\ \A c \in Buffers : data'[c] >= data[c]
<1>1. v \in Nat /\ v >= data[b] /\ \A c \in Buffers : data[c] \in Nat
  BY VersionFacts DEF TxTypeOK
<1> QED  BY <1>1 DEF TxTypeOK

(* A frame with the newest version of its buffer keeps the order.          *)
LEMMA PushKeepsOrder ==
  ASSUME TxTypeOK, Ordered, NEW f \in Frames, fifo' = Append(fifo, f), UNCHANGED shown,
         data' \in [Buffers -> Nat], \A b \in Buffers : data'[b] >= data[b],
         f.data = data'[f.buffer]
  PROVE  Ordered'
<1>1. /\ Len(fifo') = Len(fifo) + 1 /\ Len(fifo) \in Nat
      /\ \A i \in 1..Len(fifo) : fifo'[i] = fifo[i]
      /\ fifo'[Len(fifo) + 1] = f
  BY AppendFacts DEF TxTypeOK
<1>4. f.buffer \in Buffers /\ f.data \in Nat
  BY DEF Frames
<1>5. \A b \in Buffers : data[b] \in Nat /\ data'[b] \in Nat /\ shown[b] \in Nat
  BY DEF TxTypeOK
<1>6. \A i \in 1..Len(fifo') : i \in 1..Len(fifo) \/ i = Len(fifo) + 1
  BY <1>1
<1>7. \A b \in Buffers : shown'[b] = shown[b] /\ shown[b] <= data'[b]
  BY <1>5 DEF Ordered
<1>8. \A i \in 1..Len(fifo') :
        shown[fifo'[i].buffer] <= fifo'[i].data /\ fifo'[i].data <= data'[fifo'[i].buffer]
  BY <1>1, <1>4, <1>5, <1>6, <1>7, FrameFacts DEF Ordered
<1>9. \A i, j \in 1..Len(fifo') :
        i < j /\ fifo'[i].buffer = fifo'[j].buffer => fifo'[i].data <= fifo'[j].data
  <2> SUFFICES ASSUME NEW i \in 1..Len(fifo'), NEW j \in 1..Len(fifo'),
                      i < j, fifo'[i].buffer = fifo'[j].buffer
               PROVE  fifo'[i].data <= fifo'[j].data
    OBVIOUS
  <2>1. i \in 1..Len(fifo) /\ fifo'[i] = fifo[i]
    BY <1>1, <1>6
  <2>2. CASE j \in 1..Len(fifo)
    BY <2>1, <2>2, <1>1 DEF Ordered
  <2>3. CASE j = Len(fifo) + 1
    <3>1. fifo[i].data <= data[f.buffer]
      BY <2>1, <2>3, <1>1 DEF Ordered
    <3> QED  BY <2>1, <2>3, <3>1, <1>1, <1>4, <1>5, FrameFacts
  <2> QED  BY <2>2, <2>3, <1>6
<1> QED  BY <1>7, <1>8, <1>9 DEF Ordered

(* The order is kept, whether frames are pushed, flushed or transmitted.     *)
LEMMA OrderHolds == TxSpec => []Ordered
<1>1. TxInit => Ordered
  BY DEF TxInit, Ordered
<1>2. TxTypeOK /\ Ordered /\ [TxNext]_txVars => Ordered'
  <2> SUFFICES ASSUME TxTypeOK, Ordered, [TxNext]_txVars
               PROVE  Ordered'
    OBVIOUS
  <2>1. CASE Rests
    BY <2>1 DEF Rests, Ordered
  <2>2. CASE FlushSend
    <3>1. Frame(at) \in Frames /\ Frame(at).data = data[at] /\ Frame(at).buffer = at
      BY DEF TxTypeOK, Frame, Frames
    <3>2. \A b \in Buffers : data[b] >= data[b]
      BY DEF TxTypeOK
    <3> QED  BY <2>2, <3>1, <3>2, PushKeepsOrder DEF FlushSend, TxTypeOK
  <2>3. CASE Transmit
    <3>1. /\ Len(fifo) \in Nat \ {0} /\ Len(fifo') = Len(fifo) - 1
          /\ \A i \in 1..(Len(fifo) - 1) : fifo'[i] = fifo[i + 1]
          /\ Head(fifo) = fifo[1]
      BY <2>3, TailFacts DEF Transmit, TxTypeOK
    <3>3. \A i \in 1..Len(fifo) : fifo[i].buffer \in Buffers /\ fifo[i].data \in Nat
      BY FrameFacts
    <3>4. data' = data /\ shown' = [shown EXCEPT ![fifo[1].buffer] = fifo[1].data]
      BY <2>3, <3>1 DEF Transmit
    <3>5. \A b \in Buffers : data[b] \in Nat /\ shown[b] \in Nat
      BY DEF TxTypeOK
    <3>6. \A b \in Buffers : shown'[b] = IF b = fifo[1].buffer THEN fifo[1].data ELSE shown[b]
      BY <3>1, <3>3, <3>4 DEF TxTypeOK
    <3>7. \A i \in 1..Len(fifo') : i \in 1..(Len(fifo) - 1) /\ i + 1 \in 1..Len(fifo)
      BY <3>1
    <3>8. \A b \in Buffers : shown'[b] <= data'[b]
      BY <3>1, <3>4, <3>6 DEF Ordered
    <3>9. \A i \in 1..Len(fifo') :
            shown'[fifo'[i].buffer] <= fifo'[i].data /\ fifo'[i].data <= data'[fifo'[i].buffer]
      <4> SUFFICES ASSUME NEW i \in 1..Len(fifo')
                   PROVE  /\ shown'[fifo'[i].buffer] <= fifo'[i].data
                          /\ fifo'[i].data <= data'[fifo'[i].buffer]
        OBVIOUS
      <4>1. fifo'[i] = fifo[i + 1] /\ i + 1 \in 1..Len(fifo) /\ 1 \in 1..Len(fifo) /\ 1 < i + 1
        BY <3>1, <3>7
      <4>2. /\ shown[fifo[i + 1].buffer] <= fifo[i + 1].data
            /\ fifo[i + 1].data <= data[fifo[i + 1].buffer]
            /\ fifo[1].buffer = fifo[i + 1].buffer => fifo[1].data <= fifo[i + 1].data
        BY <4>1 DEF Ordered
      <4> QED  BY <4>1, <4>2, <3>3, <3>4, <3>6
    <3>10. \A i, j \in 1..Len(fifo') :
             i < j /\ fifo'[i].buffer = fifo'[j].buffer => fifo'[i].data <= fifo'[j].data
      BY <3>1, <3>7 DEF Ordered
    <3> QED  BY <3>8, <3>9, <3>10 DEF Ordered
  <2>4. ASSUME NEW b \in Buffers, NEW v \in Versions(b), GoesAtOnce(b, v) \/ StartsToWait(b, v)
        PROVE  Ordered'
    <3>1. data' = [data EXCEPT ![b] = v] /\ shown' = shown
      BY <2>4 DEF GoesAtOnce, StartsToWait
    <3>2. v \in Nat /\ data' \in [Buffers -> Nat] /\ data'[b] = v /\ \A c \in Buffers : data'[c] >= data[c]
      BY <3>1, WriteFacts
    <3>3. CASE GoesAtOnce(b, v)
      <4> DEFINE f == [buffer |-> b, data |-> v]
      <4>1. f \in Frames /\ f.buffer = b /\ f.data = v
        BY <3>2 DEF Frames
      <4> QED  BY <3>1, <3>2, <3>3, <4>1, PushKeepsOrder DEF GoesAtOnce
    <3>4. CASE fifo' = fifo
      <4>1. \A c \in Buffers : data[c] \in Nat /\ data'[c] \in Nat /\ shown'[c] = shown[c]
        BY <3>1, <3>2, FrameFacts
      <4>2. \A c \in Buffers : shown'[c] <= data'[c]
        <5>1. \A c \in Buffers : shown[c] <= data[c] /\ shown[c] \in Nat
          BY FrameFacts DEF Ordered
        <5> QED  BY <3>2, <4>1, <5>1
      <4>3. \A i \in 1..Len(fifo') :
              shown'[fifo'[i].buffer] <= fifo'[i].data /\ fifo'[i].data <= data'[fifo'[i].buffer]
        <5> SUFFICES ASSUME NEW i \in 1..Len(fifo)
                     PROVE  shown'[fifo[i].buffer] <= fifo[i].data /\ fifo[i].data <= data'[fifo[i].buffer]
          BY <3>4
        <5>1. shown[fifo[i].buffer] <= fifo[i].data /\ fifo[i].data <= data[fifo[i].buffer]
          BY DEF Ordered
        <5>2. fifo[i].buffer \in Buffers /\ fifo[i].data \in Nat
          BY FrameFacts
        <5> QED  BY <3>2, <4>1, <5>1, <5>2
      <4> QED  BY <3>4, <4>2, <4>3 DEF Ordered
    <3> QED  BY <2>4, <3>3, <3>4 DEF StartsToWait
  <2> QED  BY <2>1, <2>2, <2>3, <2>4, StepKinds
<1> QED  BY <1>1, <1>2, TxTypeCorrect, PTL DEF TxSpec

(* A kind of message never goes back to an older version on the bus.        *)
THEOREM BusOrdered == TxSpec => BusOrder
<1>1. TxTypeOK /\ Ordered /\ [TxNext]_txVars => [NeverGoesBack]_txVars
  <2> SUFFICES ASSUME TxTypeOK, Ordered, [TxNext]_txVars
               PROVE  NeverGoesBack
    OBVIOUS
  <2>1. CASE Transmit
    <3>1. Len(fifo) \in Nat \ {0} /\ Head(fifo) = fifo[1] /\ fifo[1] \in Frames
      BY <2>1, TailFacts DEF Transmit, TxTypeOK
    <3>2. fifo[1].data >= shown[fifo[1].buffer] /\ fifo[1].data \in Nat /\ fifo[1].buffer \in Buffers
      BY <3>1 DEF Ordered, Frames, TxTypeOK
    <3> QED  BY <2>1, <3>1, <3>2 DEF Transmit, NeverGoesBack, TxTypeOK
  <2>2. CASE UNCHANGED shown
    BY <2>2 DEF NeverGoesBack, TxTypeOK
  <2> QED  BY <2>1, <2>2, StepKinds DEF Rests, FlushSend, GoesAtOnce, StartsToWait
<1> QED  BY <1>1, OrderHolds, TxTypeCorrect, PTL DEF TxSpec, BusOrder

-----------------------------------------------------------------------------
(* Emergencies and answers, each exactly once.  Gone(b) is the last version  *)
(* of b that left its buffer.                                              *)

Gone(b) == data[b] - Waiting(b)

InRange(b) ==
  \A i \in 1..Len(fifo) :
    fifo[i].buffer = b => shown[b] < fifo[i].data /\ fifo[i].data <= Gone(b)

NoneMissing(b) ==
  \A v \in (shown[b] + 1)..Gone(b) :
    \E i \in 1..Len(fifo) : fifo[i].buffer = b /\ fifo[i].data = v

Rising(b) ==
  \A i, j \in 1..Len(fifo) :
    i < j /\ fifo[i].buffer = b /\ fifo[j].buffer = b => fifo[i].data < fifo[j].data

Once(b) == shown[b] <= Gone(b) /\ InRange(b) /\ NoneMissing(b) /\ Rising(b)

AllOnce == \A b \in Guarded : Once(b)

(* Emergencies and answers are buffers.                                    *)
LEMMA GuardedFacts == Guarded \subseteq Buffers
  BY DEF Guarded, Buffers, EMCY, SDO

(* What has left the stack of a buffer, whether the newest version waits or*)
(* not.                                                                    *)
LEMMA GoneFacts ==
  ASSUME TxTypeOK, NEW b \in Buffers
  PROVE  Gone(b) \in Int /\ (b \in full => Gone(b) = data[b] - 1) /\ (b \notin full => Gone(b) = data[b])
  BY FrameFacts DEF Gone, Waiting

(* A frame of b that follows the last one keeps each once.                   *)
LEMMA PushKeepsOnce ==
  ASSUME TxTypeOK, NEW f \in Frames, fifo' = Append(fifo, f), UNCHANGED shown,
         NEW b \in Buffers, Once(b),
         f.buffer = b => f.data = Gone(b) + 1 /\ Gone(b)' = Gone(b) + 1,
         f.buffer # b => Gone(b)' = Gone(b)
  PROVE  Once(b)'
<1>1. /\ Len(fifo') = Len(fifo) + 1 /\ Len(fifo) \in Nat
      /\ \A i \in 1..Len(fifo) : fifo'[i] = fifo[i]
      /\ fifo'[Len(fifo) + 1] = f
  BY AppendFacts DEF TxTypeOK
<1>2. \A i \in 1..Len(fifo') : i \in 1..Len(fifo) \/ i = Len(fifo) + 1
  BY <1>1
<1>3. f.data \in Nat /\ Gone(b) \in Int /\ shown[b] \in Nat /\ shown'[b] = shown[b]
  BY GoneFacts, FrameFacts DEF Frames
<1>4. Gone(b)' \in Int /\ Gone(b) <= Gone(b)' /\ shown[b] <= Gone(b)
  BY <1>3 DEF Once
<1>5. InRange(b)'
  <2> SUFFICES ASSUME NEW i \in 1..Len(fifo'), fifo'[i].buffer = b
               PROVE  shown'[b] < fifo'[i].data /\ fifo'[i].data <= Gone(b)'
    BY DEF InRange
  <2>1. CASE i \in 1..Len(fifo)
    BY <2>1, <1>1, <1>3, <1>4, FrameFacts DEF Once, InRange
  <2>2. CASE i = Len(fifo) + 1
    BY <2>2, <1>1, <1>3, <1>4
  <2> QED  BY <2>1, <2>2, <1>2
<1>6. NoneMissing(b)'
  <2> SUFFICES ASSUME NEW v \in (shown'[b] + 1)..Gone(b)'
               PROVE  \E i \in 1..Len(fifo') : fifo'[i].buffer = b /\ fifo'[i].data = v
    BY DEF NoneMissing
  <2>1. CASE v <= Gone(b)
    <3>1. v \in (shown[b] + 1)..Gone(b)
      BY <2>1, <1>3, <1>4
    <3>2. PICK i \in 1..Len(fifo) : fifo[i].buffer = b /\ fifo[i].data = v
      BY <3>1 DEF Once, NoneMissing
    <3> QED  BY <3>2, <1>1
  <2>2. CASE v > Gone(b)
    <3>1. f.buffer = b /\ f.data = v
      BY <2>2, <1>3, <1>4
    <3>2. Len(fifo) + 1 \in 1..Len(fifo')
      BY <1>1
    <3> QED  BY <3>1, <3>2, <1>1
  <2> QED  BY <2>1, <2>2, <1>3, <1>4
<1>7. Rising(b)'
  <2> SUFFICES ASSUME NEW i \in 1..Len(fifo'), NEW j \in 1..Len(fifo'),
                      i < j, fifo'[i].buffer = b, fifo'[j].buffer = b
               PROVE  fifo'[i].data < fifo'[j].data
    BY DEF Rising
  <2>1. i \in 1..Len(fifo) /\ fifo'[i] = fifo[i]
    BY <1>1, <1>2
  <2>2. CASE j \in 1..Len(fifo)
    BY <2>1, <2>2, <1>1 DEF Once, Rising
  <2>3. CASE j = Len(fifo) + 1
    BY <2>1, <2>3, <1>1, <1>3, FrameFacts DEF Once, InRange
  <2> QED  BY <2>2, <2>3, <1>2
<1> QED  BY <1>3, <1>4, <1>5, <1>6, <1>7 DEF Once

(* The bus takes each frame once.                                          *)
LEMMA TransmitKeepsOnce ==
  ASSUME TxTypeOK, Transmit, NEW b \in Buffers, Once(b)
  PROVE  Once(b)'
<1>1. /\ Len(fifo) \in Nat \ {0} /\ Len(fifo') = Len(fifo) - 1
      /\ \A i \in 1..(Len(fifo) - 1) : fifo'[i] = fifo[i + 1]
      /\ Head(fifo) = fifo[1] /\ fifo[1] \in Frames
  BY TailFacts DEF Transmit, TxTypeOK
<1>2. \A i \in 1..Len(fifo) : fifo[i].buffer \in Buffers /\ fifo[i].data \in Nat
  BY FrameFacts
<1>3. 1 \in 1..Len(fifo) /\ \A i \in 1..Len(fifo') : fifo'[i] = fifo[i + 1] /\ i + 1 \in 1..Len(fifo)
  BY <1>1
<1>4. shown'[b] = IF fifo[1].buffer = b THEN fifo[1].data ELSE shown[b]
  BY <1>1, <1>2, <1>3 DEF Transmit, TxTypeOK
<1>5. Gone(b)' = Gone(b) /\ Gone(b) \in Int /\ shown[b] \in Nat
  BY GoneFacts, FrameFacts DEF Transmit, Gone, Waiting
<1>6. shown[b] <= shown'[b] /\ shown'[b] <= Gone(b) /\ shown'[b] \in Nat
  BY <1>2, <1>3, <1>4, <1>5 DEF Once, InRange
<1>7. InRange(b)'
  <2> SUFFICES ASSUME NEW i \in 1..Len(fifo'), fifo'[i].buffer = b
               PROVE  shown'[b] < fifo'[i].data /\ fifo'[i].data <= Gone(b)
    BY <1>5 DEF InRange
  <2>1. fifo'[i] = fifo[i + 1] /\ i + 1 \in 1..Len(fifo) /\ 1 < i + 1
    BY <1>1, <1>3
  <2> QED  BY <2>1, <1>3, <1>4 DEF Once, InRange, Rising
<1>8. NoneMissing(b)'
  <2> SUFFICES ASSUME NEW v \in (shown'[b] + 1)..Gone(b)
               PROVE  \E i \in 1..Len(fifo') : fifo'[i].buffer = b /\ fifo'[i].data = v
    BY <1>5 DEF NoneMissing
  <2>1. v \in (shown[b] + 1)..Gone(b) /\ v > shown'[b]
    BY <1>5, <1>6
  <2>2. PICK i \in 1..Len(fifo) : fifo[i].buffer = b /\ fifo[i].data = v
    BY <2>1 DEF Once, NoneMissing
  <2>3. i # 1
    BY <2>1, <2>2, <1>4, <1>6
  <2>4. i - 1 \in 1..Len(fifo') /\ fifo'[i - 1] = fifo[i]
    BY <2>3, <1>1
  <2> QED  BY <2>2, <2>4
<1>9. Rising(b)'
  BY <1>1, <1>3 DEF Once, Rising
<1> QED  BY <1>5, <1>6, <1>7, <1>8, <1>9 DEF Once

(* Every step keeps emergencies and answers from being lost or doubled.    *)
LEMMA OnceInductive == TxTypeOK /\ AllOnce /\ [TxNext]_txVars => AllOnce'
<1> SUFFICES ASSUME TxTypeOK, AllOnce, [TxNext]_txVars, NEW b \in Guarded
             PROVE  Once(b)'
  BY DEF AllOnce, Guarded
<1>1. b \in Buffers /\ Once(b)
  BY GuardedFacts DEF AllOnce
<1>2. CASE Rests
  BY <1>1, <1>2 DEF Rests, Once, InRange, NoneMissing, Rising, Gone, Waiting
<1>3. CASE FlushSend
  <2>1. Frame(at) \in Frames /\ Frame(at).data = data[at] /\ Frame(at).buffer = at
    BY DEF TxTypeOK, Frame, Frames
  <2>2. Gone(b)' = IF at = b THEN Gone(b) + 1 ELSE Gone(b)
    BY <1>1, <1>3, FrameFacts DEF Gone, Waiting, FlushSend
  <2>3. at = b => Gone(b) + 1 = data[b]
    BY <1>1, <1>3, GoneFacts, FrameFacts DEF FlushSend
  <2> QED  BY <1>1, <1>3, <2>1, <2>2, <2>3, PushKeepsOnce DEF FlushSend
<1>4. CASE Transmit
  BY <1>1, <1>4, TransmitKeepsOnce
<1>5. ASSUME NEW c \in Buffers, NEW v \in Versions(c), GoesAtOnce(c, v)
      PROVE  Once(b)'
  <2> DEFINE f == [buffer |-> c, data |-> v]
  <2>1. /\ v \in Nat /\ data' \in [Buffers -> Nat]
        /\ \A d \in Buffers : data'[d] = IF d = c THEN v ELSE data[d]
    BY <1>5, WriteFacts DEF GoesAtOnce
  <2>2. f \in Frames /\ f.buffer = c /\ f.data = v
    BY <2>1 DEF Frames
  <2>3. c = b => b \notin full /\ v = data[b] + 1
    BY <1>1, <1>5, VersionFacts DEF GoesAtOnce, MaySend, TxTypeOK
  <2>4. Gone(b)' = (IF c = b THEN Gone(b) + 1 ELSE Gone(b)) /\ (c = b => v = Gone(b) + 1)
    BY <1>1, <1>5, <2>1, <2>3, FrameFacts DEF GoesAtOnce, Gone, Waiting
  <2>5. fifo' = Append(fifo, f) /\ shown' = shown
    BY <1>5 DEF GoesAtOnce
  <2> HIDE DEF f
  <2> QED  BY <1>1, <2>2, <2>4, <2>5, PushKeepsOnce
<1>6. ASSUME NEW c \in Buffers, NEW v \in Versions(c), StartsToWait(c, v)
      PROVE  Once(b)'
  <2>1. \A d \in Buffers : data'[d] = IF d = c THEN v ELSE data[d]
    BY <1>6, WriteFacts DEF StartsToWait
  <2>2. c = b => b \notin full /\ b \in full' /\ v = data[b] + 1
    BY <1>1, <1>6, VersionFacts DEF StartsToWait, MaySend, Wait, TxTypeOK
  <2>3. c # b => (b \in full' <=> b \in full)
    BY <1>6 DEF StartsToWait, Wait
  <2>4. Gone(b)' = Gone(b)
    BY <1>1, <2>1, <2>2, <2>3, FrameFacts DEF Gone, Waiting
  <2> QED  BY <1>1, <1>6, <2>4 DEF StartsToWait, Once, InRange, NoneMissing, Rising
<1> QED  BY <1>2, <1>3, <1>4, <1>5, <1>6, StepKinds

(* Every emergency and every SDO answer goes over the bus once and in order:  *)
(* none is left out, none is sent twice, none is overwritten while it waits. *)
THEOREM ToldOnce == TxSpec => []EachOnce
<1>1. TxInit => AllOnce
  <2> SUFFICES ASSUME TxInit, NEW b \in Guarded
               PROVE  Once(b)
    BY DEF AllOnce
  <2>1. fifo = <<>> /\ data[b] = 0 /\ shown[b] = 0 /\ Gone(b) = 0
    BY GuardedFacts DEF TxInit, Gone, Waiting
  <2> QED  BY <2>1 DEF Once, InRange, NoneMissing, Rising
<1>2. TxTypeOK /\ AllOnce => EachOnce
  <2> SUFFICES ASSUME TxTypeOK, NEW b \in Guarded, Once(b)
               PROVE  /\ InFifo(b) = (shown[b] + 1)..Gone(b)
                      /\ \A i, j \in DOMAIN fifo :
                           i < j /\ fifo[i].buffer = b /\ fifo[j].buffer = b => fifo[i].data < fifo[j].data
    BY DEF AllOnce, EachOnce, Gone
  <2>1. DOMAIN fifo = 1..Len(fifo)
    BY DEF TxTypeOK
  <2>2. b \in Buffers /\ Gone(b) \in Int /\ shown[b] \in Nat
    BY GuardedFacts, GoneFacts, FrameFacts
  <2>3. InFifo(b) \subseteq (shown[b] + 1)..Gone(b)
    BY <2>1, <2>2, FrameFacts DEF InFifo, Once, InRange
  <2>4. (shown[b] + 1)..Gone(b) \subseteq InFifo(b)
    BY <2>1 DEF InFifo, Once, NoneMissing
  <2> QED  BY <2>1, <2>3, <2>4 DEF Once, Rising
<1> QED  BY <1>1, <1>2, OnceInductive, TxTypeCorrect, PTL DEF TxSpec

(* The backlog is counted right and tells emergencies and answers once.     *)
THEOREM BacklogIsSafe == TxSpec => []TxSafety
<1>1. TxTypeOK /\ CountIsFull /\ FlushPassesNone /\ EachOnce => TxSafety
  BY DEF TxSafety
<1> QED  BY <1>1, TxTypeCorrect, CountCorrect, FlushPasses, ToldOnce, PTL

-----------------------------------------------------------------------------
(* The latest of every kind arrives, on a bus that empties the FIFO.         *)

(* The latest of b has been on the bus, or it is in the FIFO.                *)
Out(b) ==
  \/ shown[b] = data[b]
  \/ \E i \in 1..Len(fifo) : fifo[i].buffer = b /\ fifo[i].data = data[b]

(* What does not wait is out, and no version is beyond the last.             *)
Carried ==
  /\ \A b \in Buffers : b \notin full => Out(b)
  /\ \A b \in Buffers : data[b] <= MaxVersion

(* A new frame is the latest of its buffer and hides none of the others.     *)
LEMMA PushIsOut ==
  ASSUME TxTypeOK, NEW f \in Frames, fifo' = Append(fifo, f), UNCHANGED shown,
         f.data = data'[f.buffer]
  PROVE  /\ Out(f.buffer)'
         /\ \A b \in Buffers : data'[b] = data[b] /\ Out(b) => Out(b)'
<1>1. /\ Len(fifo') = Len(fifo) + 1 /\ Len(fifo) \in Nat
      /\ \A i \in 1..Len(fifo) : fifo'[i] = fifo[i]
      /\ fifo'[Len(fifo) + 1] = f
  BY AppendFacts DEF TxTypeOK
<1>2. Out(f.buffer)'
  <2>1. Len(fifo) + 1 \in 1..Len(fifo')
    BY <1>1
  <2> QED  BY <1>1, <2>1 DEF Out
<1>3. ASSUME NEW b \in Buffers, data'[b] = data[b], Out(b)
      PROVE  Out(b)'
  <2>1. CASE shown[b] = data[b]
    BY <1>3, <2>1 DEF Out
  <2>2. ASSUME NEW i \in 1..Len(fifo), fifo[i].buffer = b, fifo[i].data = data[b]
        PROVE  Out(b)'
    <3>1. i \in 1..Len(fifo') /\ fifo'[i] = fifo[i]
      BY <1>1
    <3> QED  BY <1>3, <2>2, <3>1 DEF Out
  <2> QED  BY <1>3, <2>1, <2>2 DEF Out
<1> QED  BY <1>2, <1>3

(* A frame that is taken from the FIFO is shown.                            *)
LEMMA TransmitKeepsOut ==
  ASSUME TxTypeOK, Ordered, Transmit, NEW b \in Buffers, Out(b)
  PROVE  Out(b)'
<1>1. /\ Len(fifo) \in Nat \ {0} /\ Len(fifo') = Len(fifo) - 1
      /\ \A i \in 1..(Len(fifo) - 1) : fifo'[i] = fifo[i + 1]
      /\ Head(fifo) = fifo[1]
  BY TailFacts DEF Transmit, TxTypeOK
<1>2. 1 \in 1..Len(fifo) /\ \A i \in 1..Len(fifo) : fifo[i].buffer \in Buffers /\ fifo[i].data \in Nat
  BY <1>1, FrameFacts
<1>3. data' = data /\ shown'[b] = IF fifo[1].buffer = b THEN fifo[1].data ELSE shown[b]
  BY <1>1, <1>2 DEF Transmit, TxTypeOK
<1>4. data[b] \in Nat /\ shown[b] \in Nat
  BY FrameFacts
<1>5. CASE shown[b] = data[b]
  <2>1. fifo[1].buffer = b => fifo[1].data = data[b]
    BY <1>2, <1>4, <1>5 DEF Ordered
  <2> QED  BY <1>3, <1>5, <2>1 DEF Out
<1>6. ASSUME NEW i \in 1..Len(fifo), fifo[i].buffer = b, fifo[i].data = data[b]
      PROVE  Out(b)'
  <2>1. CASE i = 1
    BY <1>3, <1>6, <2>1 DEF Out
  <2>2. CASE i # 1
    <3>1. i - 1 \in 1..Len(fifo') /\ fifo'[i - 1] = fifo[i]
      BY <1>1, <2>2
    <3> QED  BY <1>3, <1>6, <3>1 DEF Out
  <2> QED  BY <2>1, <2>2
<1> QED  BY <1>5, <1>6 DEF Out

(* Out is lost with a new version only, and regained by what leaves.         *)
LEMMA OutStep ==
  ASSUME TxTypeOK, Ordered, [TxNext]_txVars
  PROVE  \A b \in Buffers :
           /\ data'[b] = data[b] /\ Out(b) => Out(b)'
           /\ b \notin full' => Out(b)' \/ (b \notin full /\ data'[b] = data[b])
<1>1. CASE Rests
  BY <1>1 DEF Rests, Out
<1>2. CASE FlushSend
  <2>1. Frame(at) \in Frames /\ Frame(at).data = data[at] /\ Frame(at).buffer = at
    BY DEF TxTypeOK, Frame, Frames
  <2>2. PICK f \in Frames : f = Frame(at)
    BY <2>1
  <2>3. /\ f.buffer = at /\ f.data = data'[f.buffer] /\ fifo' = Append(fifo, f)
        /\ shown' = shown /\ data' = data /\ full' = full \ {f.buffer}
    BY <1>2, <2>1, <2>2 DEF FlushSend
  <2>4. Out(f.buffer)' /\ \A b \in Buffers : data'[b] = data[b] /\ Out(b) => Out(b)'
    BY <2>3, PushIsOut
  <2> QED  BY <2>3, <2>4
<1>3. CASE Transmit
  BY <1>3, TransmitKeepsOut DEF Transmit
<1>4. ASSUME NEW c \in Buffers, NEW v \in Versions(c), GoesAtOnce(c, v)
      PROVE  \A b \in Buffers :
               /\ data'[b] = data[b] /\ Out(b) => Out(b)'
               /\ b \notin full' => Out(b)' \/ (b \notin full /\ data'[b] = data[b])
  <2> DEFINE f == [buffer |-> c, data |-> v]
  <2>1. /\ v \in Nat /\ data'[c] = v
        /\ \A b \in Buffers : data'[b] = IF b = c THEN v ELSE data[b]
    BY <1>4, WriteFacts DEF GoesAtOnce
  <2>2. f \in Frames /\ f.buffer = c /\ f.data = data'[c]
    BY <2>1 DEF Frames
  <2>3. fifo' = Append(fifo, f) /\ shown' = shown /\ full' = full
    BY <1>4 DEF GoesAtOnce
  <2> HIDE DEF f
  <2>4. Out(c)' /\ \A b \in Buffers : data'[b] = data[b] /\ Out(b) => Out(b)'
    BY <2>2, <2>3, PushIsOut
  <2> QED  BY <2>1, <2>3, <2>4
<1>5. ASSUME NEW c \in Buffers, NEW v \in Versions(c), StartsToWait(c, v)
      PROVE  \A b \in Buffers :
               /\ data'[b] = data[b] /\ Out(b) => Out(b)'
               /\ b \notin full' => Out(b)' \/ (b \notin full /\ data'[b] = data[b])
  <2>1. \A b \in Buffers : data'[b] = IF b = c THEN v ELSE data[b]
    BY <1>5, WriteFacts DEF StartsToWait
  <2> QED  BY <1>5, <2>1 DEF StartsToWait, Wait, Out
<1> QED  BY <1>1, <1>2, <1>3, <1>4, <1>5, StepKinds

(* What waits carries the latest, everything else is out.                   *)
LEMMA CarriedHolds == TxSpec => []Carried
<1>1. TxInit => Carried
  BY TransmitAssumption DEF TxInit, Carried, Out
<1>2. TxTypeOK /\ Ordered /\ Carried /\ [TxNext]_txVars => Carried'
  <2> SUFFICES ASSUME TxTypeOK, Ordered, Carried, [TxNext]_txVars
               PROVE  Carried'
    OBVIOUS
  <2>1. \A b \in Buffers : b \notin full' => Out(b)'
    BY OutStep DEF Carried
  <2>2. \A b \in Buffers : data'[b] <= MaxVersion
    <3>1. ASSUME NEW c \in Buffers, NEW v \in Versions(c), data' = [data EXCEPT ![c] = v]
          PROVE  \A b \in Buffers : data'[b] <= MaxVersion
      <4>1. v <= MaxVersion
        BY DEF Versions
      <4> QED  BY <3>1, <4>1, WriteFacts DEF Carried
    <3> QED
      BY <3>1, StepKinds DEF Rests, FlushSend, Transmit, GoesAtOnce, StartsToWait, Carried
  <2> QED  BY <2>1, <2>2 DEF Carried
<1> QED  BY <1>1, <1>2, TxTypeCorrect, OrderHolds, PTL DEF TxSpec

(* The stack has told what it has to tell.                                  *)
Quiet == data' = data

(* The versions that are not told yet.                                      *)
Untold == 4 * MaxVersion - (data[1] + data[2] + data[3] + data[4])

(* Every new version is one less.                                          *)
LEMMA UntoldFalls ==
  /\ TxTypeOK /\ Carried => Untold \in Nat
  /\ TxTypeOK /\ [TxNext]_txVars => Untold' <= Untold /\ (Quiet \/ Untold' < Untold)
<1>1. ASSUME TxTypeOK, Carried PROVE Untold \in Nat
  <2>1. \A b \in 1..4 : data[b] \in Nat /\ data[b] <= MaxVersion
    BY <1>1 DEF TxTypeOK, Carried, Buffers
  <2> QED  BY <2>1, TransmitAssumption DEF Untold
<1>2. ASSUME TxTypeOK, [TxNext]_txVars PROVE Untold' <= Untold /\ (Quiet \/ Untold' < Untold)
  <2>1. \A b \in 1..4 : data[b] \in Nat
    BY <1>2 DEF TxTypeOK, Buffers
  <2>2. ASSUME NEW c \in 1..4, NEW v \in Versions(c), data' = [data EXCEPT ![c] = v]
        PROVE  Untold' <= Untold /\ (Quiet \/ Untold' < Untold)
    <3>1. /\ v \in Nat /\ v >= data[c] /\ v <= data[c] + 1
          /\ \A b \in 1..4 : data'[b] = IF b = c THEN v ELSE data[b]
      BY <1>2, <2>2, VersionFacts, WriteFacts DEF TxTypeOK, Buffers
    <3>2. CASE v = data[c]
      <4>1. data' = data
        BY <1>2, <2>2, <3>2 DEF TxTypeOK
      <4> QED  BY <2>1, <4>1, TransmitAssumption DEF Quiet, Untold
    <3>3. CASE v = data[c] + 1
      BY <2>1, <3>1, <3>3, TransmitAssumption DEF Untold
    <3> QED  BY <2>1, <3>1, <3>2, <3>3
  <2>3. CASE data' = data
    BY <2>1, <2>3, TransmitAssumption DEF Quiet, Untold
  <2> QED
    BY <1>2, <2>2, <2>3, StepKinds
    DEF Rests, FlushSend, Transmit, GoesAtOnce, StartsToWait, Buffers
<1> QED  BY <1>1, <1>2

AllOut == \A b \in Buffers : Out(b)

(* Once quiet, no emergency and no answer starts to wait, and what is out    *)
(* stays out.                                                              *)
LEMMA QuietStep ==
  ASSUME TxTypeOK, Ordered, [TxNext]_txVars, Quiet
  PROVE  /\ \A b \in Guarded : b \notin full => b \notin full'
         /\ \A b \in Buffers : Out(b) => Out(b)'
<1>1. ASSUME NEW b \in Guarded, b \notin full, b \in full' PROVE FALSE
  <2>1. PICK c \in Buffers : \E v \in Versions(c) : StartsToWait(c, v)
    BY <1>1, StepKinds DEF Rests, FlushSend, Transmit, GoesAtOnce
  <2>2. PICK v \in Versions(c) : StartsToWait(c, v)
    BY <2>1
  <2>3. c = b
    BY <1>1, <2>2 DEF StartsToWait, Wait
  <2>4. data'[c] = v /\ v = data[c] + 1 /\ data[c] \in Nat
    BY <1>1, <2>2, <2>3, VersionFacts, WriteFacts, FrameFacts DEF StartsToWait, TxTypeOK
  <2> QED  BY <2>4 DEF Quiet
<1>2. \A b \in Buffers : Out(b) => Out(b)'
  BY OutStep DEF Quiet
<1> QED  BY <1>1, <1>2

-----------------------------------------------------------------------------
(* Three turns of the flush that find an empty FIFO: the emergency leaves in *)
(* the first, the TPDO and the answer in the second, the heartbeat in the    *)
(* third.  What the senders put back meanwhile is a TPDO or a heartbeat.     *)

Sweep(k, n) == turn = "flush" /\ at = k /\ Len(fifo) <= n

First == EMCY \notin full
Third == EMCY \notin full /\ SDO \notin full /\ Out(TPDO)

(* A flush with room in the FIFO finds nothing that waits, or sends what it   *)
(* looks at and goes on.                                                   *)
LEMMA FlushStep ==
  ASSUME TxTypeOK, CountIsFull, HasRoom, turn = "flush", TxMain
  PROVE  /\ at \notin full'
         /\ \/ full' = {}
            \/ /\ NextBuffer
               /\ Len(fifo') = IF at \in full THEN Len(fifo) + 1 ELSE Len(fifo)
<1>1. Flush
  BY DEF TxMain, CO_EM_process, CO_NMT_process, CO_SDOserver_process, CO_TPDO_process, Sends
<1>2. CASE FlushNothing
  <2>1. full = {}
    BY <1>2, FullIsFinite, FS_EmptySet DEF FlushNothing, CountIsFull
  <2> QED  BY <1>2, <2>1 DEF FlushNothing
<1>3. CASE FlushSkip
  BY <1>3 DEF FlushSkip
<1>4. CASE FlushSend
  <2>1. Len(fifo') = Len(fifo) + 1
    <3>1. Frame(at) \in Frames
      BY DEF TxTypeOK, Frame, Frames
    <3> QED  BY <1>4, <3>1, AppendFacts DEF FlushSend, TxTypeOK
  <2> QED  BY <1>4, <2>1 DEF FlushSend
<1> QED  BY <1>1, <1>2, <1>3, <1>4 DEF Flush, FlushRefused

(* The bus leaves a flush where it is.                                      *)
LEMMA SweepStays ==
  ASSUME TxTypeOK, NEW k \in Buffers, NEW n \in Nat, Sweep(k, n), [TxNext]_txVars, ~TxMain
  PROVE  Sweep(k, n)'
<1>1. CASE Transmit
  BY <1>1, TailFacts DEF Transmit, Sweep, TxTypeOK
<1>2. CASE UNCHANGED txVars
  BY <1>2 DEF txVars, Sweep
<1> QED  BY <1>1, <1>2 DEF TxNext

(* The steps of the three turns.                                           *)
LEMMA SweepStep ==
  ASSUME FifoSize >= 2, TxTypeOK, CountIsFull, Ordered, Carried, Carried', TxMain
  PROVE  /\ Sweep(1, 0) => First'
         /\ Sweep(1, 0) /\ First => AllOut' \/ Sweep(2, 0)'
         /\ Sweep(2, 0) => AllOut' \/ (Sweep(3, 1)' /\ Out(TPDO)')
         /\ Sweep(3, 1) => SDO \notin full'
         /\ Sweep(3, 1) /\ Third => AllOut' \/ Sweep(4, 1)'
         /\ Sweep(4, 1) => Out(HEARTBEAT)'
<1>1. /\ EMCY = 1 /\ TPDO = 2 /\ SDO = 3 /\ HEARTBEAT = 4
      /\ EMCY \in Buffers /\ TPDO \in Buffers /\ SDO \in Buffers /\ HEARTBEAT \in Buffers
      /\ Len(fifo) \in Nat /\ FifoSize \in Nat
  BY TransmitAssumption DEF EMCY, TPDO, SDO, HEARTBEAT, Buffers, TxTypeOK
<1>2. Sweep(1, 0) \/ Sweep(2, 0) \/ Sweep(3, 1) \/ Sweep(4, 1) => turn = "flush" /\ HasRoom
  BY <1>1 DEF Sweep, HasRoom
<1>3. \A b \in Buffers : b \notin full' => Out(b)'
  BY DEF Carried
<1>4. full' = {} => AllOut'
  BY <1>3 DEF AllOut
<1>5. Sweep(1, 0) => First'
  BY <1>1, <1>2, FlushStep DEF Sweep, First
<1>6. Sweep(1, 0) /\ First => AllOut' \/ Sweep(2, 0)'
  BY <1>1, <1>2, <1>4, FlushStep DEF Sweep, First, NextBuffer
<1>7. Sweep(2, 0) => AllOut' \/ (Sweep(3, 1)' /\ Out(TPDO)')
  <2>1. Sweep(2, 0) => Out(TPDO)'
    BY <1>1, <1>2, <1>3, FlushStep DEF Sweep
  <2>2. Sweep(2, 0) => AllOut' \/ Sweep(3, 1)'
    BY <1>1, <1>2, <1>4, FlushStep DEF Sweep, NextBuffer
  <2> QED  BY <2>1, <2>2
<1>8. Sweep(3, 1) => SDO \notin full'
  BY <1>1, <1>2, FlushStep DEF Sweep
<1>9. Sweep(3, 1) /\ Third => AllOut' \/ Sweep(4, 1)'
  BY <1>1, <1>2, <1>4, FlushStep DEF Sweep, Third, NextBuffer
<1>10. Sweep(4, 1) => Out(HEARTBEAT)'
  BY <1>1, <1>2, <1>3, FlushStep DEF Sweep
<1> QED  BY <1>5, <1>6, <1>7, <1>8, <1>9, <1>10

(* What the steps rest on.                                                 *)
TxInv == TxTypeOK /\ CountIsFull /\ Ordered /\ Carried

(* What the liveness below needs to know of every state.                   *)
LEMMA TxInvHolds == TxSpec => []TxInv
<1>1. TxTypeOK /\ CountIsFull /\ Ordered /\ Carried => TxInv
  BY DEF TxInv
<1> QED  BY <1>1, TxTypeCorrect, CountCorrect, OrderHolds, CarriedHolds, PTL

(* Once quiet, three such turns bring everything out, and the bus shows it.  *)
LEMMA QuietArrives ==
  ASSUME FifoSize >= 2
  PROVE  TxFairSpec /\ []TxGoesOn /\ BusKeepsUp /\ <>[][Quiet]_txVars => []<>(shown = data)
<1>1. TxInv /\ AllOut /\ [TxNext]_txVars /\ [Quiet]_txVars => AllOut'
  BY QuietStep DEF TxInv, AllOut, Quiet, txVars
<1>2. TxInv /\ First /\ [TxNext]_txVars /\ [Quiet]_txVars => First'
  BY QuietStep DEF TxInv, First, Guarded, Quiet, txVars
<1>3. TxInv /\ Out(TPDO) /\ [TxNext]_txVars /\ [Quiet]_txVars => Out(TPDO)'
  BY QuietStep DEF TxInv, TPDO, Buffers, Quiet, txVars
<1>4. TxInv /\ ~(SDO \in full) /\ [TxNext]_txVars /\ [Quiet]_txVars => ~(SDO \in full)'
  BY QuietStep DEF TxInv, Guarded, Quiet, txVars
<1>5. TxInv /\ Sweep(1, 0) /\ [TxNext]_txVars => Sweep(1, 0)' \/ <<TxMain>>_txVars
  BY SweepStays DEF TxInv, Buffers, txVars, Sweep
<1>6. TxInv /\ Sweep(2, 0) /\ [TxNext]_txVars => Sweep(2, 0)' \/ <<TxMain>>_txVars
  BY SweepStays DEF TxInv, Buffers, txVars, Sweep
<1>7. TxInv /\ Sweep(3, 1) /\ [TxNext]_txVars => Sweep(3, 1)' \/ <<TxMain>>_txVars
  BY SweepStays DEF TxInv, Buffers, txVars, Sweep
<1>8. TxInv /\ Sweep(4, 1) /\ [TxNext]_txVars => Sweep(4, 1)' \/ <<TxMain>>_txVars
  BY SweepStays DEF TxInv, Buffers, txVars, Sweep
<1>9. TxInv /\ TxInv' /\ <<TxMain>>_txVars /\ Sweep(1, 0) => First'
  BY SweepStep DEF TxInv
<1>10. TxInv /\ TxInv' /\ <<TxMain>>_txVars /\ Sweep(1, 0) /\ First => AllOut' \/ Sweep(2, 0)'
  BY SweepStep DEF TxInv
<1>11. TxInv /\ TxInv' /\ <<TxMain>>_txVars /\ Sweep(2, 0)
         => AllOut' \/ (Sweep(3, 1)' /\ Out(TPDO)')
  BY SweepStep DEF TxInv
<1>12. TxInv /\ TxInv' /\ <<TxMain>>_txVars /\ Sweep(3, 1) => ~(SDO \in full)'
  BY SweepStep DEF TxInv
<1>13. TxInv /\ TxInv' /\ <<TxMain>>_txVars /\ Sweep(3, 1) /\ Third => AllOut' \/ Sweep(4, 1)'
  BY SweepStep DEF TxInv
<1>14. TxInv /\ TxInv' /\ <<TxMain>>_txVars /\ Sweep(4, 1) => Out(HEARTBEAT)'
  BY SweepStep DEF TxInv
<1>15. First /\ ~(SDO \in full) /\ Out(TPDO) <=> Third
  BY DEF First, Third
<1>16. TxInv /\ Third /\ Out(HEARTBEAT) => AllOut
  <2>1. \A b \in Buffers : b = EMCY \/ b = TPDO \/ b = SDO \/ b = HEARTBEAT
    BY DEF Buffers, EMCY, TPDO, SDO, HEARTBEAT
  <2> QED  BY <2>1 DEF TxInv, Carried, Third, AllOut
<1>17. TxInv /\ AllOut /\ Sweep(1, 0) => shown = data
  <2> SUFFICES ASSUME TxInv, AllOut, Sweep(1, 0) PROVE shown = data
    OBVIOUS
  <2>1. Len(fifo) = 0
    BY DEF TxInv, TxTypeOK, Sweep
  <2>2. \A b \in Buffers : shown[b] = data[b]
    BY <2>1 DEF AllOut, Out
  <2> QED  BY <2>2 DEF TxInv, TxTypeOK
<1>18. turn = "flush" /\ at = 1 /\ fifo = <<>> => Sweep(1, 0)
  BY DEF Sweep
<1>19. TxFairSpec => []TxInv
  BY TxInvHolds, PTL DEF TxFairSpec
<1>20. TxFairSpec /\ []TxGoesOn => []<><<TxMain>>_txVars
  BY PTL DEF TxFairSpec, TxGoesOn
<1>21. TxFairSpec /\ BusKeepsUp => []<>Sweep(1, 0)
  BY <1>18, PTL DEF BusKeepsUp
<1>22. TxFairSpec /\ []TxGoesOn /\ BusKeepsUp /\ <>[][Quiet]_txVars => <>[]First
  BY <1>2, <1>5, <1>9, <1>19, <1>20, <1>21, PTL DEF TxFairSpec, TxSpec
<1>23. TxFairSpec /\ []TxGoesOn /\ BusKeepsUp /\ <>[][Quiet]_txVars => <>[]Third \/ <>[]AllOut
  BY <1>1, <1>3, <1>4, <1>5, <1>6, <1>7, <1>10, <1>11, <1>12, <1>15, <1>19, <1>20, <1>21,
     <1>22, PTL DEF TxFairSpec, TxSpec
<1>24. TxFairSpec /\ []TxGoesOn /\ BusKeepsUp /\ <>[][Quiet]_txVars => <>[]AllOut
  BY <1>1, <1>5, <1>6, <1>7, <1>8, <1>10, <1>11, <1>13, <1>14, <1>15, <1>16, <1>19, <1>20,
     <1>21, <1>23, PTL DEF TxFairSpec, TxSpec
<1> QED  BY <1>17, <1>19, <1>21, <1>24, PTL

(* On a bus that empties the FIFO again and again the latest of every kind    *)
(* arrives, as soon as two frames fit into the FIFO: no TPDO keeps the       *)
(* answer or the heartbeat out for ever.                                    *)
THEOREM LatestIsShown ==
  ASSUME FifoSize >= 2
  PROVE  TxFairSpec /\ []TxGoesOn /\ NaturalsEnd(Untold, txVars) => LatestArrives
<1>1. TxInv => Untold \in Nat
  BY UntoldFalls DEF TxInv
<1>2. TxInv /\ [TxNext]_txVars => [Untold' <= Untold]_txVars
  BY UntoldFalls DEF TxInv
<1>3. TxInv /\ [TxNext]_txVars => [Quiet]_txVars \/ <<Untold' < Untold>>_txVars
  BY UntoldFalls DEF TxInv
<1>4. TxFairSpec => []TxInv
  BY TxInvHolds, PTL DEF TxFairSpec
<1>5. TxFairSpec /\ NaturalsEnd(Untold, txVars) => <>[][Quiet]_txVars
  BY <1>1, <1>2, <1>3, <1>4, PTL DEF TxFairSpec, TxSpec, NaturalsEnd, FallsForEver
<1> QED  BY <1>5, QuietArrives, PTL DEF LatestArrives, NaturalsEnd, FallsForEver

=============================================================================
