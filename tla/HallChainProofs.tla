--------------------------- MODULE HallChainProofs ---------------------------
(* Proofs about the Hall chain, for every period of the timer, every       *)
(* latency of its interrupt that is short of half a period, every ring of  *)
(* sectors and every burst of edges: what is published is true, and a rotor *)
(* that stops is seen to.                                                  *)
EXTENDS HallChain, Descent, TLAPS

(* An edge of any kind.                                                    *)
LEMMA EdgeCases ==
  ASSUME RotorMoves \/ LineBreaks \/ LineMended
  PROVE  \E to \in Lines : Edge(to)
  BY DEF RotorMoves, LineBreaks, LineMended, Lines

(* The interrupt runs before the counter can wrap over an edge it has not  *)
(* read.                                                                   *)
LEMMA EdgesStayServedInTime ==
  ASSUME IInv, TypeOK', [Next]_vars
  PROVE  EdgesAreServedInTime'
<1> USE PeriodAssumption DEF IInv, EdgesAreServedInTime, ServingPcs, CapturePcs, Pcs,
    UpdatesAreAccountedFor, Times, plantVars, timerLines, timerVars, registerVars, driverVars,
    countVars, controlVars
<1>1. CASE RotorMoves \/ LineBreaks \/ LineMended
  <2>1. PICK to \in Lines : Edge(to)
    BY <1>1, EdgeCases
  <2> QED
    BY <2>1, SMT DEF Edge, TypeOK
<1>2. CASE Count
  <2>1. /\ pc' = pc /\ cc1if' = cc1if
        /\ capture_with_pending_timeout' = capture_with_pending_timeout
        /\ since' = (IF since = Period THEN Period ELSE since + 1)
        /\ counter' = (IF counter = Period - 1 THEN 0 ELSE counter + 1)
    BY <1>2 DEF Count
  <2>2. CASE cc1if \/ uif \/ pc # "idle"
    <3>1. lag < Latency /\ lag' = lag + 1
      BY <1>2, <2>2 DEF Count
    <3> QED
      BY <2>1, <3>1, SMT DEF TypeOK
  <2>3. CASE ~cc1if /\ ~uif /\ pc = "idle"
    <3>1. ~capture_with_pending_timeout
      BY <2>3 DEF UpdatesAreAccountedFor
    <3>2. ~cc1if' /\ pc' = "idle" /\ ~capture_with_pending_timeout'
      BY <2>1, <2>3, <3>1
    <3>3. since' < Period => counter' = since'
      BY <2>1, SMT DEF TypeOK
    <3> QED
      BY <3>2, <3>3, SMT
  <2> QED
    BY <2>2, <2>3
<1>3. CASE EnterCapture
  BY <1>3, SMT DEF EnterCapture, At, TypeOK
<1>4. CASE EnterUpdate
  BY <1>4, SMT DEF EnterUpdate, At, TypeOK
<1>5. CASE ReadCapture
  BY <1>5, SMT DEF ReadCapture, At, TypeOK
<1>6. CASE ReadState
  BY <1>6, SMT DEF ReadState, At, TypeOK
<1>7. CASE Capture
  <2>1. pc = "capture" /\ pc' = (IF update_seen THEN "clearUpdate" ELSE "idle")
    BY <1>7 DEF Capture, At
  <2>2. capture_with_pending_timeout' <=> pending
    BY <1>7 DEF Capture
  <2>3. /\ since' = since /\ counter' = counter /\ cc1if' = cc1if /\ uif' = uif
        /\ lag' = (IF pc' = "idle" THEN 0 ELSE lag)
    BY <1>7 DEF Capture, At
  <2>4. (pending <=> uif) /\ (update_seen <=> uif)
    BY <2>1, SMT DEF UpdatesAreAccountedFor
  <2> QED
    BY <2>1, <2>2, <2>3, <2>4, SMT DEF TypeOK, UpdatesAreAccountedFor
<1>8. CASE ClearUpdate
  BY <1>8, SMT DEF ClearUpdate, At, TypeOK
<1>9. CASE Timeout
  BY <1>9, SMT DEF Timeout, At, TypeOK
<1>10. CASE FastLoop
  BY <1>10, SMT DEF FastLoop, TypeOK
<1>11. CASE UNCHANGED vars
  BY <1>11, SMT DEF vars
<1> QED
  BY <1>1, <1>2, <1>3, <1>4, <1>5, <1>6, <1>7, <1>8, <1>9, <1>10, <1>11
     DEF Next, HallInterrupt

(* Within a capture interrupt no wrap happens, so what it reads of the     *)
(* update flag is what it found on entry.                                  *)
LEMMA UpdatesStayAccountedFor ==
  ASSUME IInv, TypeOK', [Next]_vars
  PROVE  UpdatesAreAccountedFor'
<1> USE PeriodAssumption DEF IInv, UpdatesAreAccountedFor, ServingPcs, CapturePcs, Pcs,
    EdgesAreServedInTime, Times, plantVars, timerLines, timerVars, registerVars, driverVars,
    countVars, controlVars
<1>1. CASE RotorMoves \/ LineBreaks \/ LineMended
  <2>1. PICK to \in Lines : Edge(to)
    BY <1>1, EdgeCases
  <2> QED
    BY <2>1, SMT DEF Edge, TypeOK
<1>2. CASE Count
  BY <1>2, SMT DEF Count, TypeOK
<1>3. CASE EnterCapture
  BY <1>3, SMT DEF EnterCapture, At, TypeOK
<1>4. CASE EnterUpdate
  BY <1>4, SMT DEF EnterUpdate, At, TypeOK
<1>5. CASE ReadCapture
  BY <1>5, SMT DEF ReadCapture, At, TypeOK
<1>6. CASE ReadState
  BY <1>6, SMT DEF ReadState, At, TypeOK
<1>7. CASE Capture
  <2>1. pc = "capture" /\ pc' = (IF update_seen THEN "clearUpdate" ELSE "idle")
    BY <1>7 DEF Capture, At
  <2>2. capture_with_pending_timeout' <=> pending
    BY <1>7 DEF Capture
  <2>3. /\ since' = since /\ counter' = counter /\ cc1if' = cc1if /\ uif' = uif
        /\ lag' = (IF pc' = "idle" THEN 0 ELSE lag)
    BY <1>7 DEF Capture, At
  <2>4. (pending <=> uif) /\ (update_seen <=> uif)
    BY <2>1, SMT DEF UpdatesAreAccountedFor
  <2> QED
    BY <2>1, <2>2, <2>3, <2>4, SMT DEF TypeOK, UpdatesAreAccountedFor
<1>8. CASE ClearUpdate
  BY <1>8, SMT DEF ClearUpdate, At, TypeOK
<1>9. CASE Timeout
  BY <1>9, SMT DEF Timeout, At, TypeOK
<1>10. CASE FastLoop
  BY <1>10, SMT DEF FastLoop, TypeOK
<1>11. CASE UNCHANGED vars
  BY <1>11, SMT DEF vars
<1> QED
  BY <1>1, <1>2, <1>3, <1>4, <1>5, <1>6, <1>7, <1>8, <1>9, <1>10, <1>11
     DEF Next, HallInterrupt

(* A wrap inside an interval is found at its end or costs the reference.   *)
LEMMA ReferenceStaysGood ==
  ASSUME IInv, TypeOK', [Next]_vars
  PROVE  ReferenceIsGood'
<1> USE PeriodAssumption DEF IInv, ReferenceIsGood, ServingPcs, CapturePcs, Pcs,
    EdgesAreServedInTime, UpdatesAreAccountedFor, Times, plantVars, timerLines, timerVars,
    registerVars, driverVars, countVars, controlVars
<1>1. CASE RotorMoves \/ LineBreaks \/ LineMended
  <2>1. PICK to \in Lines : Edge(to)
    BY <1>1, EdgeCases
  <2> QED
    BY <2>1, SMT DEF Edge, TypeOK
<1>2. CASE Count
  BY <1>2, SMT DEF Count, TypeOK
<1>3. CASE EnterCapture
  BY <1>3, SMT DEF EnterCapture, At, TypeOK
<1>4. CASE EnterUpdate
  BY <1>4, SMT DEF EnterUpdate, At, TypeOK
<1>5. CASE ReadCapture
  BY <1>5, SMT DEF ReadCapture, At, TypeOK
<1>6. CASE ReadState
  BY <1>6, SMT DEF ReadState, At, TypeOK
<1>7. CASE Capture
  BY <1>7, SMT DEF Capture, At, Forget, IsInvalidCapture, HasRate, TypeOK
<1>8. CASE ClearUpdate
  BY <1>8, SMT DEF ClearUpdate, At, TypeOK
<1>9. CASE Timeout
  BY <1>9, SMT DEF Timeout, At, TypeOK
<1>10. CASE FastLoop
  BY <1>10, SMT DEF FastLoop, TypeOK
<1>11. CASE UNCHANGED vars
  BY <1>11, SMT DEF vars
<1> QED
  BY <1>1, <1>2, <1>3, <1>4, <1>5, <1>6, <1>7, <1>8, <1>9, <1>10, <1>11
     DEF Next, HallInterrupt

(* No step publishes a rate that was not measured.                         *)
LEMMA RateStaysMeasured ==
  ASSUME IInv, TypeOK', [Next]_vars
  PROVE  RateIsMeasured'
<1> USE PeriodAssumption DEF IInv, RateIsMeasured, ServingPcs, CapturePcs, Pcs,
    ReferenceIsGood, Times, plantVars, timerLines, timerVars, registerVars, driverVars,
    countVars, controlVars
<1>1. CASE RotorMoves \/ LineBreaks \/ LineMended
  <2>1. PICK to \in Lines : Edge(to)
    BY <1>1, EdgeCases
  <2> QED
    BY <2>1, SMT DEF Edge, TypeOK
<1>2. CASE Count
  BY <1>2, SMT DEF Count, TypeOK
<1>3. CASE EnterCapture
  BY <1>3, SMT DEF EnterCapture, At, TypeOK
<1>4. CASE EnterUpdate
  BY <1>4, SMT DEF EnterUpdate, At, TypeOK
<1>5. CASE ReadCapture
  BY <1>5, SMT DEF ReadCapture, At, TypeOK
<1>6. CASE ReadState
  BY <1>6, SMT DEF ReadState, At, TypeOK
<1>7. CASE Capture
  BY <1>7, SMT DEF Capture, At, Forget, IsInvalidCapture, HasRate, TypeOK
<1>8. CASE ClearUpdate
  BY <1>8, SMT DEF ClearUpdate, At, TypeOK
<1>9. CASE Timeout
  BY <1>9, SMT DEF Timeout, At, TypeOK
<1>10. CASE FastLoop
  BY <1>10, SMT DEF FastLoop, TypeOK
<1>11. CASE UNCHANGED vars
  BY <1>11, SMT DEF vars
<1> QED
  BY <1>1, <1>2, <1>3, <1>4, <1>5, <1>6, <1>7, <1>8, <1>9, <1>10, <1>11
     DEF Next, HallInterrupt

(* No step publishes a time-out over a fresh edge, and every edge leads to *)
(* its end.                                                                *)
LEMMA TimeoutStaysReal ==
  ASSUME IInv, TypeOK', [Next]_vars
  PROVE  TimeoutIsReal'
<1> USE PeriodAssumption DEF IInv, TimeoutIsReal, ServingPcs, CapturePcs, Pcs,
    UpdatesAreAccountedFor, EdgesAreServedInTime, Times, plantVars, timerLines, timerVars,
    registerVars, driverVars, countVars, controlVars
<1>1. CASE RotorMoves \/ LineBreaks \/ LineMended
  <2>1. PICK to \in Lines : Edge(to)
    BY <1>1, EdgeCases
  <2> QED
    BY <2>1, SMT DEF Edge, TypeOK
<1>2. CASE Count
  BY <1>2, SMT DEF Count, TypeOK
<1>3. CASE EnterCapture
  BY <1>3, SMT DEF EnterCapture, At, TypeOK
<1>4. CASE EnterUpdate
  BY <1>4, SMT DEF EnterUpdate, At, TypeOK
<1>5. CASE ReadCapture
  BY <1>5, SMT DEF ReadCapture, At, TypeOK
<1>6. CASE ReadState
  BY <1>6, SMT DEF ReadState, At, TypeOK
<1>7. CASE Capture
  BY <1>7, SMT DEF Capture, At, Forget, IsInvalidCapture, HasRate, TypeOK
<1>8. CASE ClearUpdate
  BY <1>8, SMT DEF ClearUpdate, At, TypeOK
<1>9. CASE Timeout
  BY <1>9, SMT DEF Timeout, At, TypeOK
<1>10. CASE FastLoop
  BY <1>10, SMT DEF FastLoop, TypeOK
<1>11. CASE UNCHANGED vars
  BY <1>11, SMT DEF vars
<1> QED
  BY <1>1, <1>2, <1>3, <1>4, <1>5, <1>6, <1>7, <1>8, <1>9, <1>10, <1>11
     DEF Next, HallInterrupt

(* Whatever the decoder decides on, it ends up with the published sector.  *)
LEMMA DecodesPublished ==
  ASSUME TypeOK, SectorsAreAccountedFor, Decode
  PROVE  has_observation' /\ captures' = 0 /\ invalids' = 0 =>
           decoded'.sector = published.hall_state
<1> USE DEF SectorsAreAccountedFor, TypeOK
<1>1. CASE DecodeNothing
  BY <1>1, SMT DEF DecodeNothing, IsChanged
<1>2. CASE DecodeInvalidState
  BY <1>2, SMT DEF DecodeInvalidState, Observe, InvalidState
<1>3. CASE DecodeInvalidCapture
  BY <1>3, SMT DEF DecodeInvalidCapture, Observe, Resynchronized
<1>4. CASE DecodeFirst
  BY <1>4, SMT DEF DecodeFirst, Observe, Resynchronized
<1>5. CASE DecodeTimeout
  BY <1>5, SMT DEF DecodeTimeout, Continues, Observe
<1>6. CASE DecodeMissed
  BY <1>6, SMT DEF DecodeMissed, Observe, Resynchronized
<1>7. CASE DecodeEdge
  BY <1>7, SMT DEF DecodeEdge, Observe, Resynchronized, Direction
<1> QED
  BY <1>1, <1>2, <1>3, <1>4, <1>5, <1>6, <1>7 DEF Decode

(* No edge is forgotten between the lines and the decoder.                 *)
LEMMA SectorsStayAccountedFor ==
  ASSUME IInv, TypeOK', [Next]_vars
  PROVE  SectorsAreAccountedFor'
<1> USE PeriodAssumption DEF IInv, SectorsAreAccountedFor, CapturePcs, Pcs, Times,
    plantVars, timerLines, timerVars, registerVars, driverVars, countVars, controlVars
<1>1. CASE RotorMoves \/ LineBreaks \/ LineMended
  <2>1. PICK to \in Lines : Edge(to)
    BY <1>1, EdgeCases
  <2> QED
    BY <2>1, SMT DEF Edge, TypeOK
<1>2. CASE Count
  BY <1>2, SMT DEF Count, TypeOK
<1>3. CASE EnterCapture
  BY <1>3, SMT DEF EnterCapture, At, TypeOK
<1>4. CASE EnterUpdate
  BY <1>4, SMT DEF EnterUpdate, At, TypeOK
<1>5. CASE ReadCapture
  BY <1>5, SMT DEF ReadCapture, At, TypeOK
<1>6. CASE ReadState
  BY <1>6, SMT DEF ReadState, At, TypeOK
<1>7. CASE Capture
  BY <1>7, SMT DEF Capture, At, Forget, IsInvalidCapture, HasRate, TypeOK
<1>8. CASE ClearUpdate
  BY <1>8, SMT DEF ClearUpdate, At, TypeOK
<1>9. CASE Timeout
  BY <1>9, SMT DEF Timeout, At, TypeOK
<1>10. CASE FastLoop
  <2>1. has_observation' /\ captures' = 0 /\ invalids' = 0 =>
          decoded'.sector = published.hall_state
    BY <1>10, DecodesPublished DEF FastLoop
  <2>2. /\ lost' = lost /\ cc1if' = cc1if /\ pc' = pc /\ seen' = seen /\ line' = line
        /\ published' = published
    BY <1>10 DEF FastLoop
  <2> QED
    BY <2>1, <2>2 DEF TypeOK
<1>11. CASE UNCHANGED vars
  BY <1>11, SMT DEF vars
<1> QED
  BY <1>1, <1>2, <1>3, <1>4, <1>5, <1>6, <1>7, <1>8, <1>9, <1>10, <1>11
     DEF Next, HallInterrupt

(* The types of the decoder.                                               *)
LEMMA DecodeTypes ==
  ASSUME TypeOK, SectorsAreAccountedFor, Decode
  PROVE  /\ decoded' \in Decoded /\ has_observation' \in BOOLEAN /\ status' \in Statuses
         /\ captures' \in 0..2 /\ invalids' \in 0..1
         /\ decoded'.has_valid_speed \/ decoded'.is_angle_from_edge => decoded'.sector # Broken
<1> USE PeriodAssumption DEF TypeOK, Feedback, Decoded, Statuses, Directions, Times, Lines
<1>1. CASE DecodeNothing
  <2>1. UNCHANGED <<decoded, has_observation, captures, invalids>>
    BY <1>1 DEF DecodeNothing, countVars
  <2>2. status' \in Statuses
    BY <1>1 DEF DecodeNothing
  <2> QED
    BY <2>1, <2>2
<1>2. CASE DecodeInvalidState
  BY <1>2, SMT DEF DecodeInvalidState, Observe, InvalidState
<1>3. CASE DecodeInvalidCapture
  BY <1>3, SMT DEF DecodeInvalidCapture, Observe, Resynchronized
<1>4. CASE DecodeFirst
  BY <1>4, SMT DEF DecodeFirst, Observe, Resynchronized
<1>5. CASE DecodeTimeout
  BY <1>5, SMT DEF DecodeTimeout, Continues, Observe
<1>6. CASE DecodeMissed
  BY <1>6, SMT DEF DecodeMissed, Observe, Resynchronized
<1>7. CASE DecodeEdge
  <2>1. Direction(decoded.sector, published.hall_state) \in Directions
    BY DEF Direction
  <2>2. CASE Direction(decoded.sector, published.hall_state) = "unknown"
    <3>1. /\ decoded' = Resynchronized(FALSE) /\ status' = "INVALID_TRANSITION"
          /\ has_observation' = TRUE /\ captures' = 0 /\ invalids' = 0
      BY <1>7, <2>2 DEF DecodeEdge, Observe
    <3>2. published.hall_state \in Sectors
      BY <1>7, SMT DEF DecodeEdge, Continues
    <3> QED
      BY <3>1, <3>2, SMT DEF Resynchronized
  <2>3. CASE Direction(decoded.sector, published.hall_state) # "unknown"
    <3>1. /\ decoded' =
               [sector |-> published.hall_state,
                direction |-> Direction(decoded.sector, published.hall_state),
                interval |-> published.edge_rate,
                has_valid_speed |-> published.has_valid_edge_rate,
                is_angle_from_edge |-> TRUE, is_timed_out |-> FALSE]
          /\ status' = "OK" /\ has_observation' = TRUE /\ captures' = 0 /\ invalids' = 0
      BY <1>7, <2>3 DEF DecodeEdge, Observe
    <3>2. published.hall_state \in Lines /\ published.hall_state # Broken
      BY <1>7, SMT DEF DecodeEdge, Continues
    <3> QED
      BY <2>1, <3>1, <3>2, SMT
  <2> QED
    BY <2>2, <2>3
<1> QED
  BY <1>1, <1>2, <1>3, <1>4, <1>5, <1>6, <1>7 DEF Decode

(* The types of the estimator.                                             *)
LEMMA FollowTypes ==
  ASSUME TypeOK, decoded' \in Decoded, IF status' = "OK" THEN Follow ELSE UNCHANGED
     estimator
  PROVE  estimator' \in Estimate
<1>1. CASE status' = "OK" /\ NewObservation
  <2> DEFINE r == IF Synchronizes THEN <<decoded'.sector, decoded'.direction>>
                                  ELSE estimator.reference
             e == IF Synchronizes THEN decoded'.is_angle_from_edge
                                  ELSE estimator.has_edge_reference
  <2>1. /\ decoded'.sector \in Lines /\ decoded'.direction \in Directions
        /\ decoded'.interval \in Times /\ decoded'.has_valid_speed \in BOOLEAN
        /\ decoded'.is_angle_from_edge \in BOOLEAN /\ decoded'.is_timed_out \in BOOLEAN
        /\ estimator.reference \in Lines \X Directions
        /\ estimator.has_edge_reference \in BOOLEAN
    BY SMT DEF TypeOK, Decoded, Estimate
  <2>2. r \in Lines \X Directions
    BY <2>1
  <2>3. e \in BOOLEAN
    BY <2>1
  <2>4. estimator' =
          [has_observation |-> TRUE, sector |-> decoded'.sector,
           has_valid_speed |-> decoded'.has_valid_speed, interval |-> decoded'.interval,
           is_angle_from_edge |-> decoded'.is_angle_from_edge,
           is_timed_out |-> decoded'.is_timed_out, reference |-> r,
           has_edge_reference |-> e]
    BY <1>1 DEF Follow
  <2> HIDE DEF r, e
  <2> QED
    BY <2>1, <2>2, <2>3, <2>4 DEF Estimate
<1>2. CASE ~(status' = "OK" /\ NewObservation)
  BY <1>2 DEF Follow, TypeOK
<1> QED
  BY <1>1, <1>2

(* Every step keeps the types.                                             *)
LEMMA TypeIsKept ==
  ASSUME IInv, [Next]_vars
  PROVE  TypeOK'
<1> USE PeriodAssumption, SectorAssumption, BurstAssumption
    DEF IInv, TypeOK, Times, Lines, Pcs, CapturePcs, Directions, Statuses
<1>1. CASE RotorMoves \/ LineBreaks \/ LineMended
  <2>1. PICK to \in Lines : Edge(to)
    BY <1>1, EdgeCases
  <2>2. /\ lost' \in BOOLEAN /\ clean' \in BOOLEAN /\ cc1if' \in BOOLEAN /\ cc1of' \in BOOLEAN
    BY <2>1 DEF Edge
  <2>3. way' \in Directions
    BY <2>1 DEF Edge, Direction
  <2>4. line' \in Lines /\ since' \in Times /\ span' \in Times /\ counter' \in 0..(Period - 1)
    BY <2>1, SMT DEF Edge
  <2>5. ccr' \in 0..(Period - 1) /\ burst' \in 0..Burst
    BY <2>1, SMT DEF Edge
  <2> QED
    BY <2>1, <2>2, <2>3, <2>4, <2>5 DEF Edge, plantVars, timerLines, timerVars,
       registerVars, driverVars, countVars, controlVars
<1>2. CASE Count
  <2>1. uif' \in BOOLEAN
    BY <1>2 DEF Count
  <2> QED
    BY <1>2, <2>1, SMT DEF Count, plantVars, timerLines, timerVars, registerVars,
       driverVars, countVars, controlVars
<1>3. CASE EnterCapture
  <2>1. /\ cc1if' \in BOOLEAN /\ update_seen' \in BOOLEAN
    BY <1>3 DEF EnterCapture, At
  <2> QED
    BY <1>3, <2>1, SMT DEF EnterCapture, At, plantVars, timerLines, timerVars,
       registerVars, driverVars, countVars, controlVars
<1>4. CASE EnterUpdate
  <2>1. uif' \in BOOLEAN
    BY <1>4 DEF EnterUpdate, At
  <2> QED
    BY <1>4, <2>1, SMT DEF EnterUpdate, At, plantVars, timerLines, timerVars,
       registerVars, driverVars, countVars, controlVars
<1>5. CASE ReadCapture
  <2>1. /\ cc1if' \in BOOLEAN /\ over' \in BOOLEAN
        /\ pending' \in BOOLEAN
    BY <1>5 DEF ReadCapture, At
  <2> QED
    BY <1>5, <2>1, SMT DEF ReadCapture, At, plantVars, timerLines, timerVars,
       registerVars, driverVars, countVars, controlVars
<1>6. CASE ReadState
  BY <1>6, SMT DEF ReadState, At, plantVars, timerLines, timerVars, registerVars,
     driverVars, countVars, controlVars
<1>7. CASE Capture
  <2>1. /\ cc1of' \in BOOLEAN /\ over' \in BOOLEAN
        /\ pending' \in BOOLEAN /\ update_seen' \in BOOLEAN
        /\ has_valid_interval_reference' \in BOOLEAN /\ capture_with_pending_timeout' \in BOOLEAN
    BY <1>7 DEF Capture, At, Forget, HasRate, IsInvalidCapture, Feedback
  <2> QED
    BY <1>7, <2>1, SMT DEF Capture, At, Forget, HasRate, IsInvalidCapture, Feedback,
       plantVars, timerLines, timerVars, registerVars, driverVars, countVars, controlVars
<1>8. CASE ClearUpdate
  <2>1. uif' \in BOOLEAN
    BY <1>8 DEF ClearUpdate, At
  <2> QED
    BY <1>8, <2>1, SMT DEF ClearUpdate, At, plantVars, timerLines, timerVars,
       registerVars, driverVars, countVars, controlVars
<1>9. CASE Timeout
  <2>1. /\ has_valid_interval_reference' \in BOOLEAN /\ capture_with_pending_timeout' \in BOOLEAN
    BY <1>9 DEF Timeout, At, Feedback
  <2> QED
    BY <1>9, <2>1, SMT DEF Timeout, At, Feedback, plantVars, timerLines, timerVars,
       registerVars, driverVars, countVars, controlVars
<1>10. CASE FastLoop
  <2>1. /\ decoded' \in Decoded /\ has_observation' \in BOOLEAN /\ status' \in Statuses
        /\ captures' \in 0..2 /\ invalids' \in 0..1
        /\ decoded'.has_valid_speed \/ decoded'.is_angle_from_edge => decoded'.sector # Broken
    BY <1>10, DecodeTypes DEF FastLoop
  <2>2. estimator' \in Estimate
    BY <1>10, <2>1, FollowTypes DEF FastLoop
  <2> QED
    BY <1>10, <2>1, <2>2 DEF FastLoop, plantVars, timerLines, timerVars, registerVars,
       driverVars, countVars, controlVars
<1>11. CASE UNCHANGED vars
  BY <1>11, SMT DEF vars, plantVars, timerLines, timerVars, registerVars, driverVars,
     countVars, controlVars
<1> QED
  BY <1>1, <1>2, <1>3, <1>4, <1>5, <1>6, <1>7, <1>8, <1>9, <1>10, <1>11
     DEF Next, HallInterrupt

(* The invariant holds of every start.                                     *)
LEMMA InitHolds == Init => IInv
<1> SUFFICES ASSUME Init PROVE IInv
  OBVIOUS
<1> USE PeriodAssumption, SectorAssumption, BurstAssumption DEF Init
<1>1. line \in Lines /\ published \in Feedback /\ published.has_valid_edge_rate = FALSE
        /\ published.is_timed_out = FALSE
  BY SMT DEF Lines, Feedback, Times
<1>2. decoded \in Decoded /\ estimator \in Estimate
  BY SMT DEF Decoded, Estimate, Lines, Times, Directions
<1>3. lost \in BOOLEAN /\ clean \in BOOLEAN /\ (lost \/ published.hall_state = line)
  <2>1. PICK read \in Sectors :
          /\ published = [hall_state |-> read, edge_rate |-> Period, interval |-> Period,
                          has_valid_edge_rate |-> FALSE, is_timed_out |-> FALSE]
          /\ lost = (read # line)
    OBVIOUS
  <2>2. lost \in BOOLEAN /\ clean \in BOOLEAN /\ (lost \/ read = line)
    BY <2>1
  <2> QED
    BY <2>1, <2>2
<1>4. TypeOK
  <2>1. seen \in Lines
    BY DEF Lines
  <2>2. decoded.has_valid_speed = FALSE /\ decoded.is_angle_from_edge = FALSE
    OBVIOUS
  <2>3. /\ since \in Times /\ span \in Times /\ burst \in 0..Burst
        /\ counter \in 0..(Period - 1) /\ ccr \in 0..(Period - 1) /\ lag \in 0..Latency
        /\ ticks \in 0..(Period - 1) /\ ticks_span \in Times
        /\ captures \in 0..2 /\ invalids \in 0..1
    BY SMT DEF Times
  <2>4. way \in Directions /\ pc \in Pcs /\ status \in Statuses
    BY DEF Directions, Pcs, Statuses
  <2> QED
    BY <1>1, <1>2, <1>3, <2>1, <2>2, <2>3, <2>4 DEF TypeOK
<1>5. EdgesAreServedInTime /\ UpdatesAreAccountedFor /\ ReferenceIsGood
  BY SMT DEF EdgesAreServedInTime, UpdatesAreAccountedFor, ReferenceIsGood, ServingPcs,
     CapturePcs
<1>6. SectorsAreAccountedFor /\ RateIsMeasured /\ TimeoutIsReal
  BY <1>1, <1>3 DEF SectorsAreAccountedFor, RateIsMeasured, TimeoutIsReal
<1> QED
  BY <1>4, <1>5, <1>6 DEF IInv

(* Every step keeps the invariant.                                         *)
LEMMA StepKeeps == IInv /\ [Next]_vars => IInv'
<1> SUFFICES ASSUME IInv, [Next]_vars PROVE IInv'
  OBVIOUS
<1>1. TypeOK'
  BY TypeIsKept
<1> QED
  BY <1>1, EdgesStayServedInTime, UpdatesStayAccountedFor, ReferenceStaysGood,
     SectorsStayAccountedFor, RateStaysMeasured, TimeoutStaysReal DEF IInv

(* The inductive invariant holds in every behaviour.                       *)
THEOREM Invariance == Spec => []IInv
  BY InitHolds, StepKeeps, PTL DEF Spec

(* Every variable keeps its type, and no speed or angle of the decoder is  *)
(* valid without a sector (hall_decoder_set_invalid_state).                *)
THEOREM TypeCorrect == Spec => []TypeOK
<1>1. IInv => TypeOK
  BY DEF IInv
<1> QED
  BY <1>1, Invariance, PTL

(* An edge rate that hall_driver_handle_capture() calls valid is the time  *)
(* between two consecutive edges.                                          *)
THEOREM RatesAreMeasured == Spec => []RateIsMeasured
<1>1. IInv => RateIsMeasured
  BY DEF IInv
<1> QED
  BY <1>1, Invariance, PTL

(* hall_driver_handle_timeout() publishes a time-out only of lines that    *)
(* have been quiet for a period, and the next edge ends it.                *)
THEOREM TimeoutsAreReal == Spec => []TimeoutIsReal
<1>1. IInv => TimeoutIsReal
  BY DEF IInv
<1> QED
  BY <1>1, Invariance, PTL

(* Whatever edges were lost or bunched, the decoder at rest has the sector *)
(* of the rotor.                                                           *)
THEOREM SectorsSettle == Spec => []SectorSettles
<1>1. IInv => SectorSettles
  BY SMT DEF IInv, SectorsAreAccountedFor, SectorSettles, Settled, IsChanged, CapturePcs,
     TypeOK
<1> QED
  BY <1>1, Invariance, PTL

(* An overcapture is found by the next capture that is read.               *)
LEMMA OvercapturesStayAccountedFor ==
  ASSUME OvercapturesAreAccountedFor, [Next]_vars
  PROVE  OvercapturesAreAccountedFor'
<1> USE PeriodAssumption, SectorAssumption DEF OvercapturesAreAccountedFor, plantVars,
    timerLines, timerVars, registerVars, driverVars, countVars, controlVars
<1>1. CASE RotorMoves \/ LineBreaks \/ LineMended
  <2>1. PICK to \in Lines : Edge(to)
    BY <1>1, EdgeCases
  <2> QED
    BY <2>1, SMT DEF Edge
<1>2. CASE Count
  BY <1>2, SMT DEF Count
<1>3. CASE EnterCapture
  BY <1>3, SMT DEF EnterCapture, At
<1>4. CASE EnterUpdate
  BY <1>4, SMT DEF EnterUpdate, At
<1>5. CASE ReadCapture
  BY <1>5, SMT DEF ReadCapture, At
<1>6. CASE ReadState
  BY <1>6, SMT DEF ReadState, At
<1>7. CASE Capture
  <2>1. pc = "capture" /\ cc1if' = cc1if /\ (cc1of' => cc1of /\ ~over)
    BY <1>7 DEF Capture, At
  <2> QED
    BY <2>1
<1>8. CASE ClearUpdate
  BY <1>8, SMT DEF ClearUpdate, At
<1>9. CASE Timeout
  BY <1>9, SMT DEF Timeout, At
<1>10. CASE FastLoop
  BY <1>10, SMT DEF FastLoop
<1>11. CASE UNCHANGED vars
  BY <1>11, SMT DEF vars
<1> QED
  BY <1>1, <1>2, <1>3, <1>4, <1>5, <1>6, <1>7, <1>8, <1>9, <1>10, <1>11
     DEF Next, HallInterrupt

(* A clean edge is a move of the rotor that met a chain at rest.             *)
LEMMA CleanEdge ==
  ASSUME IInv, ChainIsCoherent, RotorMoves \/ LineBreaks \/ LineMended, clean'
  PROVE  \E to \in Sectors :
           /\ Edge(to) /\ Consumed /\ ~lost /\ ~cc1of /\ status = "OK"
           /\ line # Broken /\ to # Broken /\ counter # 0 /\ published.hall_state = line
           /\ Direction(line, to) # "unknown" /\ way' = Direction(line, to)
<1>1. PICK to \in Lines : Edge(to)
  BY EdgeCases
<1>2. Consumed /\ counter # 0 /\ line # Broken /\ to # Broken /\ (clean \/ Recovered)
  BY <1>1 DEF Edge
<1>3. Direction(line, to) # "unknown" /\ way' = Direction(line, to) /\ to \in Sectors
  <2>1. line' = to /\ way' = Direction(line, to) /\ to \in Sectors
    BY <1>1, <1>2 DEF Edge, Lines
  <2>2. Direction(line, line') # "unknown"
    <3>1. CASE RotorMoves
      BY <3>1, Zenon DEF RotorMoves, Edge
    <3>2. CASE LineBreaks
      BY <3>2, <1>2, <2>1 DEF LineBreaks, Edge
    <3>3. CASE LineMended
      BY <3>3, <1>2 DEF LineMended
    <3> QED
      BY <3>1, <3>2, <3>3
  <2> QED
    BY <2>1, <2>2
<1>4. ~lost /\ status = "OK"
  BY <1>2 DEF Recovered, Settled, ChainIsCoherent, EdgeIsAlone
<1>5. ~cc1of
  BY <1>2 DEF Consumed, CapturePcs, ChainIsCoherent, OvercapturesAreAccountedFor
<1>6. published.hall_state = line
  BY <1>2, <1>4 DEF Consumed, CapturePcs, IInv, SectorsAreAccountedFor
<1> QED
  BY <1>1, <1>2, <1>3, <1>4, <1>5, <1>6

(* What a capture interrupt finds of a clean edge is valid.                 *)
LEMMA CleanCapture ==
  ASSUME IInv, ChainIsCoherent, Capture, clean
  PROVE  /\ ~IsInvalidCapture /\ seen = line /\ captures' = 1 /\ invalids' = 0
         /\ published'.hall_state = line /\ ~cc1of'
         /\ has_observation => decoded.sector = published.hall_state
<1>1. pc = "capture"
  BY DEF Capture, At
<1>2. /\ ~lost /\ ~cc1if /\ ~cc1of /\ captures = 0 /\ invalids = 0 /\ ticks # 0 /\ ~over
      /\ way # "unknown" /\ way = Direction(published.hall_state, line)
      /\ Broken \notin {line, published.hall_state}
  BY <1>1 DEF ChainIsCoherent, EdgeIsAlone, CapturePcs
<1>3. seen = line /\ (has_observation => decoded.sector = published.hall_state)
  BY <1>1, <1>2 DEF IInv, SectorsAreAccountedFor
<1>4. published.hall_state # line
  <2>1. published.hall_state \in Sectors
    BY <1>2, SMT DEF IInv, TypeOK, Feedback, Lines
  <2>2. Direction(published.hall_state, published.hall_state) = "unknown"
    BY <2>1, SectorAssumption, Zenon DEF Direction
  <2> QED
    BY <1>2, <2>2
<1>5. ~IsInvalidCapture
  BY <1>2, <1>3, <1>4 DEF IsInvalidCapture
<1>6. captures' = 1 /\ invalids' = 0 /\ published'.hall_state = line
  BY <1>2, <1>3, <1>5, SMT DEF Capture
<1>7. ~cc1of'
  BY <1>2 DEF Capture
<1> QED
  BY <1>2, <1>3, <1>5, <1>6, <1>7

(* Of a clean edge, or of none, the decoder makes no failure; the edge it     *)
(* takes is that of the rotor.                                              *)
LEMMA CleanDecode ==
  ASSUME IInv, ChainIsCoherent, Decode, clean
  PROVE  /\ status' = "OK" /\ captures' = 0 /\ invalids' = 0
         /\ captures = 0 /\ decoded'.has_valid_speed /\ ~decoded'.is_timed_out =>
              decoded' = decoded
         /\ captures = 1 /\ decoded'.has_valid_speed /\ ~decoded'.is_timed_out =>
              /\ decoded'.direction = way /\ decoded'.interval = published.edge_rate
              /\ published.has_valid_edge_rate
<1>1. /\ invalids = 0 /\ captures \in {0, 1} /\ published.hall_state # Broken
      /\ status = "OK" /\ (has_observation => decoded.sector # Broken)
  BY SMT DEF IInv, TypeOK, SectorsAreAccountedFor, ChainIsCoherent, EdgeIsAlone
<1>2. captures = 1 => /\ way # "unknown"
                      /\ has_observation => way = Direction(decoded.sector, published.hall_state)
  BY DEF ChainIsCoherent, EdgeIsAlone
<1>3. CASE DecodeNothing
  BY <1>1, <1>3, SMT DEF DecodeNothing, IsChanged, countVars
<1>4. CASE DecodeInvalidState
  BY <1>1, <1>4 DEF DecodeInvalidState
<1>5. CASE DecodeInvalidCapture
  BY <1>1, <1>5 DEF DecodeInvalidCapture
<1>6. CASE DecodeFirst
  BY <1>6, Zenon DEF DecodeFirst, Observe, Resynchronized
<1>7. CASE DecodeTimeout
  BY <1>7, Zenon DEF DecodeTimeout, Continues, Observe
<1>8. CASE DecodeMissed
  BY <1>1, <1>8 DEF DecodeMissed
<1>9. CASE DecodeEdge
  <2>1. captures = 1 /\ Direction(decoded.sector, published.hall_state) = way /\ way # "unknown"
    BY <1>2, <1>9 DEF DecodeEdge, Continues
  <2>2. /\ status' = "OK" /\ captures' = 0 /\ invalids' = 0
        /\ decoded' = [sector |-> published.hall_state, direction |-> way,
                       interval |-> published.edge_rate,
                       has_valid_speed |-> published.has_valid_edge_rate,
                       is_angle_from_edge |-> TRUE, is_timed_out |-> FALSE]
    BY <1>9, <2>1 DEF DecodeEdge, Observe
  <2> QED
    BY <2>1, <2>2
<1> QED
  BY <1>3, <1>4, <1>5, <1>6, <1>7, <1>8, <1>9 DEF Decode

(* A clean edge meets nothing of an earlier one on its way.                *)
LEMMA EdgeStaysAlone ==
  ASSUME IInv, ChainIsCoherent, TypeOK', [Next]_vars
  PROVE  EdgeIsAlone'
<1> USE PeriodAssumption, SectorAssumption DEF IInv, ChainIsCoherent, EdgeIsAlone, CapturePcs, plantVars,
    timerLines, timerVars, registerVars, driverVars, countVars, controlVars
<1>1. CASE RotorMoves \/ LineBreaks \/ LineMended
  <2> SUFFICES ASSUME clean' PROVE EdgeIsAlone'
    BY DEF EdgeIsAlone
  <2>1. PICK to \in Sectors :
          /\ Edge(to) /\ Consumed /\ ~lost /\ ~cc1of /\ status = "OK"
          /\ line # Broken /\ to # Broken /\ counter # 0 /\ published.hall_state = line
          /\ Direction(line, to) # "unknown" /\ way' = Direction(line, to)
    BY <1>1, CleanEdge
  <2>2. ~lost' /\ ~cc1of' /\ invalids' = 0 /\ captures' = 0 /\ status' = "OK"
    BY <2>1 DEF Edge, Consumed
  <2>3. pc' \notin CapturePcs /\ ccr' # 0 /\ line' = to /\ published' = published
    BY <2>1 DEF Edge, Consumed
  <2> QED
    BY <2>1, <2>2, <2>3, SMT
<1>2. CASE Count
  BY <1>2, SMT DEF Count
<1>3. CASE EnterCapture
  BY <1>3, SMT DEF EnterCapture, At
<1>4. CASE EnterUpdate
  BY <1>4, SMT DEF EnterUpdate, At
<1>5. CASE ReadCapture
  BY <1>5, SMT DEF ReadCapture, At
<1>6. CASE ReadState
  BY <1>6, SMT DEF ReadState, At
<1>7. CASE Capture
  <2> SUFFICES ASSUME clean' PROVE EdgeIsAlone'
    BY DEF EdgeIsAlone
  <2>1. /\ pc = "capture" /\ pc' \in {"clearUpdate", "idle"} /\ cc1if' = cc1if /\ clean
        /\ UNCHANGED <<lost, status, line, way, decoded, has_observation>>
    BY <1>7 DEF Capture, At
  <2>2. /\ seen = line /\ captures' = 1 /\ invalids' = 0 /\ published'.hall_state = line
        /\ ~cc1of' /\ (has_observation => decoded.sector = published.hall_state)
    BY <1>7, <2>1, CleanCapture
  <2>3. ~cc1if'
    BY <2>1
  <2> QED
    BY <2>1, <2>2, <2>3, SMT
<1>8. CASE ClearUpdate
  BY <1>8, SMT DEF ClearUpdate, At
<1>9. CASE Timeout
  BY <1>9, SMT DEF Timeout, At
<1>10. CASE FastLoop
  <2> SUFFICES ASSUME clean' PROVE EdgeIsAlone'
    BY DEF EdgeIsAlone
  <2>1. UNCHANGED <<plantVars, timerVars, pc, registerVars, published>> /\ clean /\ Decode
    BY <1>10 DEF FastLoop
  <2>2. status' = "OK" /\ captures' = 0 /\ invalids' = 0
    BY <2>1, CleanDecode
  <2> QED
    BY <2>1, <2>2, SMT
<1>11. CASE UNCHANGED vars
  BY <1>11, SMT DEF vars
<1> QED
  BY <1>1, <1>2, <1>3, <1>4, <1>5, <1>6, <1>7, <1>8, <1>9, <1>10, <1>11
     DEF Next, HallInterrupt

(* Its interval goes with it.                                              *)
LEMMA EdgeStaysMeasured ==
  ASSUME IInv, ChainIsCoherent, TypeOK', [Next]_vars
  PROVE  EdgeIsMeasured'
<1> USE PeriodAssumption, SectorAssumption DEF IInv, ChainIsCoherent, EdgeIsMeasured, EdgeIsAlone,
   Consumed, CapturePcs, plantVars,
    timerLines, timerVars, registerVars, driverVars, countVars, controlVars
<1>1. CASE RotorMoves \/ LineBreaks \/ LineMended
  <2> SUFFICES ASSUME clean' PROVE EdgeIsMeasured'
    BY DEF EdgeIsMeasured
  <2>1. \E to \in Sectors : Edge(to) /\ Consumed
    BY <1>1, CleanEdge
  <2>2. cc1if' /\ captures' = 0 /\ pc' \notin CapturePcs
    BY <2>1 DEF Edge, Consumed
  <2> QED
    BY <2>2, SMT
<1>2. CASE Count
  BY <1>2, SMT DEF Count
<1>3. CASE EnterCapture
  BY <1>3, SMT DEF EnterCapture, At
<1>4. CASE EnterUpdate
  BY <1>4, SMT DEF EnterUpdate, At
<1>5. CASE ReadCapture
  BY <1>5, SMT DEF ReadCapture, At
<1>6. CASE ReadState
  BY <1>6, SMT DEF ReadState, At
<1>7. CASE Capture
  <2> SUFFICES ASSUME clean' PROVE EdgeIsMeasured'
    BY DEF EdgeIsMeasured
  <2>1. /\ pc = "capture" /\ pc' \in {"clearUpdate", "idle"} /\ clean /\ span' = span
        /\ ticks_span = span
    BY <1>7 DEF Capture, At
  <2>2. captures' = 1
    BY <1>7, <2>1, CleanCapture
  <2>3. published'.has_valid_edge_rate => published'.interval = ticks_span
    BY <1>7 DEF Capture
  <2> QED
    BY <2>1, <2>2, <2>3, SMT
<1>8. CASE ClearUpdate
  BY <1>8, SMT DEF ClearUpdate, At
<1>9. CASE Timeout
  BY <1>9, SMT DEF Timeout, At
<1>10. CASE FastLoop
  <2> SUFFICES ASSUME clean' PROVE EdgeIsMeasured'
    BY DEF EdgeIsMeasured
  <2>1. UNCHANGED <<plantVars, timerVars, pc, registerVars, published>> /\ clean /\ Decode
    BY <1>10 DEF FastLoop
  <2>2. captures' = 0 /\ captures \in {0, 1} /\ invalids = 0
    BY <2>1, CleanDecode, SMT DEF TypeOK
  <2>3. Consumed' /\ decoded'.has_valid_speed /\ ~decoded'.is_timed_out =>
          decoded'.direction = way /\ decoded'.interval = span
    <3> SUFFICES ASSUME Consumed', decoded'.has_valid_speed, ~decoded'.is_timed_out
                 PROVE  decoded'.direction = way /\ decoded'.interval = span
      OBVIOUS
    <3>1. ~cc1if /\ pc \notin CapturePcs
      BY <2>1
    <3>2. CASE captures = 0
      BY <2>1, <2>2, <3>1, <3>2, CleanDecode
    <3>3. CASE captures = 1
      BY <2>1, <3>3, CleanDecode DEF RateIsMeasured
    <3> QED
      BY <2>2, <3>2, <3>3
  <2> QED
    BY <2>1, <2>2, <2>3, SMT
<1>11. CASE UNCHANGED vars
  BY <1>11, SMT DEF vars
<1> QED
  BY <1>1, <1>2, <1>3, <1>4, <1>5, <1>6, <1>7, <1>8, <1>9, <1>10, <1>11
     DEF Next, HallInterrupt

(* The decoder's cases keep what an observation without an edge says.        *)
LEMMA DecodesCoherently ==
  ASSUME TypeOK, DecoderIsCoherent, Decode
  PROVE  /\ ~decoded'.is_angle_from_edge =>
              decoded'.direction = "unknown" /\ decoded'.interval = Period
         /\ ~decoded'.has_valid_speed \/ decoded'.is_timed_out => decoded'.interval = Period
         /\ decoded'.is_angle_from_edge => status' = "OK"
<1> USE DEF DecoderIsCoherent
<1>1. CASE DecodeNothing
  <2>1. decoded' = decoded /\ (decoded.sector # Broken => status' = "OK")
    BY <1>1 DEF DecodeNothing
  <2>2. decoded.is_angle_from_edge => decoded.sector # Broken
    BY DEF TypeOK
  <2> QED
    BY <2>1, <2>2
<1>2. CASE DecodeInvalidState
  BY <1>2 DEF DecodeInvalidState, Observe, InvalidState
<1>3. CASE DecodeInvalidCapture
  BY <1>3 DEF DecodeInvalidCapture, Observe, Resynchronized
<1>4. CASE DecodeFirst
  BY <1>4 DEF DecodeFirst, Observe, Resynchronized
<1>5. CASE DecodeTimeout
  BY <1>5 DEF DecodeTimeout, Observe
<1>6. CASE DecodeMissed
  BY <1>6 DEF DecodeMissed, Observe, Resynchronized
<1>7. CASE DecodeEdge
  <2>1. CASE Direction(decoded.sector, published.hall_state) = "unknown"
    BY <1>7, <2>1 DEF DecodeEdge, Observe, Resynchronized
  <2>2. CASE Direction(decoded.sector, published.hall_state) # "unknown"
    BY <1>7, <2>2 DEF DecodeEdge, Observe
  <2> QED
    BY <2>1, <2>2
<1> QED
  BY <1>1, <1>2, <1>3, <1>4, <1>5, <1>6, <1>7 DEF Decode

(* Every step keeps it.                                                    *)
LEMMA DecoderStaysCoherent ==
  ASSUME IInv, ChainIsCoherent, [Next]_vars
  PROVE  DecoderIsCoherent'
<1> USE DEF DecoderIsCoherent, ChainIsCoherent, plantVars, timerVars, timerLines,
    registerVars, driverVars, countVars, controlVars
<1>1. CASE RotorMoves \/ LineBreaks \/ LineMended
  <2>1. PICK to \in Lines : Edge(to)
    BY <1>1, EdgeCases
  <2> QED
    BY <2>1 DEF Edge
<1>2. CASE Count
  BY <1>2 DEF Count
<1>3. CASE EnterCapture \/ EnterUpdate \/ ReadCapture \/ ReadState \/ ClearUpdate
  BY <1>3 DEF EnterCapture, EnterUpdate, ReadCapture, ReadState, ClearUpdate, At
<1>4. CASE Capture
  <2>1. ~published'.has_valid_edge_rate => published'.edge_rate = Period
    BY <1>4 DEF Capture
  <2>2. UNCHANGED <<decoded, status>>
    BY <1>4 DEF Capture, At
  <2> QED
    BY <2>1, <2>2
<1>5. CASE Timeout
  <2>1. published'.edge_rate = Period
    BY <1>5 DEF Timeout
  <2>2. UNCHANGED <<decoded, status>>
    BY <1>5 DEF Timeout, At
  <2> QED
    BY <2>1, <2>2
<1>6. CASE FastLoop
  <2>1. published' = published /\ Decode
    BY <1>6 DEF FastLoop
  <2> QED
    BY <2>1, DecodesCoherently DEF IInv
<1>7. CASE UNCHANGED vars
  BY <1>7 DEF vars
<1> QED
  BY <1>1, <1>2, <1>3, <1>4, <1>5, <1>6, <1>7 DEF Next, HallInterrupt

(* What the decoder's success leaves to the estimator: an edge that is a new *)
(* transition, an angle without an edge, or the angle of the last success.  *)
LEMMA DecodeSucceeds ==
  ASSUME TypeOK, DecoderIsCoherent, Decode, status' = "OK"
  PROVE  /\ has_observation'
         /\ \/ captures = 1 /\ decoded'.is_angle_from_edge
            \/ ~decoded'.is_angle_from_edge
            \/ /\ status = "OK" /\ has_observation
               /\ decoded'.sector = decoded.sector /\ decoded'.direction = decoded.direction
               /\ decoded'.is_angle_from_edge = decoded.is_angle_from_edge
               /\ decoded' = decoded \/ decoded'.is_timed_out # decoded.is_timed_out
<1>1. CASE DecodeNothing
  <2>1. decoded' = decoded /\ has_observation' = has_observation /\ has_observation
    BY <1>1 DEF DecodeNothing, IsChanged
  <2> QED
    BY <2>1 DEF DecoderIsCoherent
<1>2. CASE DecodeInvalidState
  BY <1>2 DEF DecodeInvalidState
<1>3. CASE DecodeInvalidCapture
  BY <1>3 DEF DecodeInvalidCapture
<1>4. CASE DecodeFirst
  BY <1>4 DEF DecodeFirst, Observe, Resynchronized
<1>5. CASE DecodeTimeout
  <2>1. /\ has_observation /\ has_observation' /\ decoded'.sector = decoded.sector
        /\ decoded'.direction = decoded.direction
        /\ decoded'.is_angle_from_edge = decoded.is_angle_from_edge
        /\ decoded'.is_timed_out = published.is_timed_out
        /\ published.is_timed_out # decoded.is_timed_out
    BY <1>5 DEF DecodeTimeout, Observe, Continues
  <2> QED
    BY <2>1 DEF DecoderIsCoherent
<1>6. CASE DecodeMissed
  BY <1>6 DEF DecodeMissed
<1>7. CASE DecodeEdge
  <2>1. CASE Direction(decoded.sector, published.hall_state) = "unknown"
    BY <1>7, <2>1 DEF DecodeEdge
  <2>2. CASE Direction(decoded.sector, published.hall_state) # "unknown"
    BY <1>7, <2>2 DEF DecodeEdge, Observe
  <2> QED
    BY <2>1, <2>2
<1> QED
  BY <1>1, <1>2, <1>3, <1>4, <1>5, <1>6, <1>7 DEF Decode

(* After a success the estimator stands where the decoder does.             *)
LEMMA FollowsDecoder ==
  ASSUME TypeOK, TypeOK', DecoderIsCoherent, DecoderIsCoherent', EstimatorMirrors,
         EstimatorIsCoherent, EstimatorFollows, Decode, status' = "OK", Follow
  PROVE  EstimatorMirrors' /\ EstimatorIsCoherent' /\ EstimatorFollows'
<1>1. /\ estimator.has_edge_reference \in BOOLEAN /\ estimator.is_angle_from_edge \in BOOLEAN
      /\ decoded'.is_angle_from_edge \in BOOLEAN /\ decoded.is_angle_from_edge \in BOOLEAN
  BY SMT DEF TypeOK, Estimate, Decoded
<1>2. /\ ~decoded'.is_angle_from_edge =>
           decoded'.direction = "unknown" /\ decoded'.interval = Period
      /\ has_observation'
  BY DecodeSucceeds DEF DecoderIsCoherent
<1>3. ~(captures = 1 /\ decoded'.is_angle_from_edge) /\ decoded'.is_angle_from_edge =>
        /\ status = "OK" /\ has_observation
        /\ decoded'.sector = decoded.sector /\ decoded'.direction = decoded.direction
        /\ decoded'.is_angle_from_edge = decoded.is_angle_from_edge
        /\ decoded' = decoded \/ decoded'.is_timed_out # decoded.is_timed_out
  BY DecodeSucceeds
<1>4. CASE NewObservation
  <2> DEFINE r == IF Synchronizes THEN <<decoded'.sector, decoded'.direction>>
                                  ELSE estimator.reference
             e == IF Synchronizes THEN decoded'.is_angle_from_edge
                                  ELSE estimator.has_edge_reference
  <2>1. estimator' =
          [has_observation |-> TRUE, sector |-> decoded'.sector,
           has_valid_speed |-> decoded'.has_valid_speed, interval |-> decoded'.interval,
           is_angle_from_edge |-> decoded'.is_angle_from_edge,
           is_timed_out |-> decoded'.is_timed_out, reference |-> r,
           has_edge_reference |-> e]
    BY <1>4 DEF Follow
  <2>2. r = <<decoded'.sector, decoded'.direction>> /\ e = decoded'.is_angle_from_edge
    <3>1. CASE Synchronizes
      BY <3>1
    <3>2. CASE ~Synchronizes
      <4>1. /\ decoded'.is_angle_from_edge /\ estimator.has_observation
            /\ ~(captures = 1 /\ decoded'.is_angle_from_edge)
        BY <3>2 DEF Synchronizes, NewTransition
      <4>2. /\ estimator.reference = <<decoded.sector, decoded.direction>>
            /\ estimator.has_edge_reference = decoded.is_angle_from_edge
        BY <1>3, <4>1 DEF EstimatorFollows
      <4> QED
        BY <1>3, <3>2, <4>1, <4>2
    <3> QED
      BY <3>1, <3>2
  <2> HIDE DEF r, e
  <2>3. EstimatorMirrors' /\ EstimatorFollows'
    BY <2>1, <2>2 DEF EstimatorMirrors, EstimatorFollows
  <2>4. EstimatorIsCoherent'
    BY <1>2, <2>1, <2>2 DEF EstimatorIsCoherent
  <2> QED
    BY <2>3, <2>4
<1>5. CASE ~NewObservation
  <2>1. /\ estimator' = estimator /\ estimator.has_observation
        /\ ~(captures = 1 /\ decoded'.is_angle_from_edge)
        /\ estimator.sector = decoded'.sector
        /\ estimator.has_valid_speed = decoded'.has_valid_speed
        /\ estimator.is_angle_from_edge = decoded'.is_angle_from_edge
        /\ estimator.is_timed_out = decoded'.is_timed_out
    BY <1>5 DEF Follow, NewObservation, NewTransition
  <2>2. /\ estimator.reference = <<decoded'.sector, decoded'.direction>>
        /\ estimator.has_edge_reference = decoded'.is_angle_from_edge
        /\ estimator.interval = decoded'.interval
    <3>1. CASE ~decoded'.is_angle_from_edge
      BY <1>1, <1>2, <2>1, <3>1 DEF EstimatorIsCoherent
    <3>2. CASE decoded'.is_angle_from_edge
      <4>1. status = "OK" /\ has_observation /\ decoded' = decoded
        BY <1>3, <2>1, <3>2 DEF EstimatorMirrors
      <4> QED
        BY <4>1 DEF EstimatorFollows
    <3> QED
      BY <3>1, <3>2
  <2> QED
    BY <2>1, <2>2 DEF EstimatorMirrors, EstimatorIsCoherent, EstimatorFollows
<1> QED
  BY <1>4, <1>5

(* Every step keeps the estimator on the decoder's last success.            *)
LEMMA EstimatorStays ==
  ASSUME IInv, TypeOK', ChainIsCoherent, EstimatorFollows, [Next]_vars
  PROVE  EstimatorMirrors' /\ EstimatorIsCoherent' /\ EstimatorFollows'
<1>1. CASE FastLoop
  <2>1. Decode /\ DecoderIsCoherent'
    BY <1>1, DecoderStaysCoherent DEF FastLoop
  <2>2. CASE status' = "OK"
    <3>1. Follow
      BY <1>1, <2>2 DEF FastLoop
    <3> QED
      BY <2>1, <2>2, <3>1, FollowsDecoder DEF IInv, ChainIsCoherent
  <2>3. CASE status' # "OK"
    <3>1. estimator' = estimator
      BY <1>1, <2>3 DEF FastLoop
    <3> QED
      BY <2>3, <3>1 DEF ChainIsCoherent, EstimatorMirrors, EstimatorIsCoherent, EstimatorFollows
  <2> QED
    BY <2>2, <2>3
<1>2. CASE ~FastLoop
  <2>1. UNCHANGED controlVars
    <3>1. CASE RotorMoves \/ LineBreaks \/ LineMended
      <4>1. PICK to \in Lines : Edge(to)
        BY <3>1, EdgeCases
      <4> QED
        BY <4>1 DEF Edge
    <3>2. CASE Count
      BY <3>2 DEF Count
    <3>3. CASE HallInterrupt
      BY <3>3 DEF HallInterrupt, EnterCapture, EnterUpdate, ReadCapture, ReadState, Capture,
         ClearUpdate, Timeout, At
    <3>4. CASE UNCHANGED vars
      BY <3>4 DEF vars
    <3> QED
      BY <1>2, <3>1, <3>2, <3>3, <3>4 DEF Next
  <2> QED
    BY <2>1 DEF controlVars, ChainIsCoherent, EstimatorMirrors, EstimatorIsCoherent, EstimatorFollows
<1> QED
  BY <1>1, <1>2

(* Beyond the driver the chain is coherent at every step.                   *)
THEOREM Coherent == Spec => [](ChainIsCoherent /\ EstimatorFollows)
<1>1. Init => ChainIsCoherent /\ EstimatorFollows
  <2> SUFFICES ASSUME Init PROVE ChainIsCoherent /\ EstimatorFollows
    OBVIOUS
  <2>1. /\ published.has_valid_edge_rate = FALSE /\ published.edge_rate = Period
        /\ published.hall_state \in Sectors /\ clean = ~lost /\ line \in Sectors
    BY DEF Init
  <2>2. OvercapturesAreAccountedFor /\ EdgeIsMeasured
    BY DEF Init, OvercapturesAreAccountedFor, EdgeIsMeasured
  <2>3. EdgeIsAlone
    <3>1. clean => ~lost
      BY <2>1
    <3>2. Broken \notin {line, published.hall_state}
      BY <2>1, SectorAssumption
    <3>3. /\ ~cc1if /\ ~cc1of /\ pc = "idle" /\ captures = 0 /\ invalids = 0 /\ status = "OK"
      BY DEF Init
    <3> QED
      BY <3>1, <3>2, <3>3 DEF EdgeIsAlone, CapturePcs
  <2>4. DecoderIsCoherent /\ EstimatorMirrors /\ EstimatorIsCoherent /\ EstimatorFollows
    BY <2>1 DEF Init, DecoderIsCoherent, EstimatorMirrors, EstimatorIsCoherent, EstimatorFollows
  <2> QED
    BY <2>2, <2>3, <2>4 DEF ChainIsCoherent
<1>2. IInv /\ IInv' /\ (ChainIsCoherent /\ EstimatorFollows) /\ [Next]_vars =>
        (ChainIsCoherent /\ EstimatorFollows)'
  BY OvercapturesStayAccountedFor, EdgeStaysAlone, EdgeStaysMeasured, DecoderStaysCoherent,
     EstimatorStays DEF IInv, ChainIsCoherent
<1> QED
  BY <1>1, <1>2, Invariance, PTL DEF Spec

(* hall_estimator_update_unchecked() leaves no stale observation behind.     *)
THEOREM EstimatorTracks == Spec => []EstimatorFollows
  BY Coherent, PTL

(* Edges that the chain has time for never make hall_decoder_update() fail,  *)
(* which would trip the drive.                                              *)
THEOREM CleanEdgesAreDecoded == Spec => []CleanEdgesDecode
<1>1. ChainIsCoherent => CleanEdgesDecode
  BY DEF ChainIsCoherent, EdgeIsAlone, CleanEdgesDecode
<1> QED
  BY <1>1, Coherent, PTL

(* After clean edges the speed at rest is that of the last interval, in its  *)
(* direction, or zero.                                                      *)
THEOREM SpeedsAreTrue == Spec => []SpeedIsTrue
<1>1. IInv /\ ChainIsCoherent => SpeedIsTrue
  <2> SUFFICES ASSUME IInv, ChainIsCoherent, clean, Settled, decoded.has_valid_speed
               PROVE  IF decoded.is_timed_out THEN decoded.interval = Period
                      ELSE decoded.direction = way /\ decoded.interval = span
    BY DEF SpeedIsTrue
  <2>1. Consumed
    BY DEF Settled, IsChanged, Consumed, CapturePcs
  <2> QED
    BY <2>1 DEF ChainIsCoherent, DecoderIsCoherent, EdgeIsMeasured
<1> QED
  BY <1>1, Invariance, Coherent, PTL

(* No capture is under way before the first edge, and every way to decode a  *)
(* time-out gives a speed of zero.                                          *)
LEMMA StandstillStaysDecoded ==
  ASSUME StandstillIsDecoded, [Next]_vars
  PROVE  StandstillIsDecoded'
<1> USE DEF StandstillIsDecoded, CapturePcs, plantVars, timerVars, timerLines,
    registerVars, driverVars, countVars, controlVars
<1>1. CASE RotorMoves \/ LineBreaks \/ LineMended
  <2>1. PICK to \in Lines : Edge(to)
    BY <1>1, EdgeCases
  <2> QED
    BY <2>1 DEF Edge
<1>2. CASE Count
  BY <1>2 DEF Count
<1>3. CASE EnterCapture \/ EnterUpdate \/ ReadCapture \/ ReadState \/ ClearUpdate
  BY <1>3 DEF EnterCapture, EnterUpdate, ReadCapture, ReadState, ClearUpdate, At
<1>4. CASE Capture
  BY <1>4 DEF Capture, At
<1>5. CASE Timeout
  BY <1>5 DEF Timeout, At
<1>6. CASE FastLoop
  <2>1. UNCHANGED <<lost, cc1if, pc, published>> /\ Decode
    BY <1>6 DEF FastLoop
  <2>2. decoded'.is_timed_out /\ decoded'.sector # Broken => decoded'.has_valid_speed
    <3>1. CASE DecodeNothing
      BY <3>1 DEF DecodeNothing
    <3>2. CASE DecodeInvalidState
      BY <3>2 DEF DecodeInvalidState, Observe, InvalidState
    <3>3. CASE DecodeInvalidCapture \/ DecodeFirst \/ DecodeMissed
      BY <3>3 DEF DecodeInvalidCapture, DecodeFirst, DecodeMissed, Observe, Resynchronized
    <3>4. CASE DecodeTimeout
      BY <3>4 DEF DecodeTimeout, Observe
    <3>5. CASE DecodeEdge
      <4>1. CASE Direction(decoded.sector, published.hall_state) = "unknown"
        BY <3>5, <4>1 DEF DecodeEdge, Observe, Resynchronized
      <4>2. CASE Direction(decoded.sector, published.hall_state) # "unknown"
        BY <3>5, <4>2 DEF DecodeEdge, Observe
      <4> QED
        BY <4>1, <4>2
    <3> QED
      BY <2>1, <3>1, <3>2, <3>3, <3>4, <3>5 DEF Decode
  <2> QED
    BY <2>1, <2>2
<1>7. CASE UNCHANGED vars
  BY <1>7 DEF vars
<1> QED
  BY <1>1, <1>2, <1>3, <1>4, <1>5, <1>6, <1>7 DEF Next, HallInterrupt

(* Good lines are known before the first edge, and a decoded time-out is a   *)
(* speed of zero.                                                           *)
LEMMA StandstillDecodes == Spec => []StandstillIsDecoded
<1>1. Init => StandstillIsDecoded
  <2> SUFFICES ASSUME Init PROVE StandstillIsDecoded
    OBVIOUS
  <2>1. published.hall_state \in Sectors /\ ~cc1if /\ pc = "idle" /\ decoded.sector = Broken
    BY DEF Init
  <2> QED
    BY <2>1, SectorAssumption DEF StandstillIsDecoded, CapturePcs
<1> QED
  BY <1>1, StandstillStaysDecoded, PTL DEF Spec

(* However edges, wraps and interrupts fell: rates are measured, time-outs  *)
(* real, at rest the sector is the rotor's, and the estimator follows.      *)
THEOREM HallIsSafe == Spec => []Safety
<1>1. IInv /\ ChainIsCoherent /\ SectorSettles /\ EstimatorFollows /\ StandstillIsDecoded
        => Safety
  BY DEF Safety
<1> QED
  BY <1>1, Invariance, Coherent, SectorsSettle, StandstillDecodes, PTL

-----------------------------------------------------------------------------
(* A standstill is seen.                                                   *)

(* What still happens once the lines are quiet.                            *)
Quiet == Count \/ HallInterrupt \/ FastLoop

(* The interrupt has served every edge, and serves nothing but wraps.      *)
Drained ==
  ~cc1if /\ (pc = "idle" \/ (pc = "timeout" /\ ~capture_with_pending_timeout))

(* How many steps of the interrupt, at most, until it has.                 *)
DrainDistance ==
  IF Drained THEN 0 ELSE
  IF pc = "timeout" /\ ~cc1if THEN 1 ELSE
  IF pc = "clearUpdate" /\ ~cc1if THEN 2 ELSE
  IF pc = "capture" /\ ~cc1if THEN 3 ELSE
  IF pc = "readState" /\ ~cc1if THEN 4 ELSE
  IF pc = "readCapture" THEN 5 ELSE
  IF pc = "idle" THEN 6 ELSE
  IF pc = "timeout" THEN 7 ELSE
  IF pc = "clearUpdate" THEN 8 ELSE
  IF pc = "capture" THEN 9 ELSE 10

DrainsWithin(n) == DrainDistance <= n

(* Without edges the interrupt comes nearer with every step, and nothing    *)
(* else moves it.                                                          *)
LEMMA DrainStep ==
  ASSUME IInv, [Quiet]_vars
  PROVE  /\ DrainDistance' <= DrainDistance
         /\ HallInterrupt => DrainDistance' < DrainDistance \/ Drained'
<1> USE DEF DrainDistance, Drained, At, timerLines, driverVars, plantVars
<1>1. CASE EnterCapture
  BY <1>1 DEF EnterCapture
<1>2. CASE EnterUpdate
  BY <1>2 DEF EnterUpdate, IInv, UpdatesAreAccountedFor
<1>3. CASE ReadCapture
  BY <1>3 DEF ReadCapture
<1>4. CASE ReadState
  BY <1>4 DEF ReadState
<1>5. CASE Capture
  BY <1>5 DEF Capture, IInv, UpdatesAreAccountedFor
<1>6. CASE ClearUpdate
  BY <1>6 DEF ClearUpdate
<1>7. CASE Timeout
  BY <1>7 DEF Timeout
<1>8. CASE ~HallInterrupt
  <2>1. UNCHANGED <<pc, cc1if, capture_with_pending_timeout>>
    BY <1>8 DEF Quiet, Count, FastLoop, vars, timerVars
  <2> QED
    BY <1>8, <2>1
<1> QED
  BY <1>1, <1>2, <1>3, <1>4, <1>5, <1>6, <1>7, <1>8 DEF HallInterrupt

(* DrainsWithin(n) lasts, and a step of the interrupt lessens it.           *)
LEMMA DrainsSooner ==
  ASSUME NEW n \in 1..10, IInv
  PROVE  /\ DrainsWithin(n) /\ [Quiet]_vars => DrainsWithin(n)'
         /\ DrainsWithin(n) /\ <<HallInterrupt>>_vars => DrainsWithin(n - 1)'
<1>1. Drained' => DrainDistance' = 0
  BY DEF DrainDistance
<1>2. DrainDistance \in 0..10 /\ DrainDistance' \in 0..10
  BY DEF DrainDistance
<1>3. DrainsWithin(n) /\ [Quiet]_vars => DrainsWithin(n)'
  BY <1>2, DrainStep DEF DrainsWithin
<1>4. DrainsWithin(n) /\ HallInterrupt => DrainsWithin(n - 1)'
  BY <1>1, <1>2, DrainStep DEF DrainsWithin, Quiet
<1> QED
  BY <1>3, <1>4

(* Once the lines are quiet every edge is served, and none is under way.     *)
LEMMA EdgesAreDrained ==
  FairSpec /\ []NobodyWaits /\ <>[][Quiet]_vars => <>[]Drained
<1>1. IInv /\ DrainsWithin(1) /\ [Quiet]_vars => DrainsWithin(1)'
  BY DrainsSooner
<1>2. IInv /\ DrainsWithin(1) /\ <<HallInterrupt>>_vars => DrainsWithin(0)'
  BY DrainsSooner
<1>3. IInv /\ DrainsWithin(2) /\ [Quiet]_vars => DrainsWithin(2)'
  BY DrainsSooner
<1>4. IInv /\ DrainsWithin(2) /\ <<HallInterrupt>>_vars => DrainsWithin(1)'
  BY DrainsSooner
<1>5. IInv /\ DrainsWithin(3) /\ [Quiet]_vars => DrainsWithin(3)'
  BY DrainsSooner
<1>6. IInv /\ DrainsWithin(3) /\ <<HallInterrupt>>_vars => DrainsWithin(2)'
  BY DrainsSooner
<1>7. IInv /\ DrainsWithin(4) /\ [Quiet]_vars => DrainsWithin(4)'
  BY DrainsSooner
<1>8. IInv /\ DrainsWithin(4) /\ <<HallInterrupt>>_vars => DrainsWithin(3)'
  BY DrainsSooner
<1>9. IInv /\ DrainsWithin(5) /\ [Quiet]_vars => DrainsWithin(5)'
  BY DrainsSooner
<1>10. IInv /\ DrainsWithin(5) /\ <<HallInterrupt>>_vars => DrainsWithin(4)'
  BY DrainsSooner
<1>11. IInv /\ DrainsWithin(6) /\ [Quiet]_vars => DrainsWithin(6)'
  BY DrainsSooner
<1>12. IInv /\ DrainsWithin(6) /\ <<HallInterrupt>>_vars => DrainsWithin(5)'
  BY DrainsSooner
<1>13. IInv /\ DrainsWithin(7) /\ [Quiet]_vars => DrainsWithin(7)'
  BY DrainsSooner
<1>14. IInv /\ DrainsWithin(7) /\ <<HallInterrupt>>_vars => DrainsWithin(6)'
  BY DrainsSooner
<1>15. IInv /\ DrainsWithin(8) /\ [Quiet]_vars => DrainsWithin(8)'
  BY DrainsSooner
<1>16. IInv /\ DrainsWithin(8) /\ <<HallInterrupt>>_vars => DrainsWithin(7)'
  BY DrainsSooner
<1>17. IInv /\ DrainsWithin(9) /\ [Quiet]_vars => DrainsWithin(9)'
  BY DrainsSooner
<1>18. IInv /\ DrainsWithin(9) /\ <<HallInterrupt>>_vars => DrainsWithin(8)'
  BY DrainsSooner
<1>19. IInv /\ DrainsWithin(10) /\ [Quiet]_vars => DrainsWithin(10)'
  BY DrainsSooner
<1>20. IInv /\ DrainsWithin(10) /\ <<HallInterrupt>>_vars => DrainsWithin(9)'
  BY DrainsSooner
<1>21. DrainsWithin(10)
  BY DEF DrainsWithin, DrainDistance
<1>22. DrainsWithin(0) => Drained
  BY DEF DrainsWithin, DrainDistance
<1>23. IInv /\ Drained /\ [Quiet]_vars => Drained'
  <2> SUFFICES ASSUME IInv, Drained, [Quiet]_vars PROVE Drained'
    OBVIOUS
  <2>1. DrainDistance = 0 /\ DrainDistance' <= DrainDistance
    BY DrainStep DEF DrainDistance
  <2> QED
    BY <2>1 DEF DrainDistance
<1>24. IInv /\ ~Drained => pc # "idle" \/ cc1if
  BY DEF Drained
<1> QED
  BY <1>1, <1>2, <1>3, <1>4, <1>5, <1>6, <1>7, <1>8, <1>9, <1>10, <1>11, <1>12, <1>13, <1>14,
     <1>15, <1>16, <1>17, <1>18, <1>19, <1>20, <1>21, <1>22, <1>23, <1>24, Invariance, PTL
  DEF FairSpec, Spec, NobodyWaits

(* Then a wrap is served as a time-out, which stays published.             *)
TimedOut == Drained /\ published.is_timed_out

Owed   == TimedOut \/ (Drained /\ pc = "timeout")
Raised == Owed \/ (Drained /\ uif)

(* Every step of the interrupt moves it.                                   *)
LEMMA InterruptMoves == HallInterrupt => pc' # pc
  BY DEF HallInterrupt, EnterCapture, EnterUpdate, ReadCapture, ReadState, Capture, ClearUpdate,
     Timeout, At

(* A wrap raises the interrupt, each of its steps brings the time-out nearer *)
(* to publication, and without an edge nothing takes it back.              *)
LEMMA WrapStep ==
  ASSUME IInv, Drained, [Quiet]_vars
  PROVE  /\ Raised => Raised'
         /\ Owed => Owed'
         /\ TimedOut => TimedOut'
         /\ Raised /\ HallInterrupt => Owed'
         /\ Owed /\ HallInterrupt => TimedOut'
         /\ Count /\ counter' = 0 => Raised'
<1> USE DEF Drained, TimedOut, Owed, Raised, At
<1>1. CASE EnterUpdate
  BY <1>1 DEF EnterUpdate, IInv, UpdatesAreAccountedFor, timerLines, driverVars
<1>2. CASE Timeout
  BY <1>2 DEF Timeout, timerLines
<1>3. CASE EnterCapture \/ ReadCapture \/ ReadState \/ Capture \/ ClearUpdate
  BY <1>3 DEF EnterCapture, ReadCapture, ReadState, Capture, ClearUpdate
<1>4. CASE Count
  <2>1. /\ UNCHANGED <<pc, cc1if, capture_with_pending_timeout, published>>
        /\ uif' = (uif \/ counter' = 0)
    BY <1>4 DEF Count, driverVars
  <2>2. ~HallInterrupt
    BY <2>1, InterruptMoves
  <2> QED
    BY <2>1, <2>2
<1>5. CASE FastLoop \/ UNCHANGED vars
  <2>1. UNCHANGED <<pc, cc1if, uif, capture_with_pending_timeout, published>>
    BY <1>5 DEF FastLoop, vars, timerVars, timerLines, driverVars
  <2>2. ~HallInterrupt
    BY <2>1, InterruptMoves
  <2>3. Count => uif' = (uif \/ counter' = 0)
    BY DEF Count
  <2> QED
    BY <2>1, <2>2, <2>3
<1> QED
  BY <1>1, <1>2, <1>3, <1>4, <1>5 DEF Quiet, HallInterrupt

(* Until the wrap the counter comes nearer to it.                           *)
LEMMA CountStep ==
  ASSUME IInv, Drained, ~Raised'
  PROVE  /\ [Quiet]_vars => [(Period - counter)' <= Period - counter]_vars
         /\ <<Count>>_vars => <<(Period - counter)' < Period - counter>>_vars
<1> USE PeriodAssumption DEF IInv, TypeOK
<1>1. ASSUME Count
      PROVE  (Period - counter)' < Period - counter /\ (Period - counter)' <= Period - counter
  <2>1. counter' # 0
    <3>1. UNCHANGED <<pc, cc1if, capture_with_pending_timeout>>
          /\ uif' = (uif \/ counter' = 0)
      BY <1>1 DEF Count, driverVars
    <3> QED
      BY <3>1, Zenon DEF Drained, Raised
  <2>2. counter \in Int /\ counter' = counter + 1
    BY <1>1, <2>1 DEF Count
  <2> QED
    BY <2>2
<1>2. HallInterrupt \/ FastLoop \/ UNCHANGED vars => counter' = counter
  BY DEF HallInterrupt, EnterCapture, EnterUpdate, ReadCapture, ReadState, Capture,
     ClearUpdate, Timeout, At, FastLoop, timerVars, vars
<1>3. ASSUME counter' = counter PROVE (Period - counter)' <= Period - counter
  <2>1. counter \in Int /\ Period \in Int
    OBVIOUS
  <2> HIDE DEF IInv, TypeOK
  <2>2. (Period - counter)' = Period - counter
    BY <1>3
  <2> QED
    BY <2>1, <2>2
<1>4. [Quiet]_vars => (Period - counter)' <= Period - counter
  <2>1. Count => (Period - counter)' <= Period - counter
    BY <1>1, Zenon
  <2> QED
    BY <1>2, <1>3, <2>1, Zenon DEF Quiet
<1> QED
  BY <1>1, <1>4, Zenon

(* Once the lines are quiet a time-out is published for good.              *)
LEMMA QuietTimesOut ==
  FairSpec /\ []NobodyWaits /\ NaturalsEnd(Period - counter, vars) /\ <>[][Quiet]_vars
    => <>[]TimedOut
<1>1. IInv /\ Drained /\ Raised /\ [Quiet]_vars => Raised'
  BY WrapStep
<1>2. IInv /\ Drained /\ Owed /\ [Quiet]_vars => Owed'
  BY WrapStep
<1>3. IInv /\ Drained /\ TimedOut /\ [Quiet]_vars => TimedOut'
  BY WrapStep
<1>4. IInv /\ Drained /\ Raised /\ <<HallInterrupt>>_vars => Owed'
  BY WrapStep DEF Quiet
<1>5. IInv /\ Drained /\ Owed /\ <<HallInterrupt>>_vars => TimedOut'
  BY WrapStep DEF Quiet
<1>6. IInv /\ Drained /\ ~Raised' /\ [Quiet]_vars =>
        [(Period - counter)' <= Period - counter]_vars
  BY CountStep
<1>8. IInv /\ Drained /\ ~Raised' /\ <<Count>>_vars =>
        <<(Period - counter)' < Period - counter>>_vars
  BY CountStep
<1>9. IInv => Period - counter \in Nat
  BY PeriodAssumption DEF IInv, TypeOK
<1>10. Drained /\ ~Raised => pc = "idle" /\ ~cc1if /\ ~uif
  BY DEF Drained, Raised, Owed
<1>7. Raised /\ ~TimedOut => pc # "idle" \/ uif
  BY DEF Raised, Owed
<1> QED
  BY <1>1, <1>2, <1>3, <1>4, <1>5, <1>6, <1>7, <1>8, <1>9, <1>10,
     EdgesAreDrained, Invariance, PTL
  DEF FairSpec, Spec, NobodyWaits, NaturalsEnd, FallsForEver

(* The ADC interrupt then decodes what is left, and the time-out.          *)
Good     == TimedOut /\ published.hall_state # Broken
Consumes == Good /\ has_observation /\ captures = 0 /\ invalids = 0
Stands   == Consumes /\ decoded.is_timed_out

(* Each pass of the ADC interrupt comes nearer to a decoded standstill, and  *)
(* nothing takes it back.                                                  *)
LEMMA DecodeStep ==
  ASSUME IInv, Good, TimedOut', [Quiet]_vars
  PROVE  /\ Good'
         /\ Consumes => Consumes'
         /\ Stands => Stands'
         /\ FastLoop => Consumes'
         /\ Consumes /\ FastLoop => Stands'
<1>1. CASE FastLoop
  <2>1. Decode /\ UNCHANGED published
    BY <1>1 DEF FastLoop, driverVars
  <2>2. Good'
    BY <2>1 DEF Good
  <2>3. has_observation' /\ captures' = 0 /\ invalids' = 0
    <3>1. CASE DecodeNothing
      <4>1. has_observation /\ ~(captures # 0) /\ ~(invalids # 0)
        BY <3>1, Zenon DEF DecodeNothing, IsChanged
      <4> QED
        BY <4>1, <3>1 DEF DecodeNothing, countVars
    <3>2. CASE DecodeInvalidState \/ DecodeInvalidCapture \/ DecodeFirst
      BY <3>2 DEF DecodeInvalidState, DecodeInvalidCapture, DecodeFirst, Observe
    <3>3. CASE DecodeTimeout \/ DecodeMissed
      BY <3>3 DEF DecodeTimeout, DecodeMissed, Observe
    <3>4. CASE DecodeEdge
      BY <3>4, Zenon DEF DecodeEdge, Observe
    <3> QED
      BY <2>1, <3>1, <3>2, <3>3, <3>4 DEF Decode
  <2>4. ASSUME Consumes PROVE decoded'.is_timed_out
    <3>1. has_observation /\ captures = 0 /\ invalids = 0 /\ published.is_timed_out
      BY <2>4 DEF Consumes, Good, TimedOut
    <3>2. decoded.sector # Broken
      BY <3>1 DEF IInv, SectorsAreAccountedFor, Good
    <3>3. CASE IsChanged
      <4>1. ~DecodeNothing /\ ~DecodeInvalidState
        BY <3>3, Zenon DEF DecodeNothing, DecodeInvalidState, Good
      <4>2. ~DecodeInvalidCapture /\ ~DecodeFirst
        BY <3>1, <3>2, Zenon DEF DecodeInvalidCapture, DecodeFirst
      <4>3. ~DecodeMissed /\ ~DecodeEdge
        BY <3>1 DEF DecodeMissed, DecodeEdge
      <4>4. DecodeTimeout
        BY <2>1, <4>1, <4>2, <4>3, Zenon DEF Decode
      <4> QED
        BY <4>4, <3>1 DEF DecodeTimeout, Observe
    <3>4. CASE ~IsChanged
      <4>1. UNCHANGED decoded
        BY <2>1, <3>4 DEF Decode, DecodeNothing, DecodeInvalidState, DecodeInvalidCapture,
           DecodeFirst, DecodeTimeout, DecodeMissed, DecodeEdge, Continues
      <4> QED
        BY <4>1, <3>1, <3>4, Zenon DEF IsChanged
    <3> QED
      BY <3>3, <3>4
  <2> QED
    BY <2>2, <2>3, <2>4 DEF Consumes, Stands
<1>2. CASE ~FastLoop
  <2>1. ~Capture /\ ~EnterCapture
    BY DEF Good, TimedOut, Drained, Capture, EnterCapture, At
  <2>2. UNCHANGED <<has_observation, captures, invalids, decoded>>
        /\ published'.hall_state = published.hall_state
    <3>1. CASE Count
      BY <3>1 DEF Count, driverVars, countVars, controlVars
    <3>2. CASE EnterUpdate \/ ReadCapture \/ ReadState \/ ClearUpdate
      BY <3>2 DEF EnterUpdate, ReadCapture, ReadState, ClearUpdate, At, driverVars, countVars,
         controlVars
    <3>3. CASE Timeout
      BY <3>3 DEF Timeout, At, countVars, controlVars
    <3>4. CASE UNCHANGED vars
      BY <3>4 DEF vars, driverVars, countVars, controlVars
    <3> QED
      BY <1>2, <2>1, <3>1, <3>2, <3>3, <3>4 DEF Quiet, HallInterrupt
  <2> QED
    BY <2>2, <1>2 DEF Good, Consumes, Stands
<1> QED
  BY <1>1, <1>2

Dead == line = Broken

(* A rotor that stands still on good lines is decoded as a valid speed of    *)
(* zero, however its last edges met the timer, the interrupt and the decoder *)
(* (hall_driver_handle_timeout, hall_decoder_update).                        *)
THEOREM StandstillSeen ==
  FairSpec /\ []NobodyWaits /\ NaturalsEnd(Period - counter, vars) => StandstillIsSeen
<1>1. ~Dead /\ [Quiet]_vars => ~Dead'
  BY DEF Dead, Quiet, Count, HallInterrupt, EnterCapture, EnterUpdate, ReadCapture, ReadState,
     Capture, ClearUpdate, Timeout, At, FastLoop, vars, plantVars
<1>2. Dead /\ [Quiet]_vars => Dead'
  BY DEF Dead, Quiet, Count, HallInterrupt, EnterCapture, EnterUpdate, ReadCapture, ReadState,
     Capture, ClearUpdate, Timeout, At, FastLoop, vars, plantVars
<1>3. IInv /\ StandstillIsDecoded /\ TimedOut /\ ~Dead => Good
  BY DEF IInv, SectorsAreAccountedFor, StandstillIsDecoded, TimedOut, Drained, Good, Dead
<1>4. IInv /\ Good /\ TimedOut' /\ Consumes /\ [Quiet]_vars => Consumes'
  BY DecodeStep
<1>5. IInv /\ Good /\ TimedOut' /\ Stands /\ [Quiet]_vars => Stands'
  BY DecodeStep
<1>6. IInv /\ Good /\ TimedOut' /\ <<FastLoop>>_vars => Consumes'
  BY DecodeStep DEF Quiet
<1>7. IInv /\ Good /\ TimedOut' /\ Consumes /\ <<FastLoop>>_vars => Stands'
  BY DecodeStep DEF Quiet
<1>8. Good /\ ~Stands => IsChanged
  BY Zenon DEF Good, TimedOut, Stands, Consumes, IsChanged
<1>9. IInv /\ StandstillIsDecoded /\ Stands => decoded.is_timed_out /\ decoded.has_valid_speed
  BY DEF IInv, SectorsAreAccountedFor, StandstillIsDecoded, Stands, Consumes, Good
<1>10. Dead => line = Broken
  BY DEF Dead
<1> QED
  BY <1>1, <1>2, <1>3, <1>4, <1>5, <1>6, <1>7, <1>8, <1>9, <1>10, QuietTimesOut, StandstillDecodes,
     Invariance, PTL
  DEF FairSpec, Spec, NobodyWaits, StandstillIsSeen, Quiet

=============================================================================
