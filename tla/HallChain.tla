------------------------------ MODULE HallChain ------------------------------
(***************************************************************************)
(* The rotor position chain: the TIM2 Hall interface, its interrupt        *)
(* (Core/Platform/hall_driver.c), and the decoder and estimator that the   *)
(* ADC interrupt runs on the published feedback (Core/Control/             *)
(* hall_decoder.c, hall_estimator.c).                                      *)
(*                                                                         *)
(* The timer counts 0 .. Period-1; every change of a Hall line captures    *)
(* the count and restarts it, every wrap raises the update flag.  Edges    *)
(* and ticks of the counter come between any two accesses of the TIM2      *)
(* interrupt to the timer, the ADC interrupt (of higher priority) between  *)
(* any two of its steps; the ADC interrupt itself is one action.           *)
(*                                                                         *)
(* Abstractions: angles are the sector and the boundary they come from, a  *)
(* speed is the interval it was computed from; of the capture counters     *)
(* only the difference to what the decoder has seen is kept, up to the     *)
(* value above which the code treats all alike.  A feedback record goes to *)
(* the inactive buffer, which nobody reads: it is published in the step    *)
(* that stores active_feedback_index.                                      *)
(***************************************************************************)
EXTENDS Integers

CONSTANTS
  Sectors,      \* the sectors of an electrical turn
  Forward,      \* the sector after each
  Broken,       \* 000 or 111, which no sector has
  LinesBreak,   \* TRUE: Hall lines break and are mended at times
  Period,       \* ARR + 1, the time-out in counter ticks
  Latency,      \* counter ticks in which a raised interrupt has been served
  Burst         \* edges that may come before the chain has consumed the first

ASSUME SectorAssumption ==
  /\ Forward \in [Sectors -> Sectors] /\ Broken \notin Sectors
  /\ \A s \in Sectors : Forward[s] # s /\ Forward[Forward[s]] # s
ASSUME LineAssumption == LinesBreak \in BOOLEAN
ASSUME PeriodAssumption == Period \in Nat /\ Latency \in Nat /\ 2 * Latency < Period
ASSUME BurstAssumption == Burst \in Nat \ {0}

VARIABLES
  line,      \* the Hall lines: a sector, or a state no sector has
  counter,   \* TIM2 CNT
  ccr,       \* TIM2 CCR1
  cc1if, cc1of, uif,  \* TIM2 capture, overcapture and update flags
  lag,       \* ticks since the interrupt was raised
  since,     \* true time since the last edge, Period for longer or never
  span,      \* true time between the last two edges
  way,       \* direction of the last edge
  lost,      \* an edge between the first reading of the lines and the timer start
  clean,     \* every edge so far found the chain done with the one before
  burst,     \* edges since the chain had none to consume
  pc,        \* where the TIM2 interrupt stands
  update_seen,                            \* HAL: update flag on entry
  ticks, ticks_span, over, pending, seen, \* registers of hall_driver_handle_capture
  published, \* the active feedback buffer
  has_valid_interval_reference, capture_with_pending_timeout,
  captures,  \* published captures the decoder has not seen: 0, 1, 2 for more
  invalids,  \* the same for invalid captures: any or none
  has_observation, decoded, status,  \* hall_decoder_t
  estimator                          \* hall_estimator_t

plantVars    == <<line, since, span, way, lost, clean, burst>>
timerLines   == <<ccr, cc1if, cc1of, uif>>
timerVars    == <<counter, timerLines, lag>>
registerVars == <<update_seen, ticks, ticks_span, over, pending, seen>>
driverVars   == <<published, has_valid_interval_reference,
                  capture_with_pending_timeout>>
countVars    == <<captures, invalids>>
controlVars  == <<has_observation, decoded, status, estimator>>
vars == <<plantVars, timerVars, pc, registerVars, driverVars, countVars, controlVars>>

Lines      == Sectors \cup {Broken}
Times      == 0..Period
Directions == {"forward", "reverse", "unknown"}
CapturePcs == {"readCapture", "readState", "capture"}
Pcs        == {"idle", "clearUpdate", "timeout"} \cup CapturePcs
Statuses   == {"OK", "INVALID_HALL_STATE", "INVALID_CAPTURE", "MISSED_CAPTURE",
               "INVALID_TRANSITION"}

Feedback == [hall_state : Lines, edge_rate : Times, interval : Times,
             has_valid_edge_rate : BOOLEAN, is_timed_out : BOOLEAN]
Decoded  == [sector : Lines, direction : Directions, interval : Times,
             has_valid_speed : BOOLEAN, is_angle_from_edge : BOOLEAN, is_timed_out : BOOLEAN]
Estimate == [has_observation : BOOLEAN, sector : Lines, has_valid_speed : BOOLEAN,
             interval : Times, is_angle_from_edge : BOOLEAN, is_timed_out : BOOLEAN,
             reference : Lines \X Directions, has_edge_reference : BOOLEAN]

(* Every variable keeps its type, and no speed or angle is called valid     *)
(* without what it was computed from.                                      *)
TypeOK ==
  /\ line \in Lines /\ since \in Times /\ span \in Times /\ way \in Directions
  /\ lost \in BOOLEAN /\ clean \in BOOLEAN /\ burst \in 0..Burst
  /\ counter \in 0..(Period - 1) /\ ccr \in 0..(Period - 1)
  /\ cc1if \in BOOLEAN /\ cc1of \in BOOLEAN /\ uif \in BOOLEAN /\ lag \in 0..Latency
  /\ pc \in Pcs /\ update_seen \in BOOLEAN /\ ticks \in 0..(Period - 1)
  /\ ticks_span \in Times /\ over \in BOOLEAN /\ pending \in BOOLEAN /\ seen \in Lines
  /\ published \in Feedback
  /\ has_valid_interval_reference \in BOOLEAN /\ capture_with_pending_timeout \in BOOLEAN
  /\ captures \in 0..2 /\ invalids \in 0..1
  /\ has_observation \in BOOLEAN /\ decoded \in Decoded /\ status \in Statuses
  /\ estimator \in Estimate
  /\ decoded.has_valid_speed \/ decoded.is_angle_from_edge => decoded.sector # Broken

(* hall_decoder_get_direction().                                           *)
Direction(from, to) ==
  IF to = Forward[from] THEN "forward"
  ELSE IF from = Forward[to] THEN "reverse" ELSE "unknown"

(* After hall_driver_start(): the lines have been read, and the rotor may   *)
(* have moved on before the timer was started.                             *)
Init ==
  /\ line \in Sectors
  /\ \E read \in Sectors :
       /\ published = [hall_state |-> read, edge_rate |-> Period, interval |-> Period,
                       has_valid_edge_rate |-> FALSE, is_timed_out |-> FALSE]
       /\ lost = (read # line)
  /\ since = Period /\ span = Period /\ way = "unknown" /\ clean = (~lost) /\ burst = 0
  /\ counter = 0 /\ ccr = 0 /\ cc1if = FALSE /\ cc1of = FALSE /\ uif = FALSE /\ lag = 0
  /\ pc = "idle" /\ update_seen = FALSE
  /\ ticks = 0 /\ ticks_span = 0 /\ over = FALSE /\ pending = FALSE /\ seen = Broken
  /\ has_valid_interval_reference = FALSE /\ capture_with_pending_timeout = FALSE
  /\ captures = 0 /\ invalids = 0
  /\ has_observation = FALSE /\ status = "OK"
  /\ decoded = [sector |-> Broken, direction |-> "unknown", interval |-> Period,
                has_valid_speed |-> FALSE, is_angle_from_edge |-> FALSE,
                is_timed_out |-> FALSE]
  /\ estimator = [has_observation |-> FALSE, sector |-> Broken, has_valid_speed |-> FALSE,
                  interval |-> Period, is_angle_from_edge |-> FALSE,
                  is_timed_out |-> FALSE, reference |-> <<Broken, "unknown">>,
                  has_edge_reference |-> FALSE]

-----------------------------------------------------------------------------
(* The rotor and the timer.                                                *)

(* Mutant: a time-out alone is not looked at.                               *)
IsChangedByEdges == ~has_observation \/ captures # 0 \/ invalids # 0

(* What the decoder compares an observation with the previous one by.      *)
IsChanged ==
  \/ ~has_observation \/ captures # 0 \/ invalids # 0
  \/ published.is_timed_out # decoded.is_timed_out

(* The chain is at rest: nothing raised, all published, all decoded.       *)
Settled ==
  /\ ~cc1if /\ ~uif /\ pc = "idle" /\ has_observation /\ ~IsChanged /\ ~lost

(* The decoder is in step again after whatever went wrong.                 *)
Recovered == Settled /\ status = "OK"

(* The chain has nothing left to do for earlier edges.                     *)
Consumed == ~cc1if /\ pc \notin CapturePcs /\ captures = 0 /\ invalids = 0

(* A Hall line changes: capture, and restart of the counter.  An edge is    *)
(* clean if the rotor moved by one sector, the chain had consumed the edge  *)
(* before, and the count is not the zero that the driver takes for invalid. *)
Edge(to) ==
  /\ line # to /\ line' = to
  /\ ccr' = counter /\ counter' = 0
  /\ cc1of' = (cc1of \/ cc1if) /\ cc1if' = TRUE
  /\ span' = since /\ since' = 0
  /\ lost' = FALSE
  /\ burst < Burst \/ Consumed
  /\ burst' = IF Consumed THEN 1 ELSE burst + 1
  /\ clean' = ((clean \/ Recovered) /\ Consumed /\ counter # 0 /\ Broken \notin {line, to})
  /\ way' = IF clean' THEN Direction(line, to) ELSE "unknown"
  /\ UNCHANGED <<uif, lag, pc, registerVars, driverVars, countVars, controlVars>>

(* The rotor moves by one sector, or a line breaks or is mended.           *)
RotorMoves == \E to \in Sectors : /\ line # Broken /\ Direction(line, to) # "unknown"
                                  /\ Edge(to)
LineBreaks == LinesBreak /\ Edge(Broken)
LineMended == line = Broken /\ \E to \in Sectors : Edge(to)

(* The counter wraps with the update flag; an interrupt is served within    *)
(* Latency ticks.                                                          *)
Count ==
  /\ IF cc1if \/ uif \/ pc # "idle" THEN lag < Latency /\ lag' = lag + 1 ELSE lag' = 0
  /\ counter' = (IF counter = Period - 1 THEN 0 ELSE counter + 1)
  /\ uif' = (uif \/ counter' = 0)
  /\ since' = IF since = Period THEN Period ELSE since + 1
  /\ UNCHANGED <<line, span, way, lost, clean, burst, ccr, cc1if, cc1of, pc, registerVars,
                 driverVars, countVars, controlVars>>

-----------------------------------------------------------------------------
(* HAL_TIM_IRQHandler() and the capture and update callbacks.              *)

At(here, there) ==
  pc = here /\ pc' = there /\ UNCHANGED <<plantVars, counter, controlVars>>

(* The flags are sampled once, on entry, and the one to serve is cleared.   *)
EnterCapture ==
  /\ cc1if /\ At("idle", "readCapture")
  /\ cc1if' = FALSE /\ update_seen' = uif
  /\ UNCHANGED <<ccr, cc1of, uif, lag, ticks, ticks_span, over, pending, seen, driverVars,
                 countVars>>

EnterUpdate ==
  /\ ~cc1if /\ uif /\ At("idle", "timeout")
  /\ uif' = FALSE
  /\ UNCHANGED <<ccr, cc1if, cc1of, lag, registerVars, driverVars, countVars>>

(* Reading CCR1 clears the capture flag as well; nothing reads it again      *)
(* before the next edge.                                                   *)
ReadCapture ==
  /\ At("readCapture", "readState")
  /\ ticks' = ccr /\ ticks_span' = span /\ cc1if' = FALSE /\ ccr' = 0
  /\ over' = cc1of /\ pending' = uif
  /\ UNCHANGED <<cc1of, uif, lag, update_seen, seen, driverVars, countVars>>

ReadState ==
  /\ At("readState", "capture") /\ seen' = line
  /\ UNCHANGED <<timerLines, lag, update_seen, ticks, ticks_span, over, pending, driverVars,
                 countVars>>

(* Registers are dead after their use.                                     *)
Forget ==
  /\ ticks' = 0 /\ ticks_span' = 0 /\ over' = FALSE /\ pending' = FALSE /\ seen' = Broken
  /\ update_seen' = FALSE

(* Mutant: a capture with a pending time-out is called invalid.             *)
IsInvalidOrPending == ticks = 0 \/ over \/ pending \/ seen = published.hall_state

IsInvalidCapture == ticks = 0 \/ over \/ seen = published.hall_state

HasRate == ~IsInvalidCapture /\ has_valid_interval_reference /\ ~pending

(* hall_driver_handle_capture(), from the overcapture flag on.             *)
Capture ==
  /\ At("capture", IF update_seen THEN "clearUpdate" ELSE "idle")
  /\ cc1of' = (cc1of /\ ~over)
  /\ published' = [hall_state |-> seen, has_valid_edge_rate |-> HasRate,
                   is_timed_out |-> FALSE,
                   edge_rate |-> IF HasRate THEN ticks ELSE Period,
                   interval |-> IF HasRate THEN ticks_span ELSE Period]
  /\ IF IsInvalidCapture
       THEN invalids' = 1 /\ UNCHANGED captures
       ELSE captures' = (IF captures = 2 THEN 2 ELSE captures + 1) /\ UNCHANGED invalids
  /\ has_valid_interval_reference' = ~IsInvalidCapture
  /\ capture_with_pending_timeout' = pending
  /\ lag' = IF pc' = "idle" THEN 0 ELSE lag
  /\ Forget /\ UNCHANGED <<ccr, cc1if, uif>>

(* The update flag that was set on entry.                                  *)
ClearUpdate ==
  /\ At("clearUpdate", "timeout") /\ uif' = FALSE
  /\ UNCHANGED <<ccr, cc1if, cc1of, lag, registerVars, driverVars, countVars>>

(* Mutant: the next interval is measured from before the time-out.          *)
TimeoutKeepsReference ==
  /\ At("timeout", "idle")
  /\ published' = [hall_state |-> published.hall_state, edge_rate |-> Period,
                   interval |-> Period, has_valid_edge_rate |-> FALSE,
                   is_timed_out |-> ~capture_with_pending_timeout]
  /\ capture_with_pending_timeout' = FALSE
  /\ lag' = 0
  /\ UNCHANGED <<timerLines, registerVars, countVars, has_valid_interval_reference>>

(* hall_driver_handle_timeout().                                           *)
Timeout ==
  /\ At("timeout", "idle")
  /\ published' = [hall_state |-> published.hall_state, edge_rate |-> Period,
                   interval |-> Period, has_valid_edge_rate |-> FALSE,
                   is_timed_out |-> ~capture_with_pending_timeout]
  /\ has_valid_interval_reference' =
       (has_valid_interval_reference /\ capture_with_pending_timeout)
  /\ capture_with_pending_timeout' = FALSE
  /\ lag' = 0
  /\ UNCHANGED <<timerLines, registerVars, countVars>>

HallInterrupt ==
  \/ EnterCapture \/ EnterUpdate \/ ReadCapture \/ ReadState \/ Capture
  \/ ClearUpdate \/ Timeout

-----------------------------------------------------------------------------
(* app_update_rotor_feedback() in the ADC interrupt: the decoder, and after *)
(* its success the estimator.                                              *)

Observe(d) ==
  /\ decoded' = d /\ has_observation' = TRUE /\ captures' = 0 /\ invalids' = 0

(* hall_decoder_set_invalid_state().                                       *)
InvalidState ==
  [sector |-> Broken, direction |-> "unknown", interval |-> Period,
   has_valid_speed |-> FALSE, is_angle_from_edge |-> FALSE,
   is_timed_out |-> published.is_timed_out]

(* hall_decoder_resynchronize(): the centre of a sector, no direction.     *)
Resynchronized(timed_out) ==
  [sector |-> published.hall_state, direction |-> "unknown", interval |-> Period,
   has_valid_speed |-> timed_out, is_angle_from_edge |-> FALSE, is_timed_out |-> timed_out]

DecodeNothing ==
  /\ ~IsChanged
  /\ status' = IF decoded.sector = Broken THEN "INVALID_HALL_STATE" ELSE "OK"
  /\ UNCHANGED <<decoded, has_observation, countVars>>

DecodeInvalidState ==
  /\ IsChanged /\ published.hall_state = Broken
  /\ Observe(InvalidState) /\ status' = "INVALID_HALL_STATE"

(* Mutant: the failure is reported, but the capture count not taken over.   *)
DecodeInvalidCaptureUnseen ==
  /\ IsChanged /\ has_observation /\ invalids # 0 /\ published.hall_state # Broken
  /\ status' = "INVALID_CAPTURE" /\ UNCHANGED <<decoded, has_observation, countVars>>

DecodeInvalidCapture ==
  /\ IsChanged /\ has_observation /\ invalids # 0 /\ published.hall_state # Broken
  /\ Observe(Resynchronized(published.is_timed_out)) /\ status' = "INVALID_CAPTURE"

(* The first observation, or the first after an invalid state.             *)
DecodeFirst ==
  /\ IsChanged /\ published.hall_state # Broken
  /\ ~has_observation \/ (decoded.sector = Broken /\ invalids = 0)
  /\ Observe(Resynchronized(published.is_timed_out)) /\ status' = "OK"

Continues ==
  /\ IsChanged /\ has_observation /\ invalids = 0
  /\ decoded.sector # Broken /\ published.hall_state # Broken

(* Mutant: the last speed stays.                                            *)
DecodeTimeoutKeepsSpeed ==
  /\ Continues /\ captures = 0 /\ published.is_timed_out # decoded.is_timed_out
  /\ Observe([decoded EXCEPT !.is_timed_out = published.is_timed_out])
  /\ status' = "OK"

(* Only the time-out has changed: the speed is zero, the angle stays.      *)
DecodeTimeout ==
  /\ Continues /\ captures = 0 /\ published.is_timed_out # decoded.is_timed_out
  /\ Observe([sector |-> decoded.sector, direction |-> decoded.direction,
              interval |-> Period, has_valid_speed |-> published.is_timed_out,
              is_angle_from_edge |-> decoded.is_angle_from_edge,
              is_timed_out |-> published.is_timed_out])
  /\ status' = "OK"

DecodeMissed ==
  /\ Continues /\ captures = 2
  /\ Observe(Resynchronized(FALSE)) /\ status' = "MISSED_CAPTURE"

DecodeEdge ==
  /\ Continues /\ captures = 1
  /\ LET direction == Direction(decoded.sector, published.hall_state)
     IN IF direction = "unknown"
          THEN Observe(Resynchronized(FALSE)) /\ status' = "INVALID_TRANSITION"
          ELSE /\ Observe([sector |-> published.hall_state, direction |-> direction,
                           interval |-> published.edge_rate,
                           has_valid_speed |-> published.has_valid_edge_rate,
                           is_angle_from_edge |-> TRUE, is_timed_out |-> FALSE])
               /\ status' = "OK"

Decode ==
  \/ DecodeNothing \/ DecodeInvalidState \/ DecodeInvalidCapture \/ DecodeFirst
  \/ DecodeTimeout \/ DecodeMissed \/ DecodeEdge

(* hall_estimator_update_unchecked(), run after a success of the decoder:   *)
(* the transition counter has changed if the decoder took an edge.          *)
NewTransition == estimator.has_observation /\ captures = 1 /\ decoded'.is_angle_from_edge

NewObservation ==
  \/ ~estimator.has_observation \/ NewTransition
  \/ estimator.sector # decoded'.sector
  \/ estimator.has_valid_speed # decoded'.has_valid_speed
  \/ estimator.is_angle_from_edge # decoded'.is_angle_from_edge
  \/ estimator.is_timed_out # decoded'.is_timed_out

(* A time-out alone keeps the angle that was integrated since the edge.    *)
Synchronizes ==
  ~estimator.has_observation \/ NewTransition \/ ~decoded'.is_angle_from_edge

Follow ==
  IF NewObservation
    THEN estimator' =
           [has_observation |-> TRUE, sector |-> decoded'.sector,
            has_valid_speed |-> decoded'.has_valid_speed, interval |-> decoded'.interval,
            is_angle_from_edge |-> decoded'.is_angle_from_edge,
            is_timed_out |-> decoded'.is_timed_out,
            reference |-> IF Synchronizes THEN <<decoded'.sector, decoded'.direction>>
                                          ELSE estimator.reference,
            has_edge_reference |-> IF Synchronizes THEN decoded'.is_angle_from_edge
                                                   ELSE estimator.has_edge_reference]
    ELSE UNCHANGED estimator

FastLoop ==
  /\ Decode
  /\ IF status' = "OK" THEN Follow ELSE UNCHANGED estimator
  /\ UNCHANGED <<plantVars, timerVars, pc, registerVars, driverVars>>

Next == RotorMoves \/ LineBreaks \/ LineMended \/ Count \/ HallInterrupt \/ FastLoop

Spec == Init /\ [][Next]_vars

(* Time passes, raised interrupts are served, the ADC interrupt comes.     *)
FairSpec == Spec /\ WF_vars(Count) /\ WF_vars(HallInterrupt) /\ WF_vars(FastLoop)

(* ... which says something only if they always can, whatever the registers  *)
(* and the feedback hold: time goes on while nothing is raised, the          *)
(* interrupt with all that is, the decoder with all that is published.       *)
NobodyWaits ==
  /\ pc = "idle" /\ ~cc1if /\ ~uif => ENABLED <<Count>>_vars
  /\ pc # "idle" \/ cc1if \/ uif => ENABLED <<HallInterrupt>>_vars
  /\ IsChanged => ENABLED <<FastLoop>>_vars

-----------------------------------------------------------------------------
(* Properties.                                                             *)

(* Why they hold.  The interrupt is served before the counter can wrap once *)
(* more, so an edge is read while its count is still that of its interval... *)
ServingPcs == CapturePcs \cup {"clearUpdate"}

EdgesAreServedInTime ==
  /\ since < Period => counter = since
  /\ cc1if => since <= lag + Latency
  /\ cc1if /\ pc # "idle" => since <= lag
  /\ pc \in ServingPcs \/ capture_with_pending_timeout => since <= lag + Latency

(* ... and an update flag that stands at a capture is older than its edge   *)
(* and served in the same interrupt.                                       *)
UpdatesAreAccountedFor ==
  /\ pc \in CapturePcs => ~capture_with_pending_timeout /\ (update_seen <=> uif)
  /\ pc \in {"readState", "capture"} => (pending <=> uif)
  /\ pc = "clearUpdate" => capture_with_pending_timeout
  /\ pc = "idle" => ~capture_with_pending_timeout
  /\ pc = "idle" /\ uif /\ ~cc1if => since = Period
  /\ pc = "timeout" =>
       IF capture_with_pending_timeout THEN ~uif ELSE since = Period \/ cc1if

(* An interval has a reference only if the counter has not wrapped in it,   *)
(* or a wrap will be found at its end.                                     *)
ReferenceIsGood ==
  /\ pc = "idle" /\ has_valid_interval_reference =>
       IF cc1if THEN ccr = span \/ uif ELSE since < Period \/ uif
  /\ pc = "readCapture" /\ has_valid_interval_reference => ccr = span \/ uif
  /\ pc \in {"readState", "capture"} /\ has_valid_interval_reference =>
       ticks = ticks_span \/ pending
  /\ (pc \in {"readState", "capture"} \/ capture_with_pending_timeout) /\ cc1if => ccr = span

(* The published sector is the rotor's but for edges that are being served, *)
(* and the decoded one is the published but for captures not yet decoded.  *)
SectorsAreAccountedFor ==
  /\ \/ lost \/ cc1if \/ pc \in {"readCapture", "readState"}
     \/ IF pc = "capture" THEN seen = line ELSE published.hall_state = line
  /\ has_observation /\ captures = 0 /\ invalids = 0 =>
       decoded.sector = published.hall_state

(* An edge rate that is called valid was measured between the last two      *)
(* edges, with no overflow of the counter in between (hall_driver.h,        *)
(* edge_rate_hz).                                                           *)
RateIsMeasured ==
  published.has_valid_edge_rate => published.edge_rate = published.interval

(* A time-out is published only when the lines have been quiet for a whole  *)
(* period, or an edge that ended it is on its way.                          *)
TimeoutIsReal == published.is_timed_out => since = Period \/ cc1if \/ pc \in CapturePcs

(* The conjunction every step preserves.                                   *)
IInv ==
  /\ TypeOK /\ EdgesAreServedInTime /\ UpdatesAreAccountedFor /\ ReferenceIsGood
  /\ SectorsAreAccountedFor /\ RateIsMeasured /\ TimeoutIsReal

(* However edges and interrupts fell, at rest the decoded sector is the     *)
(* rotor's.                                                                 *)
SectorSettles == Settled => decoded.sector = line

(* An overcapture waits for the capture that finds it.                     *)
OvercapturesAreAccountedFor ==
  cc1of => cc1if \/ pc = "readCapture" \/ (pc \in {"readState", "capture"} /\ over)

(* A clean edge on its way: alone in the chain, and unlike the zero count    *)
(* and the unchanged lines that the driver takes for invalid ...            *)
EdgeIsAlone ==
  clean =>
    /\ ~lost /\ ~cc1of /\ invalids = 0 /\ captures # 2 /\ status = "OK"
    /\ Broken \notin {line, published.hall_state}
    /\ cc1if => pc \notin CapturePcs
    /\ cc1if \/ pc \in CapturePcs =>
         captures = 0 /\ way # "unknown" /\ way = Direction(published.hall_state, line)
    /\ cc1if \/ pc = "readCapture" => ccr # 0
    /\ pc \in {"readState", "capture"} => ticks # 0 /\ ~over
    /\ captures = 1 =>
         /\ way # "unknown"
         /\ has_observation => /\ decoded.sector # Broken
                               /\ way = Direction(decoded.sector, published.hall_state)

(* ... and what it carries to the decoder is its own interval.             *)
EdgeIsMeasured ==
  clean =>
    /\ pc \in {"readState", "capture"} => ticks_span = span
    /\ captures = 1 /\ published.has_valid_edge_rate => published.interval = span
    /\ Consumed /\ decoded.has_valid_speed /\ ~decoded.is_timed_out =>
         decoded.direction = way /\ decoded.interval = span

(* An observation without an edge has neither direction nor interval, and   *)
(* no other follows a failure.                                              *)
DecoderIsCoherent ==
  /\ ~published.has_valid_edge_rate => published.edge_rate = Period
  /\ ~decoded.is_angle_from_edge => decoded.direction = "unknown" /\ decoded.interval = Period
  /\ ~decoded.has_valid_speed \/ decoded.is_timed_out => decoded.interval = Period
  /\ decoded.is_angle_from_edge => status = "OK"

(* The estimator holds the observation of the decoder's last success.      *)
EstimatorMirrors ==
  status = "OK" /\ has_observation =>
    /\ estimator.has_observation /\ estimator.sector = decoded.sector
    /\ estimator.has_valid_speed = decoded.has_valid_speed
    /\ estimator.is_angle_from_edge = decoded.is_angle_from_edge
    /\ estimator.is_timed_out = decoded.is_timed_out

EstimatorIsCoherent ==
  estimator.has_observation /\ ~estimator.is_angle_from_edge =>
    /\ estimator.reference = <<estimator.sector, "unknown">>
    /\ ~estimator.has_edge_reference /\ estimator.interval = Period

(* What the chain beyond the driver relies on, beside IInv.                 *)
ChainIsCoherent ==
  /\ OvercapturesAreAccountedFor /\ EdgeIsAlone /\ EdgeIsMeasured
  /\ DecoderIsCoherent /\ EstimatorMirrors /\ EstimatorIsCoherent

(* After every success the estimator stands on the angle of the decoder's   *)
(* last edge or resynchronisation: no stale observation is integrated.      *)
EstimatorFollows ==
  status = "OK" /\ has_observation =>
    /\ estimator.has_observation
    /\ estimator.reference = <<decoded.sector, decoded.direction>>
    /\ estimator.has_edge_reference = decoded.is_angle_from_edge
    /\ estimator.interval = decoded.interval

(* Lines read before an edge was lost are good ones, as no edge has come     *)
(* since; and a decoded time-out is a speed of zero, never no speed.        *)
StandstillIsDecoded ==
  /\ lost => ~cc1if /\ pc \notin CapturePcs /\ published.hall_state # Broken
  /\ decoded.is_timed_out /\ decoded.sector # Broken => decoded.has_valid_speed

(* However edges, wraps and interrupts fell, valid rates are measured,      *)
(* time-outs are real, at rest the sector is the rotor's, and the estimator *)
(* follows the decoder.                                                    *)
Safety ==
  IInv /\ ChainIsCoherent /\ SectorSettles /\ EstimatorFollows /\ StandstillIsDecoded

(* After clean edges a valid speed at rest is zero under a time-out, else   *)
(* it has the direction and the interval of the last edge.                  *)
SpeedIsTrue ==
  clean /\ Settled /\ decoded.has_valid_speed =>
    IF decoded.is_timed_out THEN decoded.interval = Period
    ELSE decoded.direction = way /\ decoded.interval = span

(* A rotor that moves from sector to sector no faster than the chain        *)
(* follows never makes the decoder fail, which would trip the drive.        *)
CleanEdgesDecode == clean => status = "OK"

(* A rotor that stands still on good lines is seen to: however the last     *)
(* edges fell, the decoder ends up with a valid speed of zero.              *)
StandstillIsSeen ==
  <>[][Count \/ HallInterrupt \/ FastLoop]_vars =>
    <>[](line = Broken \/ (decoded.is_timed_out /\ decoded.has_valid_speed))

=============================================================================
