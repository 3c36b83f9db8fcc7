------------------------ MODULE ReferencePathProofs -------------------------
(***************************************************************************)
(* For all limits and requests: the reference keeps the circle, the range   *)
(* and the rate of each axis and never moves away from its target, which is *)
(* always a whole one prepared under the limits in force; and it comes to   *)
(* rest at a target that stays, unless the circle is in the way.           *)
(***************************************************************************)
EXTENDS ReferencePath, Descent, TLAPS

-----------------------------------------------------------------------------
(* The limits.                                                             *)

(* Zero is in the limits of every valid configuration.                     *)
LEMMA ZeroInConfig ==
  ASSUME NEW c \in Configs
  PROVE  /\ Zero \in Points /\ InCircle(Zero, c.magnitude)
         /\ \A a \in Axes : c.min[a] <= Zero[a] /\ Zero[a] <= c.max[a]
<1>1. c.magnitude \in Nat /\ \A a \in Axes : c.min[a] <= 0 /\ 0 <= c.max[a]
  BY ConfigAssumption
<1>2. \A m \in Nat : 0 <= m * m
  BY SMT
<1>3. QED
  BY <1>1, <1>2, SMT DEF InCircle, Zero, Axes, Points

(* So zero is in the limits in force.                                      *)
LEMMA ZeroInLimits ==
  ASSUME TypeOK
  PROVE  Zero \in Points /\ InLimits(Zero)
BY ZeroInConfig DEF TypeOK, InLimits

(* A limited step ends inside the circle and on the way to its goal.        *)
LEMMA LimitStepBetween ==
  ASSUME TypeOK, NEW from \in Points, NEW to \in Points, NEW p \in LimitStep(from, to)
  PROVE  /\ p \in Points /\ InCircle(p, config.magnitude)
         /\ \A a \in Axes : Between(from[a], p[a], to[a])
<1>1. CASE InCircle(to, config.magnitude)
  <2>1. p = to
    BY <1>1 DEF LimitStep
  <2>2. QED
    BY <1>1, <2>1, SMT DEF Between, Points
<1>2. CASE ~InCircle(to, config.magnitude)
  <2>1. p \in Way(from, to)
    BY <1>2 DEF LimitStep
  <2>2. p \in Points
    BY <2>1, SMT DEF Way, Points, Axes
  <2>3. QED
    BY <2>1, <2>2, Zenon DEF Way
<1>3. QED
  BY <1>1, <1>2

(* What is on the way between two points in the range of each axis is in    *)
(* the range too.                                                          *)
LEMMA BetweenInRange ==
  ASSUME TypeOK, NEW from \in Points, NEW to \in Points, NEW p \in Points,
         \A a \in Axes : config.min[a] <= from[a] /\ from[a] <= config.max[a],
         \A a \in Axes : config.min[a] <= to[a] /\ to[a] <= config.max[a],
         \A a \in Axes : Between(from[a], p[a], to[a])
  PROVE  \A a \in Axes : config.min[a] <= p[a] /\ p[a] <= config.max[a]
<1>1. config.min \in Points /\ config.max \in Points
  BY ConfigAssumption DEF TypeOK
<1>2. QED
  BY <1>1, SMT DEF Between, Points

(* A prepared target is in the limits (motor_control_limit_current_reference). *)
LEMMA PreparedInLimits ==
  ASSUME TypeOK, NEW r \in Points, NEW p \in Prepared(r)
  PROVE  p \in Points /\ InLimits(p)
<1> DEFINE c == [a \in Axes |-> Clamp(r[a], Lower(a), Upper(a))]
<1>1. /\ config.magnitude \in Nat /\ config.min \in Points /\ config.max \in Points
      /\ \A a \in Axes : config.min[a] <= 0 /\ 0 <= config.max[a]
  BY ConfigAssumption DEF TypeOK
<1>2. c \in Points
  BY <1>1, SMT DEF Points, Clamp, Lower, Upper
<1>3. \A a \in Axes : config.min[a] <= c[a] /\ c[a] <= config.max[a]
  BY <1>1, SMT DEF Points, Clamp, Lower, Upper
<1>4. p \in LimitStep(Zero, c)
  BY DEF Prepared
<1>5. Zero \in Points /\ InLimits(Zero)
  BY ZeroInLimits
<1> HIDE DEF c
<1>6. /\ p \in Points /\ InCircle(p, config.magnitude)
      /\ \A a \in Axes : Between(Zero[a], p[a], c[a])
  BY <1>2, <1>4, <1>5, LimitStepBetween
<1>7. \A a \in Axes : config.min[a] <= p[a] /\ p[a] <= config.max[a]
  BY <1>2, <1>3, <1>5, <1>6, BetweenInRange DEF InLimits
<1>8. QED
  BY <1>6, <1>7 DEF InLimits

(* One update of a rate limiter (rate_limiter_update_fast).                 *)
LEMMA TowardsStep ==
  ASSUME NEW x \in Int, NEW y \in Int, NEW rise \in Nat, NEW fall \in Nat
  PROVE  /\ Towards(x, y, rise, fall) \in Int
         /\ Between(x, Towards(x, y, rise, fall), y)
         /\ Towards(x, y, rise, fall) - x <= rise
         /\ x - Towards(x, y, rise, fall) <= fall
  BY SMT DEF Towards, Between

(* One cycle of the controller towards a goal in the limits.                *)
LEMMA UpdateStep ==
  ASSUME TypeOK, Synchronised, ReferenceInLimits,
         NEW goal \in Points, InLimits(goal), UpdateReference(goal)
  PROVE  /\ reference' \in Points /\ limiter' = reference' /\ InLimits(reference')
         /\ \A a \in Axes : /\ reference'[a] - reference[a] <= config.rise[a]
                            /\ reference[a] - reference'[a] <= config.fall[a]
                            /\ Between(reference[a], reference'[a], goal[a])
<1> DEFINE c == [a \in Axes |->
        Towards(limiter[a], goal[a], config.rise[a], config.fall[a])]
<1>1. reference' \in LimitStep(reference, c) /\ limiter' = reference'
  BY DEF UpdateReference
<1>2. /\ reference \in Points /\ limiter = reference
      /\ config.rise \in [Axes -> Nat] /\ config.fall \in [Axes -> Nat]
  BY ConfigAssumption DEF TypeOK, Synchronised
<1>3. \A a \in Axes : /\ c[a] \in Int /\ Between(reference[a], c[a], goal[a])
                      /\ c[a] - reference[a] <= config.rise[a]
                      /\ reference[a] - c[a] <= config.fall[a]
  <2>1. TAKE a \in Axes
  <2>2. /\ reference[a] \in Int /\ goal[a] \in Int
        /\ config.rise[a] \in Nat /\ config.fall[a] \in Nat
    BY <1>2 DEF Points
  <2>3. c[a] = Towards(reference[a], goal[a], config.rise[a], config.fall[a])
    BY <1>2
  <2> HIDE DEF c
  <2>4. QED
    BY <2>2, <2>3, TowardsStep
<1>4. c \in Points
  BY <1>3 DEF Points
<1> HIDE DEF c
<1>5. /\ reference' \in Points /\ InCircle(reference', config.magnitude)
      /\ \A a \in Axes : Between(reference[a], reference'[a], c[a])
  BY <1>1, <1>2, <1>4, LimitStepBetween
<1>6. \A a \in Axes : /\ reference'[a] - reference[a] <= config.rise[a]
                      /\ reference[a] - reference'[a] <= config.fall[a]
                      /\ Between(reference[a], reference'[a], goal[a])
  BY <1>2, <1>3, <1>4, <1>5, SMT DEF Between, Points
<1>7. \A a \in Axes : config.min[a] <= reference'[a] /\ reference'[a] <= config.max[a]
  BY <1>2, <1>5, <1>6, BetweenInRange DEF InLimits, ReferenceInLimits
<1>8. QED
  BY <1>1, <1>5, <1>6, <1>7 DEF InLimits

-----------------------------------------------------------------------------
(* The double buffers.                                                     *)

(* A write leaves what readers read as it is.                              *)
LEMMA WriteSlot ==
  ASSUME TypeOK, NEW b \in Buffers, NEW p \in Points, Write(b, p), UNCHANGED active
  PROVE  /\ slot' \in [Buffers -> [{0, 1} -> Points]]
         /\ Inactive(b)' = p
         /\ \A c \in Buffers : /\ Active(c)' = Active(c)
                               /\ c # b => Inactive(c)' = Inactive(c)
<1>1. /\ slot \in [Buffers -> [{0, 1} -> Points]] /\ active \in [Buffers -> {0, 1}]
      /\ slot' = [slot EXCEPT ![b] = [slot[b] EXCEPT ![1 - active[b]] = p]]
      /\ active' = active
  BY DEF TypeOK, Write
<1>2. /\ 1 - active[b] \in {0, 1} /\ 1 - active[b] # active[b]
  BY <1>1, SMT
<1>3. QED
  BY <1>1, <1>2 DEF Active, Inactive

(* A flip of the index exchanges what is read and what is written.          *)
LEMMA FlipSlots ==
  ASSUME TypeOK, NEW b \in Buffers, Flip(b), UNCHANGED slot
  PROVE  /\ active' \in [Buffers -> {0, 1}]
         /\ Active(b)' = Inactive(b) /\ Inactive(b)' = Active(b)
         /\ \A c \in Buffers : c # b => Active(c)' = Active(c) /\ Inactive(c)' = Inactive(c)
<1>1. /\ active \in [Buffers -> {0, 1}] /\ slot' = slot
      /\ active' = [active EXCEPT ![b] = 1 - active[b]]
  BY DEF TypeOK, Flip
<1>2. 1 - active[b] \in {0, 1} /\ 1 - (1 - active[b]) = active[b]
  BY <1>1, SMT
<1>3. QED
  BY <1>1, <1>2 DEF Active, Inactive

(* app_start_speed_control() and app_stop_foc_control() publish zero.       *)
LEMMA SpeedTargetZeroed ==
  ASSUME TypeOK, ZeroSpeedTarget
  PROVE  /\ slot' \in [Buffers -> [{0, 1} -> Points]] /\ active' \in [Buffers -> {0, 1}]
         /\ Active("SPEED")' = Zero
         /\ Active("CURRENT")' = Active("CURRENT") /\ Inactive("CURRENT")' = Inactive("CURRENT")
<1>1. /\ slot \in [Buffers -> [{0, 1} -> Points]] /\ active \in [Buffers -> {0, 1}]
      /\ slot' = [slot EXCEPT !["SPEED"] = [slot["SPEED"] EXCEPT ![1 - active["SPEED"]] = Zero]]
      /\ active' = [active EXCEPT !["SPEED"] = 1 - active["SPEED"]]
  BY DEF TypeOK, Write, Flip, ZeroSpeedTarget
<1>2. 1 - active["SPEED"] \in {0, 1} /\ Zero \in Points
  BY <1>1, ZeroInLimits, SMT DEF Buffers
<1>3. QED
  BY <1>1, <1>2 DEF Active, Inactive, Buffers

(* Slots hold points.                                                      *)
LEMMA SlotsArePoints ==
  ASSUME TypeOK
  PROVE  \A b \in Buffers : Active(b) \in Points /\ Inactive(b) \in Points
<1>1. slot \in [Buffers -> [{0, 1} -> Points]] /\ active \in [Buffers -> {0, 1}]
  BY DEF TypeOK
<1>2. \A b \in Buffers : 1 - active[b] \in {0, 1}
  BY <1>1, SMT
<1>3. QED
  BY <1>1, <1>2 DEF Active, Inactive

(* With the buffers and the limits left alone nothing about them changes.   *)
LEMMA SlotsStay ==
  ASSUME UNCHANGED bufferVars
  PROVE  \A b \in Buffers : Active(b)' = Active(b) /\ Inactive(b)' = Inactive(b)
BY DEF bufferVars, Active, Inactive

(* The limits are those of the configuration alone.                        *)
LEMMA LimitsStay ==
  ASSUME UNCHANGED config
  PROVE  \A p : InLimits(p)' <=> InLimits(p)
BY DEF InLimits

-----------------------------------------------------------------------------
(* The invariant.                                                          *)

(* The invariant holds of every start.                                     *)
THEOREM InitIInv == Init => IInv
<1> SUFFICES ASSUME Init PROVE IInv
  OBVIOUS
<1>1. TypeOK
  BY SMT DEF Init, TypeOK, Points, Zero, Buffers, Steps, Continuations, Drives
<1>2. InLimits(Zero)
  BY <1>1, ZeroInLimits
<1>3. QED
  BY <1>1, <1>2, SMT DEF Init, IInv, Synchronised, ReferenceInLimits, TargetInLimits, Foc,
     Publication, ModeOff, WritesTarget, Buffers

(* The interrupt.                                                          *)
LEMMA AdcStep ==
  ASSUME IInv, Adc PROVE IInv'
<1>0. /\ TypeOK /\ Synchronised /\ ReferenceInLimits /\ TargetInLimits /\ Publication /\ ModeOff
      /\ Zero \in Points /\ InLimits(Zero)
      /\ \A b \in Buffers : Active(b) \in Points
      /\ "CURRENT" \in Buffers /\ "SPEED" \in Buffers /\ "DISABLED" \notin Buffers
  BY ZeroInLimits, SlotsArePoints DEF IInv, Buffers
<1>1. UNCHANGED <<config, bufferVars, speed, mainVars, tick>>
  BY DEF Adc, Control, Fault, ClearFault, controlVars, stateVars
<1>2. /\ \A b \in Buffers : Active(b)' = Active(b) /\ Inactive(b)' = Inactive(b)
      /\ \A p : InLimits(p)' <=> InLimits(p)
  BY <1>1, SlotsStay, LimitsStay
<1>3. /\ mode' = mode \/ mode' = "DISABLED"
      /\ drive' = drive \/ (drive' = "FAULTED" /\ mode' = "DISABLED")
      /\ fault' \in {"clear", "latched"}
  BY <1>0, SMT DEF Adc, Control, Fault, ClearFault, DisableForFault, stateVars, TypeOK
<1>4. reference' \in Points /\ limiter' = reference' /\ InLimits(reference')
  <2>1. CASE Control
    <3>1. Target \in Points /\ InLimits(Target) /\ UpdateReference(Target)
      BY <1>0, <2>1 DEF Control, Foc, Target, TargetInLimits
    <3>2. QED
      BY <1>0, <1>2, <3>1, UpdateStep
  <2>2. CASE Fault
    BY <1>0, <1>2, <2>2 DEF Fault, DisableForFault, ResetControl, TypeOK, Synchronised,
       ReferenceInLimits
  <2>3. CASE ClearFault
    BY <1>0, <1>2, <2>3 DEF ClearFault, controlVars, TypeOK, Synchronised, ReferenceInLimits
  <2>4. QED
    BY <2>1, <2>2, <2>3 DEF Adc
<1>5. TypeOK'
  BY <1>0, <1>1, <1>3, <1>4, SMT DEF TypeOK, bufferVars, mainVars, Drives
<1>6. Synchronised' /\ ReferenceInLimits' /\ TargetInLimits'
  <2>1. Foc' => Foc /\ mode' = mode
    BY <1>0, <1>3 DEF Foc
  <2>2. TargetInLimits'
    BY <1>0, <1>2, <2>1 DEF TargetInLimits, Target, Foc
  <2>3. QED
    BY <1>1, <1>4, <2>2 DEF Synchronised, ReferenceInLimits, InLimits
<1>7. Publication'
  BY <1>0, <1>1, <1>2, <1>3, SMT DEF Publication, WritesTarget, mainVars
<1>8. ModeOff'
  BY <1>0, <1>1, <1>3, SMT DEF ModeOff, WritesTarget, mainVars
<1>9. QED
  BY <1>5, <1>6, <1>7, <1>8 DEF IInv

(* The tick.                                                               *)
LEMMA TickStep ==
  ASSUME IInv, TickUpdate \/ TickPublish PROVE IInv'
<1>0. /\ TypeOK /\ Synchronised /\ ReferenceInLimits /\ TargetInLimits /\ Publication /\ ModeOff
      /\ "CURRENT" \in Buffers /\ "SPEED" \in Buffers
  BY DEF IInv, Buffers
<1>1. UNCHANGED <<controlVars, stateVars, mainVars>> /\ tick' \in {"idle", "publish"}
  BY DEF TickUpdate, TickPublish
<1>2. /\ config' = config /\ reference' = reference /\ limiter' = limiter /\ mode' = mode
      /\ \A p : InLimits(p)' <=> InLimits(p)
  BY <1>1, LimitsStay DEF controlVars, stateVars
<1>3. Synchronised' /\ ReferenceInLimits' /\ ModeOff'
  BY <1>0, <1>1, <1>2, SMT DEF Synchronised, ReferenceInLimits, ModeOff, WritesTarget, stateVars,
     mainVars
<1>4. CASE TickUpdate
  <2>1. PICK q \in SpeedRequests :
          \E p \in Prepared([a \in Axes |-> IF a = "q" THEN q ELSE 0]) : Write("SPEED", p)
    BY <1>4 DEF TickUpdate
  <2>2. [a \in Axes |-> IF a = "q" THEN q ELSE 0] \in Points
    BY RequestAssumption, SMT DEF Points
  <2>3. PICK p \in Points : InLimits(p) /\ Write("SPEED", p)
    BY <1>0, <2>1, <2>2, PreparedInLimits
  <2>4. /\ slot' \in [Buffers -> [{0, 1} -> Points]] /\ active' = active
        /\ Inactive("SPEED")' = p
        /\ \A c \in Buffers : Active(c)' = Active(c)
        /\ Inactive("CURRENT")' = Inactive("CURRENT")
    BY <1>0, <1>4, <2>3, WriteSlot DEF TickUpdate
  <2>5. TypeOK'
    BY <1>0, <1>1, <1>2, <2>4 DEF TypeOK, stateVars, mainVars
  <2>6. TargetInLimits'
    BY <1>0, <1>2, <2>4 DEF TargetInLimits, Target, Foc
  <2>7. Publication'
    BY <1>0, <1>1, <1>2, <2>3, <2>4, SMT DEF Publication, WritesTarget, mainVars
  <2>8. QED
    BY <1>3, <2>5, <2>6, <2>7 DEF IInv
<1>5. CASE TickPublish
  <2>1. /\ active' \in [Buffers -> {0, 1}] /\ slot' = slot /\ tick' = "idle" /\ tick = "publish"
        /\ Active("SPEED")' = Inactive("SPEED")
        /\ Active("CURRENT")' = Active("CURRENT")
        /\ Inactive("CURRENT")' = Inactive("CURRENT")
    BY <1>0, <1>5, FlipSlots DEF TickPublish
  <2>2. TypeOK'
    BY <1>0, <1>1, <1>2, <2>1 DEF TypeOK, stateVars, mainVars
  <2>3. TargetInLimits'
    BY <1>0, <1>2, <2>1 DEF TargetInLimits, Target, Foc, Publication, Buffers
  <2>4. Publication'
    BY <1>0, <1>1, <1>2, <2>1, SMT DEF Publication, WritesTarget, mainVars
  <2>5. QED
    BY <1>3, <2>2, <2>3, <2>4 DEF IInv
<1>6. QED
  BY <1>4, <1>5

(* Main while it writes a target to the current buffer and publishes it.    *)
LEMMA TargetStep ==
  ASSUME IInv, WriteD \/ WriteQ \/ PublishTarget PROVE IInv'
<1>0. /\ TypeOK /\ Synchronised /\ ReferenceInLimits /\ TargetInLimits /\ Publication /\ ModeOff
      /\ "CURRENT" \in Buffers /\ "SPEED" \in Buffers
      /\ target \in Points /\ Inactive("CURRENT") \in Points
      /\ next \in Continuations
  BY SlotsArePoints DEF IInv, Buffers, TypeOK
<1>1. UNCHANGED <<controlVars, stateVars, next, target, tick>> /\ tick = "idle"
  BY DEF WriteD, WriteQ, PublishTarget, Goto, At
<1>2. /\ config' = config /\ reference' = reference /\ limiter' = limiter /\ mode' = mode
      /\ \A p : InLimits(p)' <=> InLimits(p)
  BY <1>1, LimitsStay DEF controlVars, stateVars
<1>3. Synchronised' /\ ReferenceInLimits'
  BY <1>0, <1>2 DEF Synchronised, ReferenceInLimits
<1>4. CASE WriteD
  <2> DEFINE p == [Inactive("CURRENT") EXCEPT !["d"] = target["d"]]
  <2>1. p \in Points /\ p["d"] = target["d"]
    BY <1>0, SMT DEF Points, Axes
  <2>2. Write("CURRENT", p) /\ active' = active /\ step = "d" /\ step' = "q"
    BY <1>4 DEF WriteD, Goto, At, Inactive
  <2> HIDE DEF p
  <2>3. /\ slot' \in [Buffers -> [{0, 1} -> Points]]
        /\ Inactive("CURRENT")' = p /\ \A c \in Buffers : Active(c)' = Active(c)
    BY <1>0, <2>1, <2>2, WriteSlot
  <2>4. TypeOK'
    BY <1>0, <1>1, <1>2, <2>2, <2>3, SMT DEF TypeOK, stateVars, Steps
  <2>5. TargetInLimits'
    BY <1>0, <1>2, <2>3 DEF TargetInLimits, Target, Foc
  <2>6. Publication' /\ ModeOff'
    BY <1>0, <1>1, <1>2, <2>1, <2>2, <2>3, SMT DEF Publication, ModeOff, WritesTarget, stateVars
  <2>7. QED
    BY <1>3, <2>4, <2>5, <2>6 DEF IInv
<1>5. CASE WriteQ
  <2> DEFINE p == [Inactive("CURRENT") EXCEPT !["q"] = target["q"]]
  <2>1. p \in Points /\ p["d"] = Inactive("CURRENT")["d"] /\ p["q"] = target["q"]
    BY <1>0, SMT DEF Points, Axes
  <2>2. Write("CURRENT", p) /\ active' = active /\ step = "q" /\ step' = "flip"
    BY <1>5 DEF WriteQ, Goto, At, Inactive
  <2> HIDE DEF p
  <2>3. /\ slot' \in [Buffers -> [{0, 1} -> Points]]
        /\ Inactive("CURRENT")' = p /\ \A c \in Buffers : Active(c)' = Active(c)
    BY <1>0, <2>1, <2>2, WriteSlot
  <2>4. TypeOK'
    BY <1>0, <1>1, <1>2, <2>2, <2>3, SMT DEF TypeOK, stateVars, Steps
  <2>5. TargetInLimits'
    BY <1>0, <1>2, <2>3 DEF TargetInLimits, Target, Foc
  <2>6. Publication' /\ ModeOff'
    BY <1>0, <1>1, <1>2, <2>1, <2>2, <2>3, SMT DEF Publication, ModeOff, WritesTarget, stateVars
  <2>7. QED
    BY <1>3, <2>4, <2>5, <2>6 DEF IInv
<1>6. CASE PublishTarget
  <2>1. /\ active' \in [Buffers -> {0, 1}] /\ slot' = slot /\ step = "flip" /\ step' = next
        /\ Active("CURRENT")' = Inactive("CURRENT") /\ Active("SPEED")' = Active("SPEED")
        /\ Inactive("SPEED")' = Inactive("SPEED")
    BY <1>0, <1>6, FlipSlots DEF PublishTarget, Goto, At
  <2>2. Inactive("CURRENT") = target
    <3>1. \A x, y \in Points : x["d"] = y["d"] /\ x["q"] = y["q"] => x = y
      BY SMT DEF Points, Axes
    <3>2. Inactive("CURRENT")["d"] = target["d"] /\ Inactive("CURRENT")["q"] = target["q"]
      BY <1>0, <2>1 DEF Publication
    <3>3. QED
      BY <1>0, <3>1, <3>2
  <2>3. InLimits(target)
    BY <1>0, <2>1 DEF Publication, WritesTarget
  <2>4. TypeOK'
    BY <1>0, <1>1, <1>2, <2>1, SMT DEF TypeOK, stateVars, Steps
  <2>5. TargetInLimits'
    BY <1>0, <1>2, <2>1, <2>2, <2>3 DEF TargetInLimits, Target, Foc, Buffers
  <2>6. Publication' /\ ModeOff'
    BY <1>0, <1>1, <1>2, <2>1, SMT DEF Publication, ModeOff, WritesTarget, stateVars, Continuations
  <2>7. QED
    BY <1>3, <2>4, <2>5, <2>6 DEF IInv
<1>7. QED
  BY <1>4, <1>5, <1>6

(* Steps of main that leave control, buffers and mode alone: it is enough   *)
(* that the new program point asks for no more than the old one gives.      *)
LEMMA ProgramPointStep ==
  ASSUME IInv, UNCHANGED <<controlVars, bufferVars, mode, fault, tick>>,
         drive' \in Drives, speed' \in {"zero", "set"},
         step' \in Steps, next' \in Continuations, target' \in Points,
         step' \notin {"q", "flip"}, (step' = "d" => InLimits(target')), ModeOff'
  PROVE  IInv'
<1>0. TypeOK /\ Synchronised /\ ReferenceInLimits /\ TargetInLimits /\ Publication
  BY DEF IInv
<1>1. /\ config' = config /\ reference' = reference /\ limiter' = limiter
      /\ slot' = slot /\ active' = active /\ mode' = mode /\ fault' = fault /\ tick' = tick
  BY DEF controlVars, bufferVars
<1>2. TypeOK'
  BY <1>0, <1>1, SMT DEF TypeOK
<1>3. Synchronised' /\ ReferenceInLimits' /\ TargetInLimits'
  BY <1>0, <1>1 DEF Synchronised, ReferenceInLimits, TargetInLimits, Target, Foc, Active, InLimits
<1>4. Publication'
  <2>1. WritesTarget' => InLimits(target)'
    BY <1>1 DEF WritesTarget, InLimits
  <2>2. tick' = "publish" /\ mode' = "SPEED" => InLimits(Inactive("SPEED"))'
    BY <1>0, <1>1 DEF Publication, InLimits, Inactive
  <2>3. QED
    BY <2>1, <2>2 DEF Publication
<1>5. QED
  BY <1>2, <1>3, <1>4 DEF IInv

(* Commands, and the places where main only moves on.                       *)
LEMMA CommandStep ==
  ASSUME IInv, Commands \/ SetRunning \/ StopReady PROVE IInv'
<1>0. /\ TypeOK /\ ModeOff /\ Zero \in Points /\ InLimits(Zero)
  BY ZeroInLimits DEF IInv
<1>1. CASE SetCurrent
  <2>0. PICK r \in CurrentRequests : \E p \in Prepared(r) : SetTarget(p, "idle")
    BY <1>1 DEF SetCurrent
  <2>1. PICK p \in Prepared(r) : SetTarget(p, "idle")
    BY <2>0
  <2>2. p \in Points /\ InLimits(p)
    BY <1>0, <2>1, RequestAssumption, PreparedInLimits
  <2>3. /\ step = "idle" /\ drive = "CURRENT_RUNNING"
        /\ step' = "d" /\ target' = p /\ next' = "idle"
        /\ UNCHANGED <<controlVars, bufferVars, stateVars, tick>>
    BY <1>1, <2>1 DEF SetCurrent, SetTarget, At
  <2>4. ModeOff'
    BY <2>3, SMT DEF ModeOff, WritesTarget, stateVars
  <2>5. QED
    BY <1>0, <2>2, <2>3, <2>4, ProgramPointStep DEF stateVars, TypeOK, Steps, Continuations
<1>2. CASE StartCommand \/ StopCommand
  <2>1. /\ step = "idle" /\ step' = "d" /\ target' = Zero
        /\ next' \in {"start_current", "start_speed", "stop_current"}
        /\ next' = "stop_current" => drive = "CURRENT_RUNNING"
        /\ next' # "stop_current" => drive = "READY"
        /\ speed' \in {"zero", "set"} /\ drive' = drive
        /\ UNCHANGED <<controlVars, bufferVars, mode, fault, tick>>
    BY <1>0, <1>2 DEF StartCommand, StopCommand, SetTarget, At, stateVars, TypeOK
  <2>2. ModeOff'
    BY <1>0, <2>1, SMT DEF ModeOff, WritesTarget
  <2>3. QED
    BY <1>0, <2>1, <2>2, ProgramPointStep DEF TypeOK, Steps, Continuations
<1>3. CASE SpeedCommand \/ SpeedStopCommand \/ RecoverCommand
  <2>1. /\ step = "idle" /\ drive' \in Drives /\ speed' \in {"zero", "set"}
        /\ drive' = "READY" => drive = "FAULTED"
        /\ drive' # "FAULTED"
        /\ UNCHANGED <<controlVars, bufferVars, mode, fault, mainVars, tick>>
    BY <1>0, <1>3 DEF SpeedCommand, SpeedStopCommand, RecoverCommand, At, TypeOK, Drives
  <2>2. ModeOff'
    BY <1>0, <2>1, SMT DEF ModeOff, WritesTarget, mainVars
  <2>3. QED
    BY <1>0, <2>1, <2>2, ProgramPointStep DEF TypeOK, mainVars
<1>4. CASE SetRunning
  <2>1. /\ step' = "idle" /\ drive' \in {"CURRENT_RUNNING", "SPEED_RUNNING"}
        /\ UNCHANGED <<controlVars, bufferVars, mode, fault, speed, next, target, tick>>
    BY <1>4 DEF SetRunning, Goto
  <2>2. ModeOff'
    BY <2>1, SMT DEF ModeOff, WritesTarget
  <2>3. QED
    BY <1>0, <2>1, <2>2, ProgramPointStep DEF TypeOK, Steps, Continuations, Drives
<1>5. CASE StopReady
  <2>1. /\ step = "ready" /\ step' = "idle" /\ drive' = "READY"
        /\ UNCHANGED <<controlVars, bufferVars, mode, fault, speed, next, target, tick>>
    BY <1>5 DEF StopReady, Goto, At
  <2>2. ModeOff'
    BY <1>0, <2>1, SMT DEF ModeOff, WritesTarget
  <2>3. QED
    BY <1>0, <2>1, <2>2, ProgramPointStep DEF TypeOK, Steps, Continuations, Drives
<1>6. QED
  BY <1>1, <1>2, <1>3, <1>4, <1>5 DEF Commands

(* The start of a mode: a target of zero, the limiters reset.               *)
LEMMA StartStep ==
  ASSUME IInv, StartMode \/ SpeedMode PROVE IInv'
<1>0. /\ TypeOK /\ Synchronised /\ ReferenceInLimits /\ TargetInLimits /\ Publication /\ ModeOff
      /\ Zero \in Points /\ InLimits(Zero)
  BY ZeroInLimits DEF IInv
<1>1. CASE StartMode
  <2>1. /\ step \in {"start_current", "start_speed"} /\ mode = "DISABLED"
        /\ UNCHANGED <<config, bufferVars, drive, fault, speed, next, target, tick>>
        /\ tick = "idle"
    BY <1>0, <1>1 DEF StartMode, At, Goto, ModeOff
  <2>2. \/ /\ CommandsAreZero /\ reference' = Zero /\ limiter' = Zero /\ mode' = "CURRENT"
           /\ step' \in {"recheck", "speed_mode"}
        \/ step' = "idle" /\ UNCHANGED <<reference, limiter, mode>>
    BY <1>1, <2>1 DEF StartMode, Goto, ResetControl
  <2>3. TypeOK'
    BY <1>0, <2>1, <2>2, SMT DEF TypeOK, bufferVars, Steps, Continuations, Buffers
  <2>4. Synchronised' /\ ReferenceInLimits'
    BY <1>0, <2>1, <2>2 DEF Synchronised, ReferenceInLimits, InLimits
  <2>5. TargetInLimits'
    <3>1. CASE mode' = "CURRENT"
      <4>1. Active("CURRENT") = Zero
        BY <2>1, <2>2, <3>1 DEF CommandsAreZero
      <4>2. QED
        BY <1>0, <2>1, <3>1, <4>1 DEF TargetInLimits, Target, Active, InLimits, bufferVars
    <3>2. CASE mode' = "DISABLED"
      BY <3>2 DEF TargetInLimits, Foc, Buffers
    <3>3. QED
      BY <2>1, <2>2, <3>1, <3>2
  <2>6. Publication' /\ ModeOff'
    BY <2>1, <2>2, SMT DEF Publication, ModeOff, WritesTarget
  <2>7. QED
    BY <2>3, <2>4, <2>5, <2>6 DEF IInv
<1>2. CASE SpeedMode
  <2>1. /\ step' = "recheck" /\ mode' = "SPEED" /\ tick = "idle"
        /\ UNCHANGED <<controlVars, drive, fault, speed, next, target, tick>>
        /\ ZeroSpeedTarget
    BY <1>2 DEF SpeedMode, Goto, At
  <2>2. /\ slot' \in [Buffers -> [{0, 1} -> Points]] /\ active' \in [Buffers -> {0, 1}]
        /\ Active("SPEED")' = Zero
    BY <1>0, <2>1, SpeedTargetZeroed
  <2>3. config' = config /\ reference' = reference /\ limiter' = limiter
    BY <2>1 DEF controlVars
  <2>4. TypeOK'
    BY <1>0, <2>1, <2>2, <2>3, SMT DEF TypeOK, Steps, Buffers
  <2>5. Synchronised' /\ ReferenceInLimits'
    BY <1>0, <2>3 DEF Synchronised, ReferenceInLimits, InLimits
  <2>6. TargetInLimits'
    BY <1>0, <2>1, <2>2, <2>3 DEF TargetInLimits, Target, InLimits
  <2>7. Publication' /\ ModeOff'
    BY <2>1, SMT DEF Publication, ModeOff, WritesTarget
  <2>8. QED
    BY <2>4, <2>5, <2>6, <2>7 DEF IInv
<1>3. QED
  BY <1>1, <1>2

(* The end of a mode: by a fault that main finds, or in a stop.             *)
LEMMA DisableStep ==
  ASSUME IInv, DisableForFault,
         UNCHANGED <<config, bufferVars, fault, speed, next, target, tick>>, step' = "idle"
  PROVE  IInv'
<1>0. TypeOK /\ Synchronised /\ ReferenceInLimits /\ Zero \in Points /\ InLimits(Zero)
  BY ZeroInLimits DEF IInv
<1>1. /\ mode' = "DISABLED" /\ drive' = "FAULTED" /\ config' = config
      /\ slot' = slot /\ active' = active
      /\ \/ reference' = Zero /\ limiter' = Zero
         \/ reference' = reference /\ limiter' = limiter
  BY DEF DisableForFault, ResetControl, bufferVars
<1>2. TypeOK'
  BY <1>0, <1>1, SMT DEF TypeOK, Drives, Steps, Continuations
<1>3. Synchronised' /\ ReferenceInLimits'
  BY <1>0, <1>1 DEF Synchronised, ReferenceInLimits, InLimits
<1>4. TargetInLimits' /\ Publication' /\ ModeOff'
  BY <1>1, SMT DEF TargetInLimits, Foc, Buffers, Publication, ModeOff, WritesTarget
<1>5. QED
  BY <1>2, <1>3, <1>4 DEF IInv

(* The check of a start for a fault keeps the invariant.                   *)
LEMMA RecheckStep ==
  ASSUME IInv, Recheck PROVE IInv'
<1>0. TypeOK /\ ModeOff
  BY DEF IInv
<1>1. CASE fault = "latched"
  BY <1>1, DisableStep DEF Recheck, Goto
<1>2. ASSUME mode = "CURRENT", UNCHANGED <<controlVars, bufferVars, stateVars, tick>>,
             NEW r \in CurrentRequests, NEW p \in Prepared(r), SetTarget(p, "run_current")
      PROVE  IInv'
  <2>1. p \in Points /\ InLimits(p)
    BY <1>0, RequestAssumption, PreparedInLimits
  <2>2. step' = "d" /\ target' = p /\ next' = "run_current"
    BY <1>2 DEF SetTarget
  <2>3. ModeOff'
    BY <2>2, SMT DEF ModeOff, WritesTarget
  <2>4. QED
    BY <1>0, <1>2, <2>1, <2>2, <2>3, ProgramPointStep DEF stateVars, TypeOK, Steps, Continuations
<1>3. ASSUME UNCHANGED <<controlVars, bufferVars, mode, drive, fault, tick>>,
             speed' \in {"zero", "set"}, Goto("run_speed")
      PROVE  IInv'
  <2>1. step' = "run_speed" /\ next' = next /\ target' = target
    BY <1>3 DEF Goto
  <2>2. ModeOff'
    BY <2>1, SMT DEF ModeOff, WritesTarget
  <2>3. QED
    BY <1>0, <1>3, <2>1, <2>2, ProgramPointStep DEF TypeOK, Steps
<1>4. CASE fault # "latched"
  <2>1. UNCHANGED <<controlVars, bufferVars, mode, drive, fault, tick>>
    BY <1>4 DEF Recheck, controlVars, SetTarget, Goto
  <2>2. \/ /\ mode = "CURRENT" /\ UNCHANGED speed
           /\ \E r \in CurrentRequests : \E p \in Prepared(r) : SetTarget(p, "run_current")
        \/ speed' \in {"zero", "set"} /\ Goto("run_speed")
    BY <1>4 DEF Recheck
  <2>3. QED
    BY <1>2, <1>3, <2>1, <2>2 DEF stateVars
<1>5. QED
  BY <1>1, <1>4

(* So do the update of main and the end of a mode in a stop.               *)
LEMMA UpdateMainStep ==
  ASSUME IInv, Update \/ StopMode PROVE IInv'
<1>0. TypeOK /\ Synchronised /\ ReferenceInLimits /\ TargetInLimits /\ Publication /\ ModeOff
  BY DEF IInv
<1>1. CASE Update
  <2>1. CASE DisableForFault /\ Goto("idle")
    BY <1>1, <2>1, DisableStep DEF Update, Goto
  <2>2. CASE drive = "RAMP_TO_ZERO" /\ Goto("stop_speed") /\ UNCHANGED <<reference, limiter, mode, drive>>
    <3>1. /\ step' = "stop_speed"
          /\ UNCHANGED <<controlVars, bufferVars, stateVars, next, target, tick>>
      BY <1>1, <2>2 DEF Update, Goto, controlVars, stateVars
    <3>2. ModeOff'
      BY <2>2, <3>1, SMT DEF ModeOff, WritesTarget, stateVars
    <3>3. QED
      BY <1>0, <3>1, <3>2, ProgramPointStep DEF TypeOK, Steps, stateVars
  <2>3. QED
    BY <1>1, <2>1, <2>2 DEF Update
<1>2. CASE StopMode
  <2>1. /\ step \in {"stop_current", "stop_speed"}
        /\ UNCHANGED <<controlVars, bufferVars, drive, fault, speed, next, target, tick>>
        /\ tick = "idle"
        /\ \/ mode' = "DISABLED" /\ step' = "stop_zero"
           \/ mode' = mode /\ step' = "idle"
    BY <1>2 DEF StopMode, At, Goto
  <2>2. /\ config' = config /\ reference' = reference /\ limiter' = limiter
        /\ slot' = slot /\ active' = active
    BY <2>1 DEF controlVars, bufferVars
  <2>3. TypeOK'
    BY <1>0, <2>1, <2>2, SMT DEF TypeOK, Steps, Continuations
  <2>4. Synchronised' /\ ReferenceInLimits' /\ TargetInLimits'
    BY <1>0, <2>1, <2>2 DEF Synchronised, ReferenceInLimits, TargetInLimits, Target, Foc, Active,
       InLimits, Buffers
  <2>5. Publication' /\ ModeOff'
    BY <1>0, <2>1, SMT DEF Publication, ModeOff, WritesTarget
  <2>6. QED
    BY <2>3, <2>4, <2>5 DEF IInv
<1>3. QED
  BY <1>1, <1>2

(* So do the zeroing at the end of a stop and a change of the limits.      *)
LEMMA ResetStep ==
  ASSUME IInv, StopZero \/ ApplyParameters PROVE IInv'
<1>0. TypeOK /\ ModeOff /\ Zero \in Points /\ InLimits(Zero)
  BY ZeroInLimits DEF IInv
<1>1. CASE StopZero
  <2>1. /\ step = "stop_zero" /\ step' = "ready" /\ mode = "DISABLED" /\ tick = "idle"
        /\ reference' = Zero /\ limiter' = Zero /\ speed' = "zero" /\ ZeroSpeedTarget
        /\ UNCHANGED <<config, mode, drive, fault, next, target, tick>>
    BY <1>0, <1>1 DEF StopZero, At, Goto, ResetControl, ModeOff
  <2>2. slot' \in [Buffers -> [{0, 1} -> Points]] /\ active' \in [Buffers -> {0, 1}]
    BY <1>0, <2>1, SpeedTargetZeroed
  <2>3. TypeOK'
    BY <1>0, <2>1, <2>2, SMT DEF TypeOK, Steps
  <2>4. Synchronised' /\ ReferenceInLimits'
    BY <1>0, <2>1 DEF Synchronised, ReferenceInLimits, InLimits
  <2>5. TargetInLimits' /\ Publication' /\ ModeOff'
    BY <2>1, SMT DEF TargetInLimits, Foc, Buffers, Publication, ModeOff, WritesTarget
  <2>6. QED
    BY <2>3, <2>4, <2>5 DEF IInv
<1>2. CASE ApplyParameters
  <2>1. /\ step = "idle" /\ mode = "DISABLED" /\ tick = "idle"
        /\ reference' = Zero /\ limiter' = Zero /\ config' \in Configs
        /\ UNCHANGED <<slot, active, mode, drive, fault, speed, step, next, target, tick>>
    BY <1>0, <1>2 DEF ApplyParameters, At, ResetControl, ModeOff, bufferVars, stateVars, mainVars
  <2>2. TypeOK'
    BY <1>0, <2>1, SMT DEF TypeOK
  <2>3. Synchronised' /\ ReferenceInLimits'
    BY <2>1, ZeroInConfig DEF Synchronised, ReferenceInLimits, InLimits
  <2>4. TargetInLimits' /\ Publication' /\ ModeOff'
    BY <1>0, <2>1, SMT DEF TargetInLimits, Foc, Buffers, Publication, ModeOff, WritesTarget
  <2>5. QED
    BY <2>2, <2>3, <2>4 DEF IInv
<1>3. QED
  BY <1>1, <1>2

(* Every step keeps the invariant.                                         *)
THEOREM StepIInv == IInv /\ [Next]_vars => IInv'
<1> SUFFICES ASSUME IInv, [Next]_vars PROVE IInv'
  OBVIOUS
<1>1. CASE Next
  BY <1>1, AdcStep, TickStep, TargetStep, CommandStep, StartStep, RecheckStep, UpdateMainStep,
     ResetStep DEF Next, MainSteps
<1>2. CASE UNCHANGED vars
  BY <1>2, SMT DEF vars, controlVars, bufferVars, stateVars, mainVars, IInv, TypeOK, Synchronised,
     ReferenceInLimits, TargetInLimits, Publication, ModeOff, InLimits, Target, Foc, Active, Inactive,
     WritesTarget
<1>3. QED
  BY <1>1, <1>2

(* The inductive invariant, for all limits and requests: what main and the  *)
(* tick have under way is prepared, and no parameters change under a mode.  *)
THEOREM Invariance == Spec => []IInv
BY InitIInv, StepIInv, PTL DEF Spec

(* Every variable of the reference path keeps its type.                    *)
THEOREM TypeCorrect == Spec => []TypeOK
<1>1. IInv => TypeOK
  BY DEF IInv
<1>2. QED
  BY <1>1, Invariance, PTL

(* The target the interrupt reads is whole and in the limits in force.      *)
THEOREM TargetsInLimits == Spec => []TargetInLimits
<1>1. IInv => TargetInLimits
  BY DEF IInv
<1>2. QED
  BY <1>1, Invariance, PTL

(* The reference keeps the circle and the range of each axis.              *)
THEOREM ReferencesInLimits == Spec => []ReferenceInLimits
<1>1. IInv => ReferenceInLimits
  BY DEF IInv
<1>2. QED
  BY <1>1, Invariance, PTL

(* While a mode runs, nothing but a cycle of the controller moves the       *)
(* reference: no reset of main comes under it.                             *)
LEMMA OnlyControlMoves ==
  ASSUME IInv, [Next]_vars, Foc, Foc', ~Control
  PROVE  reference' = reference
<1>0. ModeOff /\ mode # "DISABLED" /\ mode' # "DISABLED"
  BY DEF IInv, Foc, Buffers
<1>1. CASE Fault \/ ClearFault
  BY <1>0, <1>1 DEF Fault, ClearFault, DisableForFault, controlVars
<1>2. CASE TickUpdate \/ TickPublish \/ WriteD \/ WriteQ \/ PublishTarget
  BY <1>2 DEF TickUpdate, TickPublish, WriteD, WriteQ, PublishTarget, controlVars
<1>3. CASE Commands
  BY <1>3 DEF Commands, SetCurrent, StartCommand, StopCommand, SpeedCommand, SpeedStopCommand,
     RecoverCommand, controlVars
<1>4. CASE StartMode \/ SpeedMode
  BY <1>0, <1>4 DEF StartMode, SpeedMode, controlVars
<1>5. CASE Recheck \/ Update
  BY <1>0, <1>5 DEF Recheck, Update, DisableForFault
<1>6. CASE SetRunning \/ StopMode \/ StopReady
  BY <1>6 DEF SetRunning, StopMode, StopReady, controlVars
<1>7. CASE StopZero \/ ApplyParameters
  BY <1>0, <1>7 DEF StopZero, ApplyParameters, At, ModeOff
<1>8. CASE UNCHANGED vars
  BY <1>8 DEF vars, controlVars
<1>9. QED
  BY <1>1, <1>2, <1>3, <1>4, <1>5, <1>6, <1>7, <1>8 DEF Next, Adc, MainSteps

(* What one step does to the reference under a mode.                        *)
LEMMA MoveStep ==
  ASSUME IInv, [Next]_vars, Foc, Foc'
  PROVE  \A a \in Axes : /\ reference'[a] - reference[a] <= config.rise[a]
                         /\ reference[a] - reference'[a] <= config.fall[a]
                         /\ Between(reference[a], reference'[a], Target[a])
<1>1. /\ TypeOK /\ Synchronised /\ ReferenceInLimits /\ InLimits(Target) /\ Target \in Points
      /\ reference \in Points
      /\ config.rise \in [Axes -> Nat] /\ config.fall \in [Axes -> Nat]
  BY SlotsArePoints, ConfigAssumption DEF IInv, TargetInLimits, TypeOK, Foc, Target
<1>2. CASE Control
  BY <1>1, <1>2, UpdateStep DEF Control
<1>3. CASE ~Control
  <2>1. reference' = reference
    BY <1>3, OnlyControlMoves
  <2>2. QED
    BY <1>1, <2>1, SMT DEF Between, Points
<1>4. QED
  BY <1>2, <1>3

(* Under a mode no axis moves faster than its rate, away from its target or *)
(* past it (motor_control_update_current_reference).                       *)
THEOREM MovesBounded == Spec => MovesAreBounded
<1>1. IInv /\ [Next]_vars => [KeepsRate /\ StaysBetween]_vars
  BY MoveStep DEF KeepsRate, StaysBetween
<1>2. QED
  BY <1>1, Invariance, PTL DEF Spec, MovesAreBounded

-----------------------------------------------------------------------------
(* The stop.                                                               *)

(* A mode that begins after a fault has come is ended by the check of main.  *)
LatchIsRechecked == Foc /\ fault = "latched" => step = "recheck"

(* No step but that check leaves the mode to a latched fault.              *)
LEMMA LatchStep == IInv /\ LatchIsRechecked /\ [Next]_vars => LatchIsRechecked'
<1> SUFFICES ASSUME IInv, LatchIsRechecked, [Next]_vars PROVE LatchIsRechecked'
  OBVIOUS
<1>1. CASE Control
  BY <1>1 DEF Control, LatchIsRechecked, Foc, stateVars, mainVars
<1>2. CASE Fault \/ ClearFault
  BY <1>2 DEF Fault, ClearFault, DisableForFault, LatchIsRechecked, Foc, Buffers
<1>3. CASE TickUpdate \/ TickPublish
  BY <1>3 DEF TickUpdate, TickPublish, LatchIsRechecked, Foc, stateVars, mainVars
<1>4. CASE Commands
  BY <1>4, Zenon DEF Commands, SetCurrent, StartCommand, StopCommand, SpeedCommand, SpeedStopCommand,
     RecoverCommand, At, LatchIsRechecked, Foc, stateVars
<1>5. CASE WriteD \/ WriteQ \/ PublishTarget \/ SetRunning \/ StopZero \/ StopReady
  BY <1>5 DEF WriteD, WriteQ, PublishTarget, SetRunning, StopZero, StopReady, At, LatchIsRechecked,
     Foc, stateVars
<1>6. CASE StartMode
  BY <1>6 DEF StartMode, At, Goto, LatchIsRechecked, Foc
<1>7. CASE SpeedMode
  BY <1>7 DEF SpeedMode, Goto, LatchIsRechecked
<1>8. CASE Recheck \/ Update
  BY <1>8 DEF Recheck, Update, DisableForFault, At, LatchIsRechecked, Foc, Buffers
<1>9. CASE StopMode \/ ApplyParameters
  BY <1>9 DEF StopMode, ApplyParameters, At, LatchIsRechecked, Foc, Buffers, stateVars
<1>10. CASE UNCHANGED vars
  BY <1>10 DEF vars, stateVars, mainVars, LatchIsRechecked, Foc
<1>11. QED
  BY <1>1, <1>2, <1>3, <1>4, <1>5, <1>6, <1>7, <1>8, <1>9, <1>10 DEF Next, Adc, MainSteps

Stuck == Foc /\ fault = "latched"

(* While the mode lasts, a fault that came before it waits for main, which   *)
(* waits for the tick alone and then ends the mode; and none comes.          *)
LEMMA RecheckEnds ==
  ASSUME IInv, LatchIsRechecked, [Next]_vars, Foc, Foc'
  PROVE  /\ Stuck => Stuck'
         /\ Stuck /\ tick = "idle" => tick' = "idle"
         /\ Stuck => (TickPublish => tick' = "idle")
         /\ ~(Stuck /\ tick = "idle" /\ MainSteps)
         /\ fault = "clear" => fault' = "clear"
<1>0. mode' # "DISABLED"
  BY DEF Foc, Buffers
<1>1. fault' = fault
  <2>1. CASE Fault
    BY <1>0, <2>1 DEF Fault, DisableForFault
  <2>2. CASE ClearFault
    BY <2>2 DEF ClearFault, Foc, Buffers
  <2>3. CASE Control \/ TickUpdate \/ TickPublish \/ ApplyParameters \/ UNCHANGED vars
    BY <2>3 DEF Control, TickUpdate, TickPublish, ApplyParameters, vars, stateVars
  <2>4. CASE Commands
    BY <2>4, Zenon DEF Commands, SetCurrent, StartCommand, StopCommand, SpeedCommand,
       SpeedStopCommand, RecoverCommand, stateVars
  <2>5. CASE MainSteps
    BY <2>5 DEF MainSteps, WriteD, WriteQ, PublishTarget, StartMode, SpeedMode, Recheck, SetRunning,
       Update, StopMode, StopZero, StopReady, stateVars
  <2> QED
    BY <2>1, <2>2, <2>3, <2>4, <2>5 DEF Next, Adc
<1>2. ASSUME Stuck, tick = "idle", MainSteps PROVE FALSE
  <2>1. step = "recheck" /\ fault = "latched"
    BY <1>2 DEF Stuck, LatchIsRechecked
  <2>2. Recheck
    BY <1>2, <2>1 DEF MainSteps, WriteD, WriteQ, PublishTarget, StartMode, SpeedMode, SetRunning,
       Update, StopMode, StopZero, StopReady, At
  <2> QED
    BY <1>0, <2>1, <2>2 DEF Recheck, DisableForFault
<1>3. ASSUME Stuck, tick = "idle" PROVE tick' = "idle"
  <2>1. step = "recheck" /\ fault = "latched" /\ ~MainSteps
    BY <1>2, <1>3 DEF Stuck, LatchIsRechecked
  <2>2. CASE Adc
    BY <1>3, <2>2 DEF Adc, Control, Fault, ClearFault
  <2>3. CASE TickUpdate \/ TickPublish
    BY <1>3, <2>1, <2>3 DEF TickUpdate, TickPublish
  <2>4. CASE Commands \/ ApplyParameters
    BY <2>1, <2>4 DEF Commands, SetCurrent, StartCommand, StopCommand, SpeedCommand,
       SpeedStopCommand, RecoverCommand, ApplyParameters, At
  <2>5. CASE UNCHANGED vars
    BY <1>3, <2>5 DEF vars
  <2> QED
    BY <2>1, <2>2, <2>3, <2>4, <2>5 DEF Next
<1> QED
  BY <1>1, <1>2, <1>3 DEF Stuck, TickPublish

Size(x) == IF x < 0 THEN -x ELSE x
Distance ==
  IF Foc THEN Size(reference["d"] - Target["d"]) + Size(reference["q"] - Target["q"]) ELSE 0

(* The distance to the target is a number that can only fall so often.      *)
LEMMA DistanceIsNatural == IInv => Distance \in Nat
<1> SUFFICES ASSUME IInv, Foc PROVE Distance \in Nat
  BY DEF Distance
<1>1. /\ reference["d"] \in Int /\ reference["q"] \in Int
      /\ Target["d"] \in Int /\ Target["q"] \in Int
  BY SlotsArePoints DEF IInv, TypeOK, Points, Axes, Foc, Target
<1> QED
  BY <1>1, SMT DEF Distance, Size

(* While the target stays, each cycle that changes anything brings the       *)
(* reference nearer to it, and nothing takes it away.                       *)
LEMMA TargetIsNearer ==
  ASSUME IInv, [Next]_vars, [TargetStays]_vars, Foc, Foc'
  PROVE  /\ Distance' <= Distance
         /\ <<Control>>_vars => Distance' < Distance
         /\ reference = Target => (reference = Target)'
<1>1. /\ reference["d"] \in Int /\ reference["q"] \in Int /\ reference \in Points
      /\ reference'["d"] \in Int /\ reference'["q"] \in Int /\ reference' \in Points
      /\ Target["d"] \in Int /\ Target["q"] \in Int /\ Target \in Points
  BY StepIInv, SlotsArePoints DEF IInv, TypeOK, Points, Axes, Foc, Target
<1>2. Target' = Target
  BY DEF TargetStays, vars, bufferVars, stateVars, Target, Active
<1>3. /\ Between(reference["d"], reference'["d"], Target["d"])
      /\ Between(reference["q"], reference'["q"], Target["q"])
  BY MoveStep DEF Axes
<1>4. /\ Distance = Size(reference["d"] - Target["d"]) + Size(reference["q"] - Target["q"])
      /\ Distance' = Size(reference'["d"] - Target["d"]) + Size(reference'["q"] - Target["q"])
  BY <1>2 DEF Distance
<1>5. Distance' <= Distance
  BY <1>1, <1>3, <1>4, SMT DEF Size, Between
<1>6. ASSUME <<Control>>_vars PROVE Distance' < Distance
  <2>1. reference' # reference
    <3>1. limiter = reference /\ limiter' = reference'
      BY StepIInv DEF IInv, Synchronised
    <3> QED
      BY <1>6, <3>1 DEF Control, vars, controlVars
  <2>2. reference'["d"] # reference["d"] \/ reference'["q"] # reference["q"]
    BY <1>1, <2>1 DEF Points, Axes
  <2> QED
    BY <1>1, <1>3, <1>4, <2>2, SMT DEF Size, Between
<1>7. ASSUME reference = Target PROVE reference' = Target'
  <2>1. reference'["d"] = Target["d"] /\ reference'["q"] = Target["q"]
    BY <1>1, <1>3, <1>7, SMT DEF Between
  <2> QED
    BY <1>1, <1>2, <2>1 DEF Points, Axes
<1> QED
  BY <1>5, <1>6, <1>7

(* A target that stays is reached where the circle is not in the way: the   *)
(* interrupt that preempts all brings the reference there, whatever main    *)
(* and the tick have under way.                                            *)
THEOREM OpenTargetReached ==
  FairSpec /\ []NobodyWaits /\ NaturalsEnd(Distance, vars) => OpenTargetIsReached
<1>1. Init => LatchIsRechecked
  BY DEF Init, LatchIsRechecked
<1>2. IInv /\ LatchIsRechecked /\ [Next]_vars /\ Foc /\ Foc' /\ Stuck => Stuck'
  BY RecheckEnds
<1>3. IInv /\ LatchIsRechecked /\ [Next]_vars /\ Foc /\ Foc' /\ Stuck /\ tick = "idle"
         => (tick = "idle")'
  BY RecheckEnds
<1>4. IInv /\ LatchIsRechecked /\ [Next]_vars /\ Foc /\ Foc' /\ Stuck /\ <<TickPublish>>_vars
         => (tick = "idle")'
  BY RecheckEnds
<1>5. IInv /\ LatchIsRechecked /\ [Next]_vars /\ Foc /\ Foc' /\ Stuck /\ tick = "idle"
         => ~<<MainSteps>>_vars
  BY RecheckEnds
<1>6. IInv /\ LatchIsRechecked /\ [Next]_vars /\ Foc /\ Foc' /\ fault = "clear" => (fault = "clear")'
  BY RecheckEnds
<1>7. IInv /\ Stuck => tick = "idle" \/ tick = "publish"
  BY DEF IInv, TypeOK
<1>8. LatchIsRechecked /\ Stuck => step = "recheck"
  BY DEF LatchIsRechecked, Stuck
<1>9. IInv /\ Foc => Stuck \/ fault = "clear"
  BY DEF IInv, TypeOK, Stuck
<1>10. IInv /\ [Next]_vars /\ [TargetStays]_vars /\ Foc /\ Foc' => [Distance' <= Distance]_vars
  BY TargetIsNearer
<1>11. IInv /\ [Next]_vars /\ [TargetStays]_vars /\ Foc /\ Foc' /\ <<Control>>_vars
         => <<Distance' < Distance>>_vars
  BY TargetIsNearer
<1>12. IInv /\ [Next]_vars /\ [TargetStays]_vars /\ Foc /\ Foc' /\ reference = Target
         => (reference = Target)'
  BY TargetIsNearer
<1>13. OpenWay => Foc
  BY DEF OpenWay
<1>14. reference = Target \/ reference # Target
  OBVIOUS
<1> QED
  BY <1>1, <1>2, <1>3, <1>4, <1>5, <1>6, <1>7, <1>8, <1>9, <1>10, <1>11, <1>12, <1>13, <1>14, LatchStep,
     DistanceIsNatural, Invariance, PTL
  DEF FairSpec, Spec, NobodyWaits, OpenTargetIsReached, NaturalsEnd, FallsForEver

(* Squares.                                                                *)
LEMMA SquareIsNatural ==
  ASSUME NEW x \in Int PROVE x * x \in Int /\ 0 <= x * x
BY SMT

(* The way to zero is open.                                                *)
LEMMA ZeroIsOpen == IInv /\ Foc /\ Target = Zero => OpenWay
<1> SUFFICES ASSUME IInv, Foc, Target = Zero PROVE OpenWay
  OBVIOUS
<1>1. /\ reference["d"] \in Int /\ reference["q"] \in Int /\ reference \in Points
      /\ InCircle(reference, config.magnitude) /\ config.magnitude \in Nat
  BY ConfigAssumption DEF IInv, TypeOK, Points, Axes, ReferenceInLimits, InLimits
<1> DEFINE D == reference["d"] * reference["d"]
           Q == reference["q"] * reference["q"]
           M == config.magnitude * config.magnitude
<1>2. D \in Int /\ Q \in Int /\ M \in Int /\ 0 <= D /\ 0 <= Q /\ D + Q <= M
  BY <1>1, SquareIsNatural DEF InCircle
<1>3. Target["d"] = 0 /\ Target["q"] = 0
  BY DEF Zero, Axes
<1>4. /\ [reference EXCEPT !["d"] = Target["d"]]["d"] = 0
      /\ [reference EXCEPT !["d"] = Target["d"]]["q"] = reference["q"]
      /\ [reference EXCEPT !["q"] = Target["q"]]["d"] = reference["d"]
      /\ [reference EXCEPT !["q"] = Target["q"]]["q"] = 0
  BY <1>1, <1>3 DEF Points, Axes
<1>5. 0 * 0 + Q <= M /\ D + 0 * 0 <= M
  BY <1>2, SMT
<1> QED
  BY <1>4, <1>5 DEF OpenWay, InCircle

(* A stop by command ends at rest: a target of zero that stays is reached.   *)
THEOREM ZeroReached ==
  FairSpec /\ []NobodyWaits /\ NaturalsEnd(Distance, vars)
    => (<>[](Foc /\ Target = Zero) => <>[](Foc /\ reference = Zero))
<1>1. IInv /\ Foc /\ Target = Zero => OpenWay
  BY ZeroIsOpen
<1>2. [Next]_vars /\ (Foc /\ Target = Zero) /\ (Foc /\ Target = Zero)' => [TargetStays]_vars
  BY DEF TargetStays
<1>3. Target = Zero /\ reference = Target => reference = Zero
  OBVIOUS
<1> QED
  BY <1>1, <1>2, <1>3, OpenTargetReached, Invariance, PTL DEF FairSpec, Spec, OpenTargetIsReached

-----------------------------------------------------------------------------
(* Where d stays 0: under the speed controller, and under torque commands.  *)

(* So is the way between two currents without d.                           *)
LEMMA QWayIsOpen == IInv /\ Foc /\ reference["d"] = 0 /\ Target["d"] = 0 => OpenWay
<1> SUFFICES ASSUME IInv, Foc, reference["d"] = 0, Target["d"] = 0 PROVE OpenWay
  OBVIOUS
<1>1. /\ reference \in Points /\ InCircle(reference, config.magnitude)
      /\ Target \in Points /\ InCircle(Target, config.magnitude)
  BY SlotsArePoints DEF IInv, TypeOK, ReferenceInLimits, TargetInLimits, InLimits, Foc, Target
<1>2. /\ [reference EXCEPT !["d"] = Target["d"]] = reference
      /\ [reference EXCEPT !["q"] = Target["q"]] = Target
  BY <1>1 DEF Points, Axes
<1> QED
  BY <1>1, <1>2 DEF OpenWay

(* A request without d is prepared to a target without d.                   *)
LEMMA PreparedOnQ ==
  ASSUME TypeOK, NEW r \in Points, r["d"] = 0, NEW p \in Prepared(r)
  PROVE  p \in Points /\ p["d"] = 0
<1> DEFINE c == [a \in Axes |-> Clamp(r[a], Lower(a), Upper(a))]
<1>1. /\ config.magnitude \in Nat /\ config.min \in Points /\ config.max \in Points
      /\ \A a \in Axes : config.min[a] <= 0 /\ 0 <= config.max[a]
  BY ConfigAssumption DEF TypeOK
<1>2. c \in Points
  BY <1>1, SMT DEF Points, Clamp, Lower, Upper
<1>3. /\ config.min["d"] \in Int /\ config.max["d"] \in Int
      /\ config.min["d"] <= 0 /\ 0 <= config.max["d"]
  BY <1>1 DEF Points, Axes
<1>4. Clamp(0, Lower("d"), Upper("d")) = 0
  BY <1>1, <1>3, SMT DEF Clamp, Lower, Upper
<1>5. c["d"] = 0
  BY <1>4 DEF Axes
<1>6. p \in LimitStep(Zero, c)
  BY DEF Prepared
<1> HIDE DEF c
<1>7. p \in Points /\ Between(Zero["d"], p["d"], c["d"])
  BY <1>2, <1>6, ZeroInLimits, LimitStepBetween DEF Axes
<1>8. Zero["d"] = 0 /\ p["d"] \in Int
  BY <1>7 DEF Zero, Axes, Points
<1> QED
  BY <1>5, <1>7, <1>8, SMT DEF Between

(* One cycle of the controller without d.                                  *)
LEMMA ControlOnQ ==
  ASSUME IInv, Control, reference["d"] = 0, Target["d"] = 0
  PROVE  reference'["d"] = 0
<1>1. /\ TypeOK /\ Synchronised /\ ReferenceInLimits /\ Foc
      /\ Target \in Points /\ InLimits(Target) /\ UpdateReference(Target)
  BY SlotsArePoints DEF IInv, TargetInLimits, Foc, Target, Control
<1>2. reference' \in Points /\ Between(reference["d"], reference'["d"], Target["d"])
  BY <1>1, UpdateStep DEF Axes
<1>3. reference'["d"] \in Int
  BY <1>2 DEF Points, Axes
<1> QED
  BY <1>2, <1>3, SMT DEF Between

(* A step that is no cycle of the controller leaves the reference or resets  *)
(* it.                                                                     *)
LEMMA OthersReset ==
  ASSUME [Next]_vars, ~Control
  PROVE  reference' = reference \/ reference' = Zero
<1>1. CASE Fault \/ ClearFault \/ TickUpdate \/ TickPublish
  BY <1>1 DEF Fault, ClearFault, TickUpdate, TickPublish, DisableForFault, ResetControl, controlVars
<1>2. CASE Commands
  BY <1>2, Zenon DEF Commands, SetCurrent, StartCommand, StopCommand, SpeedCommand, SpeedStopCommand,
     RecoverCommand, controlVars
<1>3. CASE WriteD \/ WriteQ \/ PublishTarget \/ SetRunning \/ StopReady \/ StopMode \/ SpeedMode
  BY <1>3 DEF WriteD, WriteQ, PublishTarget, SetRunning, StopReady, StopMode, SpeedMode, controlVars
<1>4. CASE StartMode \/ Recheck \/ Update \/ StopZero \/ ApplyParameters
  BY <1>4 DEF StartMode, Recheck, Update, StopZero, ApplyParameters, DisableForFault, ResetControl
<1>5. CASE UNCHANGED vars
  BY <1>5 DEF vars, controlVars
<1> QED
  BY <1>1, <1>2, <1>3, <1>4, <1>5 DEF Next, Adc, MainSteps

(* The tick and main write zero or what a speed controller's q prepares to   *)
(* the speed buffer, so a run under it has no d; its start passes the       *)
(* current mode while nothing has moved yet.                               *)
SpeedOnQ ==
  /\ \A i \in {0, 1} : slot["SPEED"][i]["d"] = 0
  /\ mode = "SPEED" => reference["d"] = 0
  /\ step = "speed_mode" => reference["d"] = 0 /\ Active("CURRENT")["d"] = 0

(* What is written to the speed buffer has no d.                            *)
LEMMA SpeedSlotsOnQ ==
  ASSUME IInv, [Next]_vars, \A i \in {0, 1} : slot["SPEED"][i]["d"] = 0
  PROVE  \A i \in {0, 1} : slot'["SPEED"][i]["d"] = 0
<1>1. TypeOK /\ slot \in [Buffers -> [{0, 1} -> Points]] /\ "SPEED" \in Buffers
      /\ Zero["d"] = 0 /\ Zero \in Points
  BY ZeroInLimits DEF IInv, TypeOK, Buffers, Zero, Axes
<1>2. ASSUME NEW p, p["d"] = 0, Write("SPEED", p)
      PROVE  \A i \in {0, 1} : slot'["SPEED"][i]["d"] = 0
  BY <1>1, <1>2 DEF Write
<1>3. ASSUME NEW p, Write("CURRENT", p)
      PROVE  slot'["SPEED"] = slot["SPEED"]
  BY <1>1, <1>3 DEF Write
<1>4. CASE TickUpdate
  <2>1. PICK q \in SpeedRequests :
          \E p \in Prepared([a \in Axes |-> IF a = "q" THEN q ELSE 0]) : Write("SPEED", p)
    BY <1>4 DEF TickUpdate
  <2>2. [a \in Axes |-> IF a = "q" THEN q ELSE 0] \in Points
    BY RequestAssumption, SMT DEF Points
  <2>3. PICK r \in Points : r = [a \in Axes |-> IF a = "q" THEN q ELSE 0]
    BY <2>2
  <2>4. r["d"] = 0
    BY <2>3 DEF Axes
  <2>5. PICK p \in Points : p["d"] = 0 /\ Write("SPEED", p)
    BY <1>1, <2>1, <2>3, <2>4, PreparedOnQ
  <2> QED
    BY <1>2, <2>5
<1>5. CASE SpeedMode \/ StopZero
  BY <1>1, <1>2, <1>5 DEF SpeedMode, StopZero, ZeroSpeedTarget
<1>6. CASE WriteD \/ WriteQ
  BY <1>3, <1>6 DEF WriteD, WriteQ
<1>7. CASE Adc
  BY <1>7 DEF Adc, Control, Fault, ClearFault, bufferVars
<1>8. CASE Commands
  <2>1. UNCHANGED bufferVars
    BY <1>8, Zenon DEF Commands, SetCurrent, StartCommand, StopCommand, SpeedCommand,
       SpeedStopCommand, RecoverCommand
  <2> QED
    BY <2>1 DEF bufferVars
<1>9. CASE TickPublish \/ PublishTarget \/ StartMode \/ Recheck \/ SetRunning \/ Update \/ StopMode
           \/ StopReady \/ ApplyParameters
  BY <1>9 DEF TickPublish, PublishTarget, StartMode, Recheck, SetRunning, Update, StopMode, StopReady,
     ApplyParameters, bufferVars
<1>10. CASE UNCHANGED vars
  BY <1>10 DEF vars, bufferVars
<1> QED
  BY <1>4, <1>5, <1>6, <1>7, <1>8, <1>9, <1>10 DEF Next, MainSteps

(* The speed mode begins at one step of a start, which leaves the zero       *)
(* target of the current mode alone.                                       *)
LEMMA SpeedModeBegins ==
  ASSUME IInv, [Next]_vars
  PROVE  /\ mode' = "SPEED" => mode = "SPEED" \/ step = "speed_mode"
         /\ step' = "speed_mode" =>
              \/ step = "speed_mode" /\ Active("CURRENT")' = Active("CURRENT")
              \/ reference' = Zero /\ Active("CURRENT")' = Zero
<1>1. TypeOK /\ "CURRENT" \in Buffers /\ "SPEED" \in Buffers
  BY DEF IInv, Buffers
<1>2. CASE Adc
  BY <1>2 DEF Adc, Control, Fault, ClearFault, DisableForFault, mainVars, bufferVars, stateVars, Active
<1>3. CASE TickUpdate \/ TickPublish
  <2>1. /\ mode' = mode /\ step' = step
        /\ slot'["CURRENT"] = slot["CURRENT"] /\ active'["CURRENT"] = active["CURRENT"]
    BY <1>1, <1>3 DEF TickUpdate, TickPublish, Write, Flip, TypeOK, stateVars, mainVars
  <2> QED
    BY <2>1 DEF Active
<1>4. CASE Commands
  <2>1. mode' = mode /\ (step' = step \/ step' = "d") /\ step = "idle"
    BY <1>4, Zenon DEF Commands, SetCurrent, StartCommand, StopCommand, SpeedCommand, SpeedStopCommand,
       RecoverCommand, SetTarget, At, mainVars, stateVars
  <2> QED
    BY <2>1
<1>5. CASE WriteD \/ WriteQ \/ PublishTarget
  BY <1>1, <1>5 DEF WriteD, WriteQ, PublishTarget, Goto, TypeOK, Continuations, stateVars
<1>6. CASE StartMode
  BY <1>6 DEF StartMode, CommandsAreZero, ResetControl, Goto, At, Active, bufferVars
<1>7. CASE SpeedMode
  BY <1>7 DEF SpeedMode, At, Goto
<1>8. CASE Recheck
  BY <1>8 DEF Recheck, DisableForFault, SetTarget, Goto
<1>9. CASE SetRunning \/ Update \/ StopMode \/ StopZero \/ StopReady
  BY <1>9 DEF SetRunning, Update, StopMode, StopZero, StopReady, DisableForFault, Goto
<1>10. CASE ApplyParameters
  BY <1>10 DEF ApplyParameters, At, stateVars, mainVars
<1>11. CASE UNCHANGED vars
  BY <1>11 DEF vars, stateVars, mainVars, bufferVars, Active
<1> QED
  BY <1>2, <1>3, <1>4, <1>5, <1>6, <1>7, <1>8, <1>9, <1>10, <1>11 DEF Next, MainSteps

(* So a target under the speed controller has no d.                         *)
LEMMA SpeedTargetOnQ == IInv /\ SpeedOnQ /\ mode = "SPEED" => Target["d"] = 0
<1>1. IInv => active["SPEED"] \in {0, 1}
  BY DEF IInv, TypeOK, Buffers
<1> QED
  BY <1>1 DEF SpeedOnQ, Target, Active

(* A run under the speed controller has no d.                              *)
LEMMA SpeedOnQStep == IInv /\ SpeedOnQ /\ [Next]_vars => SpeedOnQ'
<1> SUFFICES ASSUME IInv, SpeedOnQ, [Next]_vars PROVE SpeedOnQ'
  OBVIOUS
<1>1. \A i \in {0, 1} : slot'["SPEED"][i]["d"] = 0
  BY SpeedSlotsOnQ DEF SpeedOnQ
<1>2. ASSUME mode = "SPEED" \/ step = "speed_mode" PROVE reference'["d"] = 0
  <2>1. reference["d"] = 0 /\ Zero["d"] = 0
    BY <1>2 DEF SpeedOnQ, Zero, Axes
  <2>2. CASE Control
    <3>1. CASE mode = "SPEED"
      BY <2>1, <2>2, <3>1, SpeedTargetOnQ, ControlOnQ
    <3>2. CASE mode # "SPEED"
      <4>1. mode = "CURRENT" /\ step = "speed_mode"
        BY <1>2, <2>2, <3>2 DEF Control, Foc, Buffers
      <4>2. Target["d"] = 0
        BY <4>1 DEF SpeedOnQ, Target
      <4> QED
        BY <2>1, <2>2, <4>2, ControlOnQ
    <3> QED
      BY <3>1, <3>2
  <2> QED
    BY <2>1, <2>2, OthersReset
<1>3. Zero["d"] = 0
  BY DEF Zero, Axes
<1> QED
  BY <1>1, <1>2, <1>3, SpeedModeBegins DEF SpeedOnQ

(* Every target of the speed controller that stays is reached, whatever the  *)
(* limits and rates: the circle never stops a reference without d.          *)
THEOREM SpeedTargetReached ==
  FairSpec /\ []NobodyWaits /\ NaturalsEnd(Distance, vars)
    => (<>[](mode = "SPEED") /\ <>[][TargetStays]_vars => <>[](reference = Target))
<1>1. Init => SpeedOnQ
  BY SMT DEF Init, SpeedOnQ, Zero, Axes, Buffers
<1>2. IInv /\ SpeedOnQ /\ mode = "SPEED" => OpenWay
  BY SpeedTargetOnQ, QWayIsOpen DEF SpeedOnQ, Foc, Buffers
<1> QED
  BY <1>1, <1>2, SpeedOnQStep, OpenTargetReached, Invariance, PTL
  DEF FairSpec, Spec, OpenTargetIsReached

(* With current commands without d, which are the torque commands of the     *)
(* CiA 402 service, nothing has a d.                                       *)
TorqueOnly == \A r \in CurrentRequests : r["d"] = 0
AllOnQ ==
  /\ \A i \in {0, 1} : slot["CURRENT"][i]["d"] = 0 /\ slot["SPEED"][i]["d"] = 0
  /\ reference["d"] = 0 /\ target["d"] = 0

(* Main takes up no target with a d.                                       *)
LEMMA MainTargetOnQ ==
  ASSUME TorqueOnly, IInv, [Next]_vars, target["d"] = 0
  PROVE  target'["d"] = 0
<1>1. TypeOK /\ Zero["d"] = 0
  BY DEF IInv, Zero, Axes
<1>2. ASSUME NEW r \in CurrentRequests, NEW p \in Prepared(r) PROVE p["d"] = 0
  BY <1>1, PreparedOnQ, RequestAssumption DEF TorqueOnly
<1>3. CASE Commands
  <2>1. CASE SetCurrent
    BY <1>2, <2>1 DEF SetCurrent, SetTarget
  <2>2. CASE StartCommand \/ StopCommand
    BY <1>1, <2>2 DEF StartCommand, StopCommand, SetTarget
  <2>3. CASE SpeedCommand \/ SpeedStopCommand \/ RecoverCommand
    BY <2>3 DEF SpeedCommand, SpeedStopCommand, RecoverCommand, mainVars
  <2> QED
    BY <1>3, <2>1, <2>2, <2>3 DEF Commands
<1>4. CASE Recheck
  <2>1. target' = target \/ \E r \in CurrentRequests : \E p \in Prepared(r) : target' = p
    BY <1>4 DEF Recheck, SetTarget, Goto
  <2> QED
    BY <1>2, <2>1
<1>5. CASE Adc \/ TickUpdate \/ TickPublish \/ ApplyParameters \/ UNCHANGED vars
  BY <1>5 DEF Adc, Control, Fault, ClearFault, TickUpdate, TickPublish, ApplyParameters, mainVars, vars
<1>6. CASE MainSteps /\ ~Recheck
  BY <1>6 DEF MainSteps, WriteD, WriteQ, PublishTarget, StartMode, SpeedMode, SetRunning, Update,
     StopMode, StopZero, StopReady, Goto
<1> QED
  BY <1>3, <1>4, <1>5, <1>6 DEF Next

(* So the current buffer receives none.                                    *)
LEMMA CurrentSlotsOnQ ==
  ASSUME IInv, [Next]_vars, target["d"] = 0, \A i \in {0, 1} : slot["CURRENT"][i]["d"] = 0
  PROVE  \A i \in {0, 1} : slot'["CURRENT"][i]["d"] = 0
<1>1. TypeOK /\ slot \in [Buffers -> [{0, 1} -> Points]] /\ "CURRENT" \in Buffers
      /\ active["CURRENT"] \in {0, 1} /\ 1 - active["CURRENT"] \in {0, 1}
  BY SMT DEF IInv, TypeOK, Buffers
<1>2. ASSUME NEW p, Write("SPEED", p)
      PROVE  slot'["CURRENT"] = slot["CURRENT"]
  BY <1>1, <1>2 DEF Write
<1>3. ASSUME NEW a \in Axes,
             Write("CURRENT", [slot["CURRENT"][1 - active["CURRENT"]] EXCEPT ![a] = target[a]])
      PROVE  \A i \in {0, 1} : slot'["CURRENT"][i]["d"] = 0
  BY <1>1, <1>3 DEF Write, Points, Axes
<1>4. CASE WriteD \/ WriteQ
  BY <1>3, <1>4 DEF WriteD, WriteQ, Axes
<1>5. CASE TickUpdate \/ SpeedMode \/ StopZero
  BY <1>2, <1>5 DEF TickUpdate, SpeedMode, StopZero, ZeroSpeedTarget
<1>6. CASE Adc
  BY <1>6 DEF Adc, Control, Fault, ClearFault, bufferVars
<1>7. CASE Commands
  <2>1. UNCHANGED bufferVars
    BY <1>7, Zenon DEF Commands, SetCurrent, StartCommand, StopCommand, SpeedCommand,
       SpeedStopCommand, RecoverCommand
  <2> QED
    BY <2>1 DEF bufferVars
<1>8. CASE TickPublish \/ PublishTarget \/ StartMode \/ Recheck \/ SetRunning \/ Update \/ StopMode
           \/ StopReady \/ ApplyParameters
  BY <1>8 DEF TickPublish, PublishTarget, StartMode, Recheck, SetRunning, Update, StopMode, StopReady,
     ApplyParameters, bufferVars
<1>9. CASE UNCHANGED vars
  BY <1>9 DEF vars, bufferVars
<1> QED
  BY <1>4, <1>5, <1>6, <1>7, <1>8, <1>9 DEF Next, MainSteps

(* So no target has a d.                                                   *)
LEMMA TargetOnQ == IInv /\ AllOnQ /\ Foc => Target["d"] = 0
<1>1. IInv => active["CURRENT"] \in {0, 1} /\ active["SPEED"] \in {0, 1}
  BY DEF IInv, TypeOK, Buffers
<1> QED
  BY <1>1 DEF AllOnQ, Target, Active, Foc, Buffers

(* Nothing takes up a d.                                                   *)
LEMMA AllOnQStep ==
  ASSUME TorqueOnly PROVE IInv /\ AllOnQ /\ [Next]_vars => AllOnQ'
<1> SUFFICES ASSUME IInv, AllOnQ, [Next]_vars PROVE AllOnQ'
  OBVIOUS
<1>1. \A i \in {0, 1} : slot'["CURRENT"][i]["d"] = 0 /\ slot'["SPEED"][i]["d"] = 0
  BY CurrentSlotsOnQ, SpeedSlotsOnQ DEF AllOnQ
<1>2. target'["d"] = 0
  BY MainTargetOnQ DEF AllOnQ
<1>3. reference'["d"] = 0
  <2>1. CASE Control
    BY <2>1, TargetOnQ, ControlOnQ DEF AllOnQ, Control
  <2>2. CASE ~Control
    BY <2>2, OthersReset DEF AllOnQ, Zero, Axes
  <2> QED
    BY <2>1, <2>2
<1> QED
  BY <1>1, <1>2, <1>3 DEF AllOnQ

(* Where all current commands are torques every target that stays is         *)
(* reached, under both modes: what stops a reference short of its target    *)
(* takes a command with a d, which only the debug source gives.             *)
THEOREM TorqueTargetReached ==
  ASSUME TorqueOnly
  PROVE  FairSpec /\ []NobodyWaits /\ NaturalsEnd(Distance, vars)
           => (<>[]Foc /\ <>[][TargetStays]_vars => <>[](reference = Target))
<1>1. Init => AllOnQ
  BY SMT DEF Init, AllOnQ, Zero, Axes, Buffers
<1>2. IInv /\ AllOnQ /\ Foc => OpenWay
  BY TargetOnQ, QWayIsOpen DEF AllOnQ
<1>3. IInv /\ AllOnQ /\ [Next]_vars => AllOnQ'
  BY AllOnQStep
<1> QED
  BY <1>1, <1>2, <1>3, OpenTargetReached, Invariance, PTL DEF FairSpec, Spec, OpenTargetIsReached

=============================================================================
