------------------------ MODULE DriveLifecycleProofs ------------------------
(***************************************************************************)
(* What holds of the drive lifecycle for every value of its constants: the *)
(* type invariant, the inductive invariant IInv of DriveInvariant, and the *)
(* safety properties that follow from it; and, where main, tick and        *)
(* interrupt can take their next step, that a fault ends the outputs, and  *)
(* that the calibration and every stop end.  One step per action; the sets *)
(* of program points, the variable groups and the parts of the invariant   *)
(* are unfolded once at the head of each proof.                            *)
(***************************************************************************)
EXTENDS DriveInvariant, Descent, TLAPS

(* Every step of the main loop keeps the types.                            *)
LEMMA MainStepType ==
  ASSUME TypeOK, MainStep PROVE TypeOK'
<1> USE BoundsAssumption, CommandsAssumption DEF TypeOK, Commands, At, Goto, appVars,
      pwmVars, faultVars, cmdVars, speedVars, calVars, opVars, mainVars, tickVars,
      plantVars, Pcs, LoopPcs, ParameterPcs, CalPcs, StartPcs, StopPcs, DisablePcs,
      OtherPcs, Modes, FocModes, DriveStates, Speeds
<1>1. CASE Update
  BY <1>1 DEF Update
<1>2. CASE CalTimeout
  BY <1>2 DEF CalTimeout, Jump
<1>3. CASE CalAbort
  BY <1>3 DEF CalAbort
<1>4. CASE CalCheck
  BY <1>4 DEF CalCheck, Jump, Calibrated
<1>5. CASE CalReady
  BY <1>5 DEF CalReady, StoreState
<1>6. CASE Latch
  BY <1>6 DEF Latch
<1>7. CASE DisableMode
  BY <1>7 DEF DisableMode
<1>8. CASE DisableState
  BY <1>8 DEF DisableState
<1>9. CASE SkipDisable
  BY <1>9 DEF SkipDisable, Return
<1>10. CASE LockOutputs
  <2>1. CASE Jump("disableHal", "disableHalLocked")
    BY <2>1, <1>10 DEF LockOutputs, Jump
  <2>2. CASE Jump("stopHal", "stopHalLocked")
    BY <2>2, <1>10 DEF LockOutputs, Jump
  <2>3. QED BY <1>10, <2>1, <2>2, Zenon DEF LockOutputs
<1>11. CASE DisableOutputs
  <2>1. outputs' \in BOOLEAN
    BY <1>11 DEF DisableOutputs, StopOutputs
  <2>2. QED
    BY <1>11, <2>1, SMT DEF DisableOutputs, StopOutputs
<1>12. CASE DisableFlag
  <2>1. is_enabled' \in BOOLEAN
    BY <1>12 DEF DisableFlag, Return
  <2>2. QED
    BY <1>12, <2>1, SMT DEF DisableFlag, Return
<1>13. CASE SkipParameters
  BY <1>13 DEF SkipParameters, Jump
<1>14. CASE OpenWindow
  BY <1>14 DEF OpenWindow, Jump
<1>15. CASE StopSampling
  <2>1. sampling' \in BOOLEAN
    BY <1>15 DEF StopSampling
  <2>2. QED
    BY <1>15, <2>1, SMT DEF StopSampling
<1>16. CASE ApplyParameters
  BY <1>16 DEF ApplyParameters
<1>17. CASE RestartSampling
  BY <1>17 DEF RestartSampling
<1>18. CASE StartCommand
  BY <1>18 DEF StartCommand, Issue
<1>19. CASE SetCommand
  BY <1>19 DEF SetCommand, Issue
<1>20. CASE StopCommand
  BY <1>20 DEF StopCommand, Issue
<1>21. CASE ClearCommand
  BY <1>21 DEF ClearCommand, Issue
<1>22. CASE RecoverCommand
  BY <1>22 DEF RecoverCommand, Issue, Calibrated
<1>23. CASE EndTurn
  BY <1>23 DEF EndTurn, Jump
<1>24. CASE ClearSet
  BY <1>24 DEF ClearSet, Return
<1>25. CASE RecoverSet
  BY <1>25 DEF RecoverSet, StoreState, Return
<1>26. CASE StartZero
  BY <1>26 DEF StartZero
<1>27. CASE StartSpeedZero
  BY <1>27 DEF StartSpeedZero
<1>28. CASE StartChecks
  BY <1>28 DEF StartChecks, Return, CommandsAreZero, Calibrated
<1>29. CASE StartMode
  BY <1>29 DEF StartMode
<1>30. CASE StartTarget
  <2>1. speed_target' \in BOOLEAN
    BY <1>30 DEF StartTarget
  <2>2. QED
    BY <1>30, <2>1, SMT DEF StartTarget
<1>31. CASE Enable
  BY <1>31 DEF Enable, Jump
<1>32. CASE StartOutputs
  BY <1>32 DEF StartOutputs
<1>33. CASE EnableFlag
  BY <1>33 DEF EnableFlag
<1>34. CASE Recheck
  BY <1>34 DEF Recheck, Jump
<1>35. CASE PublishCommand
  BY <1>35 DEF PublishCommand
<1>36. CASE SetRunning
  BY <1>36 DEF SetRunning, StoreState, RunningState, Return
<1>37. CASE RampState
  BY <1>37 DEF RampState, StoreState
<1>38. CASE RampDwell
  BY <1>38 DEF RampDwell, Return
<1>39. CASE StopMode
  BY <1>39 DEF StopMode, Stopped, Return
<1>40. CASE StopZero
  <2>1. speed_target' \in BOOLEAN
    BY <1>40 DEF StopZero
  <2>2. QED
    BY <1>40, <2>1, SMT DEF StopZero
<1>41. CASE SkipStop
  BY <1>41 DEF SkipStop, Jump
<1>42. CASE StopHal
  <2>1. outputs' \in BOOLEAN
    BY <1>42 DEF StopHal, StopOutputs
  <2>2. QED
    BY <1>42, <2>1, SMT DEF StopHal, StopOutputs
<1>43. CASE StopFlag
  <2>1. is_enabled' \in BOOLEAN
    BY <1>43 DEF StopFlag
  <2>2. QED
    BY <1>43, <2>1, SMT DEF StopFlag
<1>44. CASE StopReady
  BY <1>44 DEF StopReady, StoreState, Stopped, Return
<1>45. QED
  BY <1>1, <1>2, <1>3, <1>4, <1>5, <1>6, <1>7, <1>8, <1>9, <1>10, <1>11, <1>12, <1>13,
      <1>14, <1>15, <1>16, <1>17, <1>18, <1>19, <1>20, <1>21, <1>22, <1>23, <1>24,
      <1>25, <1>26, <1>27, <1>28, <1>29, <1>30, <1>31, <1>32, <1>33, <1>34, <1>35,
      <1>36, <1>37, <1>38, <1>39, <1>40, <1>41, <1>42, <1>43, <1>44 DEF MainStep

(* Every step of the scheduler tick keeps the types.                       *)
LEMMA TickType ==
  ASSUME TypeOK, Tick PROVE TypeOK'
<1> USE BoundsAssumption, CommandsAssumption DEF TypeOK, Commands, At, Goto, appVars,
      pwmVars, faultVars, cmdVars, speedVars, calVars, opVars, mainVars, tickVars,
      plantVars, Pcs, LoopPcs, ParameterPcs, CalPcs, StartPcs, StopPcs, DisablePcs,
      OtherPcs, Modes, FocModes, DriveStates, Speeds
<1>1. CASE TickCalibration
  BY <1>1 DEF TickCalibration, TickFrame
<1>2. CASE TickControl
  BY <1>2 DEF TickControl, TickFrame, Towards
<1>3. CASE TickPublish
  BY <1>3 DEF TickPublish, TickFrame
<1>4. CASE TickSkip
  BY <1>4 DEF TickSkip, TickFrame
<1>5. CASE TickDwell
  BY <1>5 DEF TickDwell, TickFrame
<1>6. QED
  BY <1>1, <1>2, <1>3, <1>4, <1>5 DEF Tick

(* Every path of the ADC interrupt keeps the types.                        *)
LEMMA FastLoopType ==
  ASSUME TypeOK, FastLoop PROVE TypeOK'
<1> USE BoundsAssumption, CommandsAssumption DEF TypeOK, Commands, At, Goto, appVars,
      pwmVars, faultVars, cmdVars, speedVars, calVars, opVars, mainVars, tickVars,
      plantVars, Pcs, LoopPcs, ParameterPcs, CalPcs, StartPcs, StopPcs, DisablePcs,
      OtherPcs, Modes, FocModes, DriveStates, Speeds
<1>1. CASE OffsetSample
  BY <1>1 DEF OffsetSample, FaultCheck, IsrDisable, DisableBusy, HalLocked, IsrFrame
<1>2. CASE OffsetComplete
  <2>1. latched' \in BOOLEAN
    BY <1>2 DEF OffsetComplete, FaultCheck, IsrDisable, DisableBusy, HalLocked, IsrFrame
  <2>2. is_fault_clear_requested' \in BOOLEAN
    BY <1>2 DEF OffsetComplete, FaultCheck, IsrDisable, DisableBusy, HalLocked, IsrFrame
  <2>3. outputs' \in BOOLEAN
    BY <1>2 DEF OffsetComplete, FaultCheck, IsrDisable, DisableBusy, HalLocked, IsrFrame
  <2>4. is_enabled' \in BOOLEAN
    BY <1>2 DEF OffsetComplete, FaultCheck, IsrDisable, DisableBusy, HalLocked, IsrFrame
  <2>5. QED
    BY <1>2, <2>1, <2>2, <2>3, <2>4, SMT DEF OffsetComplete, FaultCheck, IsrDisable,
      DisableBusy, HalLocked, IsrFrame
<1>3. CASE Measure
  <2>1. latched' \in BOOLEAN
    BY <1>3 DEF Measure, MeasureTrip, FaultCheck, IsrDisable, DisableBusy, HalLocked,
      IsrFrame
  <2>2. is_fault_clear_requested' \in BOOLEAN
    BY <1>3 DEF Measure, MeasureTrip, FaultCheck, IsrDisable, DisableBusy, HalLocked,
      IsrFrame
  <2>3. outputs' \in BOOLEAN
    BY <1>3 DEF Measure, MeasureTrip, FaultCheck, IsrDisable, DisableBusy, HalLocked,
      IsrFrame
  <2>4. is_enabled' \in BOOLEAN
    BY <1>3 DEF Measure, MeasureTrip, FaultCheck, IsrDisable, DisableBusy, HalLocked,
      IsrFrame
  <2>5. QED
    BY <1>3, <2>1, <2>2, <2>3, <2>4, SMT DEF Measure, MeasureTrip, FaultCheck,
      IsrDisable, DisableBusy, HalLocked, IsrFrame
<1>4. CASE Reject
  BY <1>4 DEF Reject, IsrStop, IsrDisable, DisableBusy, HalLocked, IsrFrame
<1>5. CASE Control
  BY <1>5 DEF Control, IsrFrame
<1>6. CASE StopControl
  BY <1>6 DEF StopControl, IsrStop, IsrDisable, DisableBusy, HalLocked, IsrFrame
<1>7. QED
  BY <1>1, <1>2, <1>3, <1>4, <1>5, <1>6 DEF FastLoop

(* Every step of the system keeps the types.                               *)
LEMMA TypeStep ==
  ASSUME TypeOK, [Next]_vars PROVE TypeOK'
<1> USE BoundsAssumption, CommandsAssumption
      DEF TypeOK, Commands, At, Goto, appVars, pwmVars, faultVars, cmdVars, speedVars, calVars,
          opVars, mainVars, tickVars, plantVars, Modes, FocModes, DriveStates, Speeds,
          Pcs, LoopPcs, ParameterPcs, CalPcs, StartPcs, StopPcs, DisablePcs, OtherPcs
<1>1. CASE MainStep BY <1>1, MainStepType
<1>2. CASE Tick BY <1>2, TickType
<1>3. CASE FastLoop BY <1>3, FastLoopType
<1>4. CASE IsrStop
  BY <1>4 DEF IsrStop, IsrDisable, DisableBusy, HalLocked, IsrFrame
<1>5. CASE RotorSlows BY <1>5 DEF RotorSlows, RotorStep
<1>6. CASE RotorAccelerates BY <1>6 DEF RotorAccelerates, RotorStep
<1>7. CASE UNCHANGED vars BY <1>7 DEF vars
<1>8. QED BY <1>1, <1>2, <1>3, <1>4, <1>5, <1>6, <1>7 DEF Next

(* The types hold after app_drive_start().                                  *)
LEMMA InitType == Init => TypeOK
<1> SUFFICES ASSUME Init PROVE TypeOK
  OBVIOUS
<1>1. /\ outputs \in BOOLEAN /\ is_enabled \in BOOLEAN /\ sampling \in BOOLEAN
      /\ latched \in BOOLEAN /\ is_fault_clear_requested \in BOOLEAN
      /\ speed_target \in BOOLEAN /\ timeout_requested \in BOOLEAN
      /\ slow_seen \in BOOLEAN
  BY Zenon DEF Init
<1>2. QED
  BY <1>1, BoundsAssumption, CommandsAssumption, SMT
  DEF Init, TypeOK, Modes, FocModes, DriveStates, Speeds, Pcs, LoopPcs, StartPcs

(* Every variable keeps its type in every behaviour.                       *)
THEOREM TypeCorrect == Spec => []TypeOK
<1>1. Init => TypeOK
  BY InitType
<1>2. TypeOK /\ [Next]_vars => TypeOK'
  BY TypeStep
<1>3. QED
  BY <1>1, <1>2, PTL DEF Spec

(* The parts of the inductive invariant beside the types.                  *)
Parts ==
  /\ FlagFollowsOutputs /\ OutputsAreAccountedFor /\ ModeIsAccountedFor
  /\ StateIsAccountedFor /\ WindowIsClosed /\ StartIsCold /\ CalibrationIsFirst
  /\ FaultBoundsOutputs /\ StopIsCounted

(* Every step of the main loop keeps the parts of the invariant.           *)
LEMMA MainStepParts ==
  ASSUME TypeOK, Parts, MainStep PROVE Parts'
<1> USE BoundsAssumption, CommandsAssumption DEF Parts, TypeOK, Commands, At, Goto,
      FlagFollowsOutputs, OutputsAreAccountedFor, ModeIsAccountedFor,
      StateIsAccountedFor, WindowIsClosed, StartIsCold, CalibrationIsFirst,
      FaultBoundsOutputs, StopIsCounted, Running, ColdPcs, ArmedPcs, OffPcs, QuietPcs,
      OnPcs, ModePcs, appVars, pwmVars, faultVars, cmdVars, speedVars, calVars, opVars,
      mainVars, tickVars, plantVars, Pcs, LoopPcs, ParameterPcs, CalPcs, StartPcs,
      StopPcs, DisablePcs, OtherPcs, Modes, FocModes, DriveStates, Speeds
<1>1. CASE Update
  BY <1>1 DEF Update
<1>2. CASE CalTimeout
  BY <1>2 DEF CalTimeout, Jump
<1>3. CASE CalAbort
  BY <1>3 DEF CalAbort
<1>4. CASE CalCheck
  BY <1>4 DEF CalCheck, Jump, Calibrated
<1>5. CASE CalReady
  BY <1>5 DEF CalReady, StoreState
<1>6. CASE Latch
  BY <1>6 DEF Latch
<1>7. CASE DisableMode
  BY <1>7 DEF DisableMode
<1>8. CASE DisableState
  BY <1>8 DEF DisableState
<1>9. CASE SkipDisable
  BY <1>9 DEF SkipDisable, Return
<1>10. CASE LockOutputs
  <2>1. CASE Jump("disableHal", "disableHalLocked")
    BY <2>1, <1>10 DEF LockOutputs, Jump
  <2>2. CASE Jump("stopHal", "stopHalLocked")
    BY <2>2, <1>10 DEF LockOutputs, Jump
  <2>3. QED BY <1>10, <2>1, <2>2, Zenon DEF LockOutputs
<1>11. CASE DisableOutputs
  BY <1>11 DEF DisableOutputs, StopOutputs
<1>12. CASE DisableFlag
  BY <1>12 DEF DisableFlag, Return
<1>13. CASE SkipParameters
  BY <1>13 DEF SkipParameters, Jump
<1>14. CASE OpenWindow
  BY <1>14 DEF OpenWindow, Jump
<1>15. CASE StopSampling
  BY <1>15 DEF StopSampling
<1>16. CASE ApplyParameters
  BY <1>16 DEF ApplyParameters
<1>17. CASE RestartSampling
  BY <1>17 DEF RestartSampling
<1>18. CASE StartCommand
  BY <1>18 DEF StartCommand, Issue
<1>19. CASE SetCommand
  BY <1>19 DEF SetCommand, Issue
<1>20. CASE StopCommand
  BY <1>20 DEF StopCommand, Issue
<1>21. CASE ClearCommand
  BY <1>21 DEF ClearCommand, Issue
<1>22. CASE RecoverCommand
  BY <1>22 DEF RecoverCommand, Issue, Calibrated
<1>23. CASE EndTurn
  BY <1>23 DEF EndTurn, Jump
<1>24. CASE ClearSet
  BY <1>24 DEF ClearSet, Return
<1>25. CASE RecoverSet
  BY <1>25 DEF RecoverSet, StoreState, Return
<1>26. CASE StartZero
  BY <1>26 DEF StartZero
<1>27. CASE StartSpeedZero
  BY <1>27 DEF StartSpeedZero
<1>28. CASE StartChecks
  BY <1>28 DEF StartChecks, Return, CommandsAreZero, Calibrated
<1>29. CASE StartMode
  BY <1>29 DEF StartMode
<1>30. CASE StartTarget
  BY <1>30 DEF StartTarget
<1>31. CASE Enable
  BY <1>31 DEF Enable, Jump
<1>32. CASE StartOutputs
  BY <1>32 DEF StartOutputs
<1>33. CASE EnableFlag
  BY <1>33 DEF EnableFlag
<1>34. CASE Recheck
  BY <1>34 DEF Recheck, Jump
<1>35. CASE PublishCommand
  BY <1>35 DEF PublishCommand
<1>36. CASE SetRunning
  BY <1>36 DEF SetRunning, StoreState, RunningState, Return
<1>37. CASE RampState
  BY <1>37 DEF RampState, StoreState
<1>38. CASE RampDwell
  BY <1>38 DEF RampDwell, Return
<1>39. CASE StopMode
  BY <1>39 DEF StopMode, Stopped, Return
<1>40. CASE StopZero
  BY <1>40 DEF StopZero
<1>41. CASE SkipStop
  BY <1>41 DEF SkipStop, Jump
<1>42. CASE StopHal
  BY <1>42 DEF StopHal, StopOutputs
<1>43. CASE StopFlag
  BY <1>43 DEF StopFlag
<1>44. CASE StopReady
  BY <1>44 DEF StopReady, StoreState, Stopped, Return
<1>45. QED
  BY <1>1, <1>2, <1>3, <1>4, <1>5, <1>6, <1>7, <1>8, <1>9, <1>10, <1>11, <1>12, <1>13,
      <1>14, <1>15, <1>16, <1>17, <1>18, <1>19, <1>20, <1>21, <1>22, <1>23, <1>24,
      <1>25, <1>26, <1>27, <1>28, <1>29, <1>30, <1>31, <1>32, <1>33, <1>34, <1>35,
      <1>36, <1>37, <1>38, <1>39, <1>40, <1>41, <1>42, <1>43, <1>44 DEF MainStep

(* Every step of the scheduler tick keeps the parts of the invariant.      *)
LEMMA TickParts ==
  ASSUME TypeOK, Parts, Tick PROVE Parts'
<1> USE BoundsAssumption, CommandsAssumption DEF Parts, TypeOK, Commands, At, Goto,
      FlagFollowsOutputs, OutputsAreAccountedFor, ModeIsAccountedFor,
      StateIsAccountedFor, WindowIsClosed, StartIsCold, CalibrationIsFirst,
      FaultBoundsOutputs, StopIsCounted, Running, ColdPcs, ArmedPcs, OffPcs, QuietPcs,
      OnPcs, ModePcs, appVars, pwmVars, faultVars, cmdVars, speedVars, calVars, opVars,
      mainVars, tickVars, plantVars, Pcs, LoopPcs, ParameterPcs, CalPcs, StartPcs,
      StopPcs, DisablePcs, OtherPcs, Modes, FocModes, DriveStates, Speeds
<1>1. CASE TickCalibration
  BY <1>1 DEF TickCalibration, TickFrame
<1>2. CASE TickControl
  BY <1>2 DEF TickControl, TickFrame, Towards
<1>3. CASE TickPublish
  BY <1>3 DEF TickPublish, TickFrame
<1>4. CASE TickSkip
  BY <1>4 DEF TickSkip, TickFrame
<1>5. CASE TickDwell
  BY <1>5 DEF TickDwell, TickFrame
<1>6. QED
  BY <1>1, <1>2, <1>3, <1>4, <1>5 DEF Tick

(* Every path of the ADC interrupt keeps the parts of the invariant.       *)
LEMMA FastLoopParts ==
  ASSUME TypeOK, Parts, FastLoop PROVE Parts'
<1> USE BoundsAssumption, CommandsAssumption DEF Parts, TypeOK, Commands, At, Goto,
      FlagFollowsOutputs, OutputsAreAccountedFor, ModeIsAccountedFor,
      StateIsAccountedFor, WindowIsClosed, StartIsCold, CalibrationIsFirst,
      FaultBoundsOutputs, StopIsCounted, Running, ColdPcs, ArmedPcs, OffPcs, QuietPcs,
      OnPcs, ModePcs, appVars, pwmVars, faultVars, cmdVars, speedVars, calVars, opVars,
      mainVars, tickVars, plantVars, Pcs, LoopPcs, ParameterPcs, CalPcs, StartPcs,
      StopPcs, DisablePcs, OtherPcs, Modes, FocModes, DriveStates, Speeds
<1>1. CASE OffsetSample
  BY <1>1 DEF OffsetSample, FaultCheck, IsrDisable, DisableBusy, HalLocked, IsrFrame
<1>2. CASE OffsetComplete
  BY <1>2 DEF OffsetComplete, FaultCheck, IsrDisable, DisableBusy, HalLocked, IsrFrame
<1>3. CASE Measure
  BY <1>3 DEF Measure, MeasureTrip, FaultCheck, IsrDisable, DisableBusy, HalLocked,
      IsrFrame
<1>4. CASE Reject
  BY <1>4 DEF Reject, IsrStop, IsrDisable, DisableBusy, HalLocked, IsrFrame
<1>5. CASE Control
  BY <1>5 DEF Control, IsrFrame
<1>6. CASE StopControl
  BY <1>6 DEF StopControl, IsrStop, IsrDisable, DisableBusy, HalLocked, IsrFrame
<1>7. QED
  BY <1>1, <1>2, <1>3, <1>4, <1>5, <1>6 DEF FastLoop

(* Every step of the system keeps the parts of the invariant.              *)
LEMMA PartsStep ==
  ASSUME TypeOK, Parts, [Next]_vars PROVE Parts'
<1> USE BoundsAssumption, CommandsAssumption DEF Parts, TypeOK, Commands, At, Goto,
      FlagFollowsOutputs, OutputsAreAccountedFor, ModeIsAccountedFor,
      StateIsAccountedFor, WindowIsClosed, StartIsCold, CalibrationIsFirst,
      FaultBoundsOutputs, StopIsCounted, Running, ColdPcs, ArmedPcs, OffPcs, QuietPcs,
      OnPcs, ModePcs, appVars, pwmVars, faultVars, cmdVars, speedVars, calVars, opVars,
      mainVars, tickVars, plantVars, Pcs, LoopPcs, ParameterPcs, CalPcs, StartPcs,
      StopPcs, DisablePcs, OtherPcs, Modes, FocModes, DriveStates, Speeds
<1>1. CASE MainStep BY <1>1, MainStepParts
<1>2. CASE Tick BY <1>2, TickParts
<1>3. CASE FastLoop BY <1>3, FastLoopParts
<1>4. CASE IsrStop
  BY <1>4 DEF IsrStop, IsrDisable, DisableBusy, HalLocked, IsrFrame
<1>5. CASE RotorSlows BY <1>5 DEF RotorSlows, RotorStep
<1>6. CASE RotorAccelerates BY <1>6 DEF RotorAccelerates, RotorStep
<1>7. CASE UNCHANGED vars BY <1>7 DEF vars
<1>8. QED BY <1>1, <1>2, <1>3, <1>4, <1>5, <1>6, <1>7 DEF Next

(* IInv holds in every reachable state.                                    *)
THEOREM Inductive == Spec => []IInv
<1>1. Init => IInv
  <2>1. Init => TypeOK
    BY InitType
  <2>2. Init => Parts
    BY DEF Init, Parts, FlagFollowsOutputs, OutputsAreAccountedFor, ModeIsAccountedFor,
           StateIsAccountedFor, WindowIsClosed, StartIsCold, CalibrationIsFirst,
           FaultBoundsOutputs, StopIsCounted, Running, ColdPcs, ArmedPcs, OffPcs,
           QuietPcs, OnPcs, ModePcs,
           LoopPcs, ParameterPcs, CalPcs, StartPcs, StopPcs, DisablePcs, OtherPcs
  <2>3. QED BY <2>1, <2>2 DEF IInv, Parts
<1>2. IInv /\ [Next]_vars => IInv'
  BY TypeStep, PartsStep DEF IInv, Parts
<1>3. QED
  BY <1>1, <1>2, PTL DEF Spec

(* Outputs outlive a latched fault only at the named points of main.       *)
THEOREM FaultBounds == Spec => []FaultBoundsOutputs
<1>1. IInv => FaultBoundsOutputs BY DEF IInv
<1>2. QED BY <1>1, Inductive, PTL

(* No output before the current offset is calibrated.                      *)
THEOREM CalibrationFirst == Spec => []CalibrationBeforeOutputs
<1>1. IInv => CalibrationBeforeOutputs
  BY DEF IInv, CalibrationIsFirst, CalibrationBeforeOutputs
<1>2. QED BY <1>1, Inductive, PTL

(* READY means outputs off, up to the end of a start.                      *)
THEOREM ReadyOff == Spec => []ReadyIsOff
<1>1. IInv => ReadyIsOff
  BY DEF IInv, ReadyIsOff, OutputsAreAccountedFor, StateIsAccountedFor, Running, OnPcs, StopPcs
<1>2. QED BY <1>1, Inductive, PTL

(* Nobody else touches motor_control while parameters are applied.         *)
THEOREM ApplyExclusive == Spec => []ApplyIsExclusive
<1>1. IInv => ApplyIsExclusive
  BY DEF IInv, ApplyIsExclusive, OutputsAreAccountedFor, ModeIsAccountedFor,
         StateIsAccountedFor, WindowIsClosed, OffPcs, QuietPcs, ParameterPcs
<1>2. QED BY <1>1, Inductive, PTL

(* Only StartOutputs turns the outputs on, at the end of a cold start.      *)
LEMMA OutputsGoOn ==
  ASSUME IInv, [Next]_vars, ~outputs, outputs' PROVE StartOutputs
<1> USE DEF At, appVars, pwmVars, faultVars, cmdVars, speedVars, calVars
<1>1. CASE MainStep
  BY <1>1
      DEF MainStep, Update, CalTimeout, CalAbort, CalCheck, CalReady, Latch,
          DisableMode, DisableState, SkipDisable, LockOutputs, DisableOutputs,
          DisableFlag, SkipParameters, OpenWindow, StopSampling, ApplyParameters,
          RestartSampling, StartCommand, SetCommand, StopCommand, ClearCommand,
          RecoverCommand, EndTurn, ClearSet, RecoverSet, StartZero, StartSpeedZero,
          StartChecks, StartMode, StartTarget, Enable, StartOutputs, EnableFlag,
          Recheck, PublishCommand, SetRunning, RampState, RampDwell, StopMode, StopZero,
          SkipStop, StopHal, StopFlag, StopReady, Jump, StoreState, Issue, Return,
          StopOutputs, Stopped
<1>2. CASE Tick
  BY <1>2 DEF Tick, TickCalibration, TickControl, TickPublish, TickSkip, TickDwell, TickFrame
<1>3. CASE FastLoop
  BY <1>3 DEF FastLoop, OffsetSample, OffsetComplete, Measure, Reject, Control, StopControl, IsrStop,
      MeasureTrip, FaultCheck, IsrDisable, IInv, TypeOK
<1>4. CASE IsrStop BY <1>4 DEF IsrStop, IsrDisable, IInv, TypeOK
<1>5. CASE RotorSlows \/ RotorAccelerates
  BY <1>5 DEF RotorSlows, RotorAccelerates, RotorStep
<1>6. CASE UNCHANGED vars BY <1>6 DEF vars
<1>7. QED BY <1>1, <1>2, <1>3, <1>4, <1>5, <1>6 DEF Next

(* The motor never restarts on an earlier command: every reference is zero   *)
(* when the outputs go on.                                                  *)
THEOREM ColdStart == Spec => StartsFromZero
<1> DEFINE Cold == /\ current_command = 0
                   /\ mode = "SPEED" => speed_command = 0 /\ ~speed_target /\ ramp = 0
<1>1. IInv /\ [Next]_vars => (~outputs /\ outputs' => Cold)
  <2> SUFFICES ASSUME IInv, [Next]_vars, ~outputs, outputs' PROVE Cold
    OBVIOUS
  <2>1. pc = "enableHal"
    BY OutputsGoOn DEF StartOutputs, At
  <2>2. QED
    BY <2>1 DEF IInv, StartIsCold, ArmedPcs
<1>2. QED
  BY <1>1, Inductive, PTL DEF Spec, StartsFromZero

(* A ramping drive becomes READY only at the end of its stop.                *)
LEMMA RampEnds ==
  ASSUME IInv, [Next]_vars, drive_state = "RAMP_TO_ZERO", drive_state' = "READY"
  PROVE StopReady
<1> USE DEF At, appVars, pwmVars, faultVars, cmdVars, speedVars, calVars
<1>1. CASE MainStep
  <2>1. pc \notin {"calReady", "recoverSet", "setRunning"}
    BY DEF IInv, StateIsAccountedFor, CalPcs, StartPcs
  <2>2. QED
    BY <1>1, <2>1
          DEF MainStep, Update, CalTimeout, CalAbort, CalCheck, CalReady, Latch,
          DisableMode, DisableState, SkipDisable, LockOutputs, DisableOutputs,
          DisableFlag, SkipParameters, OpenWindow, StopSampling, ApplyParameters,
          RestartSampling, StartCommand, SetCommand, StopCommand, ClearCommand,
          RecoverCommand, EndTurn, ClearSet, RecoverSet, StartZero, StartSpeedZero,
          StartChecks, StartMode, StartTarget, Enable, StartOutputs, EnableFlag,
          Recheck, PublishCommand, SetRunning, RampState, RampDwell, StopMode, StopZero,
          SkipStop, StopHal, StopFlag, StopReady, Jump, StoreState, Issue, Return,
          StopOutputs, Stopped
<1>2. CASE Tick
  BY <1>2 DEF Tick, TickCalibration, TickControl, TickPublish, TickSkip, TickDwell, TickFrame
<1>3. CASE FastLoop
  BY <1>3 DEF FastLoop, OffsetSample, OffsetComplete, Measure, Reject, Control, StopControl, IsrStop,
      MeasureTrip, FaultCheck, IsrDisable
<1>4. CASE IsrStop BY <1>4 DEF IsrStop, IsrDisable
<1>5. CASE RotorSlows \/ RotorAccelerates
  BY <1>5 DEF RotorSlows, RotorAccelerates, RotorStep
<1>6. CASE UNCHANGED vars BY <1>6 DEF vars
<1>7. QED BY <1>1, <1>2, <1>3, <1>4, <1>5, <1>6 DEF Next

(* A speed stop ends only after a whole dwell at a reference of zero.        *)
THEOREM StopAfterDwell == Spec => SpeedStopsAfterDwell
<1> DEFINE Counted == dwell = StopDwell /\ ramp_seen = 0
<1>1. IInv /\ [Next]_vars =>
        (drive_state = "RAMP_TO_ZERO" /\ drive_state' = "READY" => Counted)
  <2> SUFFICES ASSUME IInv, [Next]_vars, drive_state = "RAMP_TO_ZERO",
                      drive_state' = "READY"
               PROVE Counted
    OBVIOUS
  <2>1. pc = "stopReady"
    BY RampEnds DEF StopReady, StoreState, At
  <2>2. QED
    BY <2>1, BoundsAssumption DEF IInv, StopIsCounted, StopPcs
<1>2. QED
  BY <1>1, Inductive, PTL DEF Spec, SpeedStopsAfterDwell

(* Every step of the main loop keeps what a start or a stop has reached.    *)
LEMMA MainStepHeld ==
  ASSUME DisciplinedClear, TypeOK, Parts, Held, MainStep PROVE Held'
<1> USE DEF Parts, TypeOK, Commands, At, Goto, FlagFollowsOutputs,
      OutputsAreAccountedFor, ModeIsAccountedFor, StateIsAccountedFor, Held,
      ClearIsGuarded, ControlIsHeld, EndIsAhead, Running, ColdPcs, ArmedPcs, OffPcs, QuietPcs, OnPcs,
      ModePcs, appVars, pwmVars, faultVars, cmdVars, speedVars, calVars, opVars, mainVars,
      tickVars, plantVars, Pcs, LoopPcs, ParameterPcs, CalPcs, StartPcs, StopPcs,
      DisablePcs, OtherPcs, Modes, FocModes, DriveStates, Speeds
<1>1. CASE Update
  BY <1>1 DEF Update
<1>2. CASE CalTimeout
  BY <1>2 DEF CalTimeout, Jump
<1>3. CASE CalAbort
  BY <1>3 DEF CalAbort
<1>4. CASE CalCheck
  BY <1>4 DEF CalCheck, Jump, Calibrated
<1>5. CASE CalReady
  BY <1>5 DEF CalReady, StoreState
<1>6. CASE Latch
  BY <1>6 DEF Latch
<1>7. CASE DisableMode
  BY <1>7 DEF DisableMode
<1>8. CASE DisableState
  BY <1>8 DEF DisableState
<1>9. CASE SkipDisable
  BY <1>9 DEF SkipDisable, Return
<1>10. CASE LockOutputs
  <2>1. CASE Jump("disableHal", "disableHalLocked")
    BY <2>1, <1>10 DEF LockOutputs, Jump
  <2>2. CASE Jump("stopHal", "stopHalLocked")
    BY <2>2, <1>10 DEF LockOutputs, Jump
  <2>3. QED BY <1>10, <2>1, <2>2, Zenon DEF LockOutputs
<1>11. CASE DisableOutputs
  BY <1>11 DEF DisableOutputs, StopOutputs
<1>12. CASE DisableFlag
  BY <1>12 DEF DisableFlag, Return
<1>13. CASE SkipParameters
  BY <1>13 DEF SkipParameters, Jump
<1>14. CASE OpenWindow
  BY <1>14 DEF OpenWindow, Jump
<1>15. CASE StopSampling
  BY <1>15 DEF StopSampling
<1>16. CASE ApplyParameters
  BY <1>16 DEF ApplyParameters
<1>17. CASE RestartSampling
  BY <1>17 DEF RestartSampling
<1>18. CASE StartCommand
  BY <1>18 DEF StartCommand, Issue
<1>19. CASE SetCommand
  BY <1>19 DEF SetCommand, Issue
<1>20. CASE StopCommand
  BY <1>20 DEF StopCommand, Issue
<1>21. CASE ClearCommand
  BY <1>21 DEF ClearCommand, Issue
<1>22. CASE RecoverCommand
  BY <1>22 DEF RecoverCommand, Issue, Calibrated
<1>23. CASE EndTurn
  BY <1>23 DEF EndTurn, Jump
<1>24. CASE ClearSet
  BY <1>24 DEF ClearSet, Return
<1>25. CASE RecoverSet
  BY <1>25 DEF RecoverSet, StoreState, Return
<1>26. CASE StartZero
  BY <1>26 DEF StartZero
<1>27. CASE StartSpeedZero
  BY <1>27 DEF StartSpeedZero
<1>28. CASE StartChecks
  BY <1>28 DEF StartChecks, Return, CommandsAreZero, Calibrated
<1>29. CASE StartMode
  BY <1>29 DEF StartMode
<1>30. CASE StartTarget
  BY <1>30 DEF StartTarget
<1>31. CASE Enable
  BY <1>31 DEF Enable, Jump
<1>32. CASE StartOutputs
  BY <1>32 DEF StartOutputs
<1>33. CASE EnableFlag
  BY <1>33 DEF EnableFlag
<1>34. CASE Recheck
  BY <1>34 DEF Recheck, Jump
<1>35. CASE PublishCommand
  BY <1>35 DEF PublishCommand
<1>36. CASE SetRunning
  BY <1>36 DEF SetRunning, StoreState, RunningState, Return
<1>37. CASE RampState
  BY <1>37 DEF RampState, StoreState
<1>38. CASE RampDwell
  BY <1>38 DEF RampDwell, Return
<1>39. CASE StopMode
  BY <1>39 DEF StopMode, Stopped, Return
<1>40. CASE StopZero
  BY <1>40 DEF StopZero
<1>41. CASE SkipStop
  BY <1>41 DEF SkipStop, Jump
<1>42. CASE StopHal
  BY <1>42 DEF StopHal, StopOutputs
<1>43. CASE StopFlag
  BY <1>43 DEF StopFlag
<1>44. CASE StopReady
  BY <1>44 DEF StopReady, StoreState, Stopped, Return
<1>45. QED
  BY <1>1, <1>2, <1>3, <1>4, <1>5, <1>6, <1>7, <1>8, <1>9, <1>10, <1>11, <1>12, <1>13,
      <1>14, <1>15, <1>16, <1>17, <1>18, <1>19, <1>20, <1>21, <1>22, <1>23, <1>24,
      <1>25, <1>26, <1>27, <1>28, <1>29, <1>30, <1>31, <1>32, <1>33, <1>34, <1>35,
      <1>36, <1>37, <1>38, <1>39, <1>40, <1>41, <1>42, <1>43, <1>44 DEF MainStep

(* So does every step of the scheduler tick.                                *)
LEMMA TickHeld ==
  ASSUME DisciplinedClear, TypeOK, Parts, Held, Tick PROVE Held'
<1> USE DEF Parts, TypeOK, Commands, At, Goto, FlagFollowsOutputs,
      OutputsAreAccountedFor, ModeIsAccountedFor, StateIsAccountedFor, Held,
      ClearIsGuarded, ControlIsHeld, EndIsAhead, Running, ColdPcs, ArmedPcs, OffPcs, QuietPcs, OnPcs,
      ModePcs, appVars, pwmVars, faultVars, cmdVars, speedVars, calVars, opVars, mainVars,
      tickVars, plantVars, Pcs, LoopPcs, ParameterPcs, CalPcs, StartPcs, StopPcs,
      DisablePcs, OtherPcs, Modes, FocModes, DriveStates, Speeds
<1>1. CASE TickCalibration
  BY <1>1 DEF TickCalibration, TickFrame
<1>2. CASE TickControl
  BY <1>2 DEF TickControl, TickFrame, Towards
<1>3. CASE TickPublish
  BY <1>3 DEF TickPublish, TickFrame
<1>4. CASE TickSkip
  BY <1>4 DEF TickSkip, TickFrame
<1>5. CASE TickDwell
  BY <1>5 DEF TickDwell, TickFrame
<1>6. QED
  BY <1>1, <1>2, <1>3, <1>4, <1>5 DEF Tick

(* So does every path of the ADC interrupt.                                 *)
LEMMA FastLoopHeld ==
  ASSUME DisciplinedClear, TypeOK, Parts, Held, FastLoop PROVE Held'
<1> USE DEF Parts, TypeOK, Commands, At, Goto, FlagFollowsOutputs,
      OutputsAreAccountedFor, ModeIsAccountedFor, StateIsAccountedFor, Held,
      ClearIsGuarded, ControlIsHeld, EndIsAhead, Running, ColdPcs, ArmedPcs, OffPcs, QuietPcs, OnPcs,
      ModePcs, appVars, pwmVars, faultVars, cmdVars, speedVars, calVars, opVars, mainVars,
      tickVars, plantVars, Pcs, LoopPcs, ParameterPcs, CalPcs, StartPcs, StopPcs,
      DisablePcs, OtherPcs, Modes, FocModes, DriveStates, Speeds
<1>1. CASE OffsetSample
  BY <1>1 DEF OffsetSample, FaultCheck, IsrDisable, DisableBusy, HalLocked, IsrFrame
<1>2. CASE OffsetComplete
  BY <1>2 DEF OffsetComplete, FaultCheck, IsrDisable, DisableBusy, HalLocked, IsrFrame
<1>3. CASE Measure
  BY <1>3 DEF Measure, MeasureTrip, FaultCheck, IsrDisable, DisableBusy, HalLocked,
      IsrFrame
<1>4. CASE Reject
  BY <1>4 DEF Reject, IsrStop, IsrDisable, DisableBusy, HalLocked, IsrFrame
<1>5. CASE Control
  BY <1>5 DEF Control, IsrFrame
<1>6. CASE StopControl
  BY <1>6 DEF StopControl, IsrStop, IsrDisable, DisableBusy, HalLocked, IsrFrame
<1>7. QED
  BY <1>1, <1>2, <1>3, <1>4, <1>5, <1>6 DEF FastLoop

(* Every step of the system keeps it.                                      *)
LEMMA HeldStep ==
  ASSUME DisciplinedClear, TypeOK, Parts, Held, [Next]_vars PROVE Held'
<1> USE DEF Parts, TypeOK, Commands, At, Goto, FlagFollowsOutputs,
      OutputsAreAccountedFor, ModeIsAccountedFor, StateIsAccountedFor, Held,
      ClearIsGuarded, ControlIsHeld, EndIsAhead, Running, ColdPcs, ArmedPcs, OffPcs, QuietPcs, OnPcs,
      ModePcs, appVars, pwmVars, faultVars, cmdVars, speedVars, calVars, opVars, mainVars,
      tickVars, plantVars, Pcs, LoopPcs, ParameterPcs, CalPcs, StartPcs, StopPcs,
      DisablePcs, OtherPcs, Modes, FocModes, DriveStates, Speeds
<1>1. CASE MainStep BY <1>1, MainStepHeld
<1>2. CASE Tick BY <1>2, TickHeld
<1>3. CASE FastLoop BY <1>3, FastLoopHeld
<1>4. CASE IsrStop
  BY <1>4 DEF IsrStop, IsrDisable, DisableBusy, HalLocked, IsrFrame
<1>5. CASE RotorSlows BY <1>5 DEF RotorSlows, RotorStep
<1>6. CASE RotorAccelerates BY <1>6 DEF RotorAccelerates, RotorStep
<1>7. CASE UNCHANGED vars BY <1>7 DEF vars
<1>8. QED BY <1>1, <1>2, <1>3, <1>4, <1>5, <1>6, <1>7 DEF Next

(* With disciplined clears, the whole invariant is inductive.              *)
THEOREM HeldInductive == ASSUME DisciplinedClear PROVE Spec => []Held
<1>1. Init => Held
  BY Zenon DEF Init, Held, ClearIsGuarded, ControlIsHeld, EndIsAhead, LoopPcs, StopPcs,
     DisablePcs, ModePcs
<1>2. IInv /\ Held /\ [Next]_vars => Held'
  BY DisciplinedClear, HeldStep DEF IInv, Parts
<1>3. QED
  BY <1>1, <1>2, Inductive, PTL DEF Spec

(* Between two operations of main the lifecycle state agrees with the       *)
(* control mode and the outputs, unless a fault is latched.                 *)
THEOREM RunningControlled == ASSUME DisciplinedClear PROVE Spec => []RunningIsControlled
<1>1. Held => RunningIsControlled
  BY DEF Held, ControlIsHeld, RunningIsControlled, LoopPcs
<1>2. QED
  BY <1>1, HeldInductive, PTL

(* Whatever main, tick and interrupt have under way: every program point     *)
(* keeps its guarantees, no output comes before the calibration, READY is   *)
(* off, parameters are applied alone, and with disciplined clears a running *)
(* drive is controlled.                                                     *)
THEOREM SafeDrive == Spec => []Safety
<1>1. Spec => [](IInv /\ CalibrationBeforeOutputs /\ ReadyIsOff /\ ApplyIsExclusive)
  BY Inductive, CalibrationFirst, ReadyOff, ApplyExclusive, PTL
<1>2. CASE DisciplinedClear
  <2>1. Spec => [](Held /\ RunningIsControlled)
    BY <1>2, HeldInductive, RunningControlled, PTL
  <2>2. /\ IInv /\ CalibrationBeforeOutputs /\ ReadyIsOff /\ ApplyIsExclusive
        /\ Held /\ RunningIsControlled
        => Safety
    BY DEF Safety
  <2>3. QED BY <1>1, <2>1, <2>2, PTL
<1>3. CASE ~DisciplinedClear
  <2>1. IInv /\ CalibrationBeforeOutputs /\ ReadyIsOff /\ ApplyIsExclusive => Safety
    BY <1>3 DEF Safety
  <2>2. QED BY <1>1, <2>1, PTL
<1>4. QED BY <1>2, <1>3

(* Only the ADC interrupt releases the latch, on a request it can serve.     *)
LEMMA LatchReleased ==
  ASSUME TypeOK, [Next]_vars, latched, ~latched'
  PROVE  is_fault_clear_requested /\ ~DisableBusy /\ IsrDisable
<1> USE DEF At, appVars, pwmVars, faultVars, cmdVars, speedVars, calVars
<1>1. CASE MainStep
  BY <1>1
      DEF MainStep, Update, CalTimeout, CalAbort, CalCheck, CalReady, Latch,
          DisableMode, DisableState, SkipDisable, LockOutputs, DisableOutputs,
          DisableFlag, SkipParameters, OpenWindow, StopSampling, ApplyParameters,
          RestartSampling, StartCommand, SetCommand, StopCommand, ClearCommand,
          RecoverCommand, EndTurn, ClearSet, RecoverSet, StartZero, StartSpeedZero,
          StartChecks, StartMode, StartTarget, Enable, StartOutputs, EnableFlag,
          Recheck, PublishCommand, SetRunning, RampState, RampDwell, StopMode, StopZero,
          SkipStop, StopHal, StopFlag, StopReady, Jump, StoreState, Issue, Return,
          StopOutputs, Stopped
<1>2. CASE Tick
  BY <1>2 DEF Tick, TickCalibration, TickControl, TickPublish, TickSkip, TickDwell, TickFrame
<1>3. CASE FastLoop
  BY <1>3 DEF FastLoop, OffsetSample, OffsetComplete, Measure, Reject, Control, StopControl,
      IsrStop, MeasureTrip, FaultCheck
<1>4. CASE IsrStop BY <1>4 DEF IsrStop
<1>5. CASE RotorSlows \/ RotorAccelerates
  BY <1>5 DEF RotorSlows, RotorAccelerates, RotorStep
<1>6. CASE UNCHANGED vars BY <1>6 DEF vars
<1>7. QED BY <1>1, <1>2, <1>3, <1>4, <1>5, <1>6 DEF Next

(* The clear waits where no start has the outputs on behind the flag.        *)
LEMMA ReleaseLeavesOff ==
  ASSUME IInv, Held, [Next]_vars, latched, ~latched'
  PROVE  mode' = "DISABLED" /\ ~outputs'
<1>1. is_fault_clear_requested /\ ~DisableBusy /\ IsrDisable
  BY LatchReleased DEF IInv
<1>2. outputs => is_enabled
  BY <1>1 DEF Held, ClearIsGuarded, LoopPcs, DisablePcs, IInv, FlagFollowsOutputs
<1>3. QED
  BY <1>1, <1>2 DEF IsrDisable

(* A fault latch is released only with the drive mode and the outputs off.   *)
THEOREM ClearedOff == ASSUME DisciplinedClear PROVE Spec => ClearedOnlyWhenOff
<1> DEFINE Off == mode' = "DISABLED" /\ ~outputs'
<1>1. IInv /\ Held /\ [Next]_vars => (latched /\ ~latched' => Off)
  BY ReleaseLeavesOff
<1>2. QED
  BY <1>1, Inductive, HeldInductive, PTL DEF Spec, ClearedOnlyWhenOff

(* A drive that a released latch has left FAULTED leaves it by the recovery  *)
(* alone, whatever start or stop the fault had cut off.                     *)
THEOREM LeavesByRecovery == ASSUME DisciplinedClear PROVE Spec => FaultedLeavesByRecovery
<1> DEFINE ByRecovery == pc = "recoverSet"
<1>1. IInv /\ Held /\ [Next]_vars =>
        (drive_state = "FAULTED" /\ drive_state' # "FAULTED" /\ ~latched => ByRecovery)
  <2> SUFFICES ASSUME IInv, Held, [Next]_vars, drive_state = "FAULTED",
                      drive_state' # "FAULTED", ~latched
               PROVE ByRecovery
    OBVIOUS
  <2> USE DEF At, appVars, pwmVars, faultVars, cmdVars, speedVars, calVars
  <2>1. pc \in LoopPcs \cup DisablePcs \cup {"recoverSet"}
    BY DEF Held, ClearIsGuarded
  <2>2. CASE MainStep
    BY <2>1, <2>2
        DEF LoopPcs, DisablePcs, MainStep, Update, CalTimeout, CalAbort, CalCheck, CalReady, Latch,
          DisableMode, DisableState, SkipDisable, LockOutputs, DisableOutputs,
          DisableFlag, SkipParameters, OpenWindow, StopSampling, ApplyParameters,
          RestartSampling, StartCommand, SetCommand, StopCommand, ClearCommand,
          RecoverCommand, EndTurn, ClearSet, RecoverSet, StartZero, StartSpeedZero,
          StartChecks, StartMode, StartTarget, Enable, StartOutputs, EnableFlag,
          Recheck, PublishCommand, SetRunning, RampState, RampDwell, StopMode, StopZero,
          SkipStop, StopHal, StopFlag, StopReady, Jump, StoreState, Issue, Return,
          StopOutputs, Stopped
  <2>3. CASE Tick
    BY <2>3 DEF Tick, TickCalibration, TickControl, TickPublish, TickSkip, TickDwell, TickFrame
  <2>4. CASE FastLoop
    BY <2>4 DEF FastLoop, OffsetSample, OffsetComplete, Measure, Reject, Control,
        StopControl, IsrStop, MeasureTrip, FaultCheck, IsrDisable
  <2>5. CASE IsrStop BY <2>5 DEF IsrStop, IsrDisable
  <2>6. CASE RotorSlows \/ RotorAccelerates
    BY <2>6 DEF RotorSlows, RotorAccelerates, RotorStep
  <2>7. CASE UNCHANGED vars BY <2>7 DEF vars
  <2>8. QED BY <2>2, <2>3, <2>4, <2>5, <2>6, <2>7 DEF Next
<1>2. QED
  BY <1>1, Inductive, HeldInductive, PTL DEF Spec, FaultedLeavesByRecovery

-----------------------------------------------------------------------------
(* What the App promises its callers.                                      *)

AppStep == [App!Next]_(App!avars)

(* Main moves on without touching what the contract is about.              *)
LEMMA UnseenStep ==
  ASSUME UNCHANGED <<drive_state, faultVars, cmdVars>>, Calibrated' = Calibrated
  PROVE  AppStep
BY DEF AppStep, App!avars, App!drive, App!fault, CommandsAreZero, faultVars, cmdVars

(* A step of main is one of the contract, or unseen.                       *)
LEMMA MainStepContract ==
  ASSUME TypeOK, Parts, Held, MainStep PROVE AppStep
<1> USE DEF At, Goto, appVars, calVars, faultVars, cmdVars
<1>1. CASE Update
  BY <1>1, UnseenStep DEF Update, Calibrated
<1>2. CASE CalTimeout
  BY <1>2, UnseenStep DEF CalTimeout, Jump, Calibrated
<1>3. CASE CalAbort
  BY <1>3, UnseenStep DEF CalAbort, Calibrated
<1>4. CASE CalCheck
  BY <1>4, UnseenStep DEF CalCheck, Jump, Calibrated
<1>5. CASE CalReady
  BY <1>5 DEF CalReady, StoreState, App!Calibrate, App!Overtaken, App!States,
      App!Running, CalPcs, LoopPcs, DisablePcs, AppStep, App!Next, App!avars, App!drive, App!fault,
      Calibrated, CommandsAreZero, TypeOK, Parts, StateIsAccountedFor,
      CalibrationIsFirst, Held, ClearIsGuarded, ControlIsHeld, EndIsAhead, DriveStates, FocModes
<1>6. CASE Latch
  BY <1>6 DEF Latch, App!Fault, AppStep, App!Next, App!avars, App!drive, App!fault,
      Calibrated, CommandsAreZero, TypeOK, Parts, StateIsAccountedFor,
      CalibrationIsFirst, Held, ClearIsGuarded, ControlIsHeld, EndIsAhead, DriveStates, FocModes
<1>7. CASE DisableMode
  BY <1>7, UnseenStep DEF DisableMode, Calibrated
<1>8. CASE DisableState
  BY <1>8 DEF DisableState, App!Fault, DisablePcs, AppStep, App!Next, App!avars,
      App!drive, App!fault, Calibrated, CommandsAreZero, TypeOK, Parts,
      StateIsAccountedFor, CalibrationIsFirst, Held, ClearIsGuarded, ControlIsHeld, EndIsAhead,
      DriveStates, FocModes
<1>9. CASE SkipDisable
  BY <1>9, UnseenStep DEF SkipDisable, Return, Calibrated
<1>10. CASE LockOutputs
  BY <1>10, UnseenStep DEF LockOutputs, Jump, Calibrated
<1>11. CASE DisableOutputs
  BY <1>11, UnseenStep DEF DisableOutputs, StopOutputs, Calibrated
<1>12. CASE DisableFlag
  BY <1>12, UnseenStep DEF DisableFlag, Return, Calibrated
<1>13. CASE SkipParameters
  BY <1>13, UnseenStep DEF SkipParameters, Jump, Calibrated
<1>14. CASE OpenWindow
  BY <1>14, UnseenStep DEF OpenWindow, Jump, Calibrated
<1>15. CASE StopSampling
  BY <1>15, UnseenStep DEF StopSampling, Calibrated
<1>16. CASE ApplyParameters
  BY <1>16, UnseenStep DEF ApplyParameters, Calibrated
<1>17. CASE RestartSampling
  BY <1>17, UnseenStep DEF RestartSampling, Calibrated
<1>18. CASE StartCommand
  BY <1>18, UnseenStep DEF StartCommand, Issue, Calibrated
<1>19. CASE SetCommand
  BY <1>19 DEF SetCommand, Issue, App!Refer, App!Running, AppStep, App!Next, App!avars,
      App!drive, App!fault, Calibrated, CommandsAreZero, TypeOK, Parts,
      StateIsAccountedFor, CalibrationIsFirst, Held, ClearIsGuarded, ControlIsHeld, EndIsAhead,
      DriveStates, FocModes
<1>20. CASE StopCommand
  BY <1>20 DEF StopCommand, Issue, App!Refer, App!Running, AppStep, App!Next, App!avars,
      App!drive, App!fault, Calibrated, CommandsAreZero, TypeOK, Parts,
      StateIsAccountedFor, CalibrationIsFirst, Held, ClearIsGuarded, ControlIsHeld, EndIsAhead,
      DriveStates, FocModes
<1>21. CASE ClearCommand
  BY <1>21, UnseenStep DEF ClearCommand, Issue, Calibrated
<1>22. CASE RecoverCommand
  BY <1>22, UnseenStep DEF RecoverCommand, Issue, Calibrated
<1>23. CASE EndTurn
  BY <1>23, UnseenStep DEF EndTurn, Jump, Calibrated
<1>24. CASE ClearSet
  BY <1>24 DEF ClearSet, Return, App!RequestClear, AppStep, App!Next, App!avars,
      App!drive, App!fault, Calibrated, CommandsAreZero, TypeOK, Parts,
      StateIsAccountedFor, CalibrationIsFirst, Held, ClearIsGuarded, ControlIsHeld, EndIsAhead,
      DriveStates, FocModes
<1>25. CASE RecoverSet
  BY <1>25 DEF RecoverSet, StoreState, Return, App!Recover, App!Overtaken, App!States,
      App!Running, AppStep, App!Next, App!avars, App!drive, App!fault, Calibrated,
      CommandsAreZero, TypeOK, Parts, StateIsAccountedFor, CalibrationIsFirst, Held,
      ClearIsGuarded, ControlIsHeld, EndIsAhead, DriveStates, FocModes
<1>26. CASE StartZero
  BY <1>26 DEF StartZero, App!Refer, App!Running, StartPcs, LoopPcs, DisablePcs, AppStep, App!Next,
      App!avars, App!drive, App!fault, Calibrated, CommandsAreZero, TypeOK, Parts,
      StateIsAccountedFor, CalibrationIsFirst, Held, ClearIsGuarded, ControlIsHeld, EndIsAhead,
      DriveStates, FocModes
<1>27. CASE StartSpeedZero
  BY <1>27 DEF StartSpeedZero, App!Refer, App!Running, StartPcs, LoopPcs, DisablePcs, AppStep,
      App!Next, App!avars, App!drive, App!fault, Calibrated, CommandsAreZero, TypeOK,
      Parts, StateIsAccountedFor, CalibrationIsFirst, Held, ClearIsGuarded,
      ControlIsHeld, DriveStates, FocModes
<1>28. CASE StartChecks
  BY <1>28, UnseenStep DEF StartChecks, Return, Calibrated
<1>29. CASE StartMode
  BY <1>29, UnseenStep DEF StartMode, Calibrated
<1>30. CASE StartTarget
  BY <1>30, UnseenStep DEF StartTarget, Calibrated
<1>31. CASE Enable
  BY <1>31, UnseenStep DEF Enable, Jump, Calibrated
<1>32. CASE StartOutputs
  BY <1>32, UnseenStep DEF StartOutputs, Calibrated
<1>33. CASE EnableFlag
  BY <1>33, UnseenStep DEF EnableFlag, Calibrated
<1>34. CASE Recheck
  BY <1>34, UnseenStep DEF Recheck, Jump, Calibrated
<1>35. CASE PublishCommand
  BY <1>35 DEF PublishCommand, App!Refer, App!Running, StartPcs, LoopPcs, DisablePcs, AppStep,
      App!Next, App!avars, App!drive, App!fault, Calibrated, CommandsAreZero, TypeOK,
      Parts, StateIsAccountedFor, CalibrationIsFirst, Held, ClearIsGuarded,
      ControlIsHeld, DriveStates, FocModes
<1>36. CASE SetRunning
  BY <1>36 DEF SetRunning, StoreState, RunningState, Return, App!Start, App!Overtaken,
      App!States, App!Running, StartPcs, LoopPcs, DisablePcs, AppStep, App!Next, App!avars,
      App!drive, App!fault, Calibrated, CommandsAreZero, TypeOK, Parts,
      StateIsAccountedFor, CalibrationIsFirst, Held, ClearIsGuarded, ControlIsHeld, EndIsAhead,
      DriveStates, FocModes
<1>37. CASE RampState
  BY <1>37 DEF RampState, StoreState, App!Stop, App!Overtaken, App!States, App!Running,
      LoopPcs, DisablePcs, AppStep, App!Next, App!avars, App!drive, App!fault, Calibrated,
      CommandsAreZero, TypeOK, Parts, StateIsAccountedFor, CalibrationIsFirst, Held,
      ClearIsGuarded, ControlIsHeld, EndIsAhead, DriveStates, FocModes
<1>38. CASE RampDwell
  BY <1>38, UnseenStep DEF RampDwell, Return, Calibrated
<1>39. CASE StopMode
  BY <1>39, UnseenStep DEF StopMode, Stopped, Return, Calibrated
<1>40. CASE StopZero
  BY <1>40 DEF StopZero, App!Refer, App!Running, StopPcs, LoopPcs, DisablePcs, Running, AppStep,
      App!Next, App!avars, App!drive, App!fault, Calibrated, CommandsAreZero, TypeOK,
      Parts, StateIsAccountedFor, CalibrationIsFirst, Held, ClearIsGuarded,
      ControlIsHeld, DriveStates, FocModes
<1>41. CASE SkipStop
  BY <1>41, UnseenStep DEF SkipStop, Jump, Calibrated
<1>42. CASE StopHal
  BY <1>42, UnseenStep DEF StopHal, StopOutputs, Calibrated
<1>43. CASE StopFlag
  BY <1>43, UnseenStep DEF StopFlag, Calibrated
<1>44. CASE StopReady
  BY <1>44 DEF StopReady, StoreState, Stopped, Return, App!Stop, App!Overtaken,
      App!States, App!Running, StopPcs, LoopPcs, DisablePcs, AppStep, App!Next, App!avars,
      App!drive, App!fault, Calibrated, CommandsAreZero, TypeOK, Parts,
      StateIsAccountedFor, CalibrationIsFirst, Held, ClearIsGuarded, ControlIsHeld, EndIsAhead,
      DriveStates, FocModes
<1>45. QED
  BY <1>1, <1>2, <1>3, <1>4, <1>5, <1>6, <1>7, <1>8, <1>9, <1>10, <1>11, <1>12, <1>13,
      <1>14, <1>15, <1>16, <1>17, <1>18, <1>19, <1>20, <1>21, <1>22, <1>23, <1>24,
      <1>25, <1>26, <1>27, <1>28, <1>29, <1>30, <1>31, <1>32, <1>33, <1>34, <1>35,
      <1>36, <1>37, <1>38, <1>39, <1>40, <1>41, <1>42, <1>43, <1>44 DEF MainStep

(* The interrupt stops the drive: a fault of the contract.                 *)
LEMMA IsrStopContract == ASSUME IsrStop PROVE AppStep
BY DEF IsrStop, IsrDisable, IsrFrame, AppStep, App!Next, App!Fault, Calibrated,
    CommandsAreZero, cmdVars

(* Its fault check is a fault, a clear that succeeds, or nothing.          *)
LEMMA FaultCheckContract ==
  ASSUME TypeOK, NEW valid \in BOOLEAN, NEW trip \in BOOLEAN, FaultCheck(valid, trip),
         UNCHANGED cmdVars, Calibrated => Calibrated', valid => Calibrated'
  PROVE  AppStep
<1> USE DEF FaultCheck, IsrDisable, CommandsAreZero, cmdVars, faultVars, appVars,
      AppStep, App!Next, App!drive, App!fault, Calibrated
<1>1. CASE latched \/ trip
  <2>1. CASE latched'
    <3>1. is_fault_clear_requested' = is_fault_clear_requested \/ ~is_fault_clear_requested'
      BY <1>1, DisableBusy \in BOOLEAN DEF TypeOK, DisableBusy
    <3>2. QED BY <1>1, <2>1, <3>1 DEF App!Fault
  <2>2. CASE ~latched'
    BY <1>1, <2>2 DEF App!Clear
  <2>3. QED BY <2>1, <2>2
<1>2. CASE ~(latched \/ trip)
  <2>1. CASE Calibrated' => Calibrated
    BY <1>2, <2>1, UnseenStep
  <2>2. CASE Calibrated'
    BY <1>2, <2>2 DEF App!Calibrate
  <2>3. QED BY <2>1, <2>2
<1>3. QED BY <1>1, <1>2

(* A path of the ADC interrupt is a step of the contract.                  *)
LEMMA FastLoopContract ==
  ASSUME TypeOK, FastLoop PROVE AppStep
<1>1. CASE OffsetSample
  <2>1. PICK trip \in BOOLEAN : FaultCheck(FALSE, trip)
    BY <1>1 DEF OffsetSample
  <2>2. UNCHANGED cmdVars /\ ~Calibrated /\ ~Calibrated'
    BY <1>1 DEF OffsetSample, IsrFrame, Calibrated
  <2>3. QED BY <2>1, <2>2, FaultCheckContract
<1>2. CASE OffsetComplete
  <2>1. UNCHANGED cmdVars /\ ~Calibrated
    BY <1>2 DEF OffsetComplete, IsrFrame, Calibrated
  <2>2. CASE calibration' = "COMPLETE" /\ \E trip \in BOOLEAN : FaultCheck(TRUE, trip)
    BY <2>1, <2>2, FaultCheckContract DEF Calibrated
  <2>3. CASE calibration' = "FAILED"
    BY <1>2, <2>1, <2>3
    DEF OffsetComplete, IsrDisable, AppStep, App!Next, App!Fault, Calibrated,
        CommandsAreZero, cmdVars
  <2>4. QED BY <1>2, <2>2, <2>3 DEF OffsetComplete
<1>3. CASE Measure
  <2>1. PICK trip \in BOOLEAN : MeasureTrip(trip)
    BY <1>3 DEF Measure
  <2>2. FaultCheck(TRUE, trip) /\ UNCHANGED cmdVars /\ Calibrated /\ Calibrated'
    BY <2>1 DEF MeasureTrip, IsrFrame, Calibrated
  <2>3. QED BY <2>2, FaultCheckContract
<1>4. CASE Reject BY <1>4, IsrStopContract DEF Reject
<1>5. CASE Control
  BY <1>5, UnseenStep DEF Control, IsrFrame, Calibrated, appVars
<1>6. CASE StopControl BY <1>6, IsrStopContract DEF StopControl
<1>7. QED
  BY <1>1, <1>2, <1>3, <1>4, <1>5, <1>6 DEF FastLoop

(* With disciplined clears the unlocked lifecycle keeps the contract of the  *)
(* App: every store of main, tick and interrupt is a step of it.            *)
THEOREM LifecycleKeepsContract == ASSUME DisciplinedClear PROVE Spec => KeepsContract
<1>1. Init => App!Init
  BY DEF Init, App!Init, Calibrated, CommandsAreZero
<1>2. IInv /\ Held /\ [Next]_vars => AppStep
  <2> SUFFICES ASSUME IInv, Held, [Next]_vars PROVE AppStep
    OBVIOUS
  <2>1. TypeOK /\ Parts
    BY DEF IInv, Parts
  <2>2. CASE MainStep BY <2>1, <2>2, MainStepContract
  <2>3. CASE Tick
    BY <2>3, UnseenStep
    DEF Tick, TickCalibration, TickControl, TickPublish, TickSkip, TickDwell, TickFrame,
        appVars, Calibrated
  <2>4. CASE FastLoop BY <2>1, <2>4, FastLoopContract
  <2>5. CASE IsrStop BY <2>5, IsrStopContract
  <2>6. CASE RotorSlows \/ RotorAccelerates
    BY <2>6, UnseenStep DEF RotorSlows, RotorAccelerates, RotorStep, appVars, calVars, Calibrated
  <2>7. CASE UNCHANGED vars
    BY <2>7, UnseenStep DEF vars, appVars, calVars, Calibrated
  <2>8. QED BY <2>2, <2>3, <2>4, <2>5, <2>6, <2>7 DEF Next
<1>3. QED
  BY <1>1, <1>2, Inductive, HeldInductive, PTL DEF Spec, AppStep, KeepsContract, App!Spec

-----------------------------------------------------------------------------
(* A latched fault turns the outputs off.                                  *)

(* The outputs have outlived the latch.                                    *)
AtRisk == latched /\ outputs

(* How many steps of main, at most, until it turns them off.               *)
OffDistance ==
  IF pc \in {"disableHalLocked", "stopHalLocked"} THEN 1 ELSE
  IF pc = "disableHal" THEN 2 ELSE
  IF pc = "disableState" THEN 3 ELSE
  IF pc = "disableMode" THEN 4 ELSE
  IF pc = "recheck" THEN 5 ELSE 6

OffWithin(n) == AtRisk /\ OffDistance <= n

(* Every step of main takes the outputs nearer to their end.               *)
LEMMA MainNearsOff ==
  ASSUME FlagFollowsOutputs, FaultBoundsOutputs, AtRisk, MainStep
  PROVE  ~outputs' \/ OffDistance' < OffDistance
<1> SUFFICES ASSUME outputs' PROVE OffDistance' < OffDistance
  OBVIOUS
<1> USE DEF AtRisk, OffDistance, At, Goto, FaultBoundsOutputs, appVars, pwmVars, faultVars
<1>1. CASE Update \/ CalTimeout \/ CalAbort \/ CalCheck \/ CalReady \/ Latch
  <2>1. pc = "update" \/ pc \in CalPcs
    BY <1>1, Zenon
    DEF Update, CalTimeout, CalAbort, CalCheck, CalReady, Latch, Jump, StoreState, CalPcs
  <2>2. QED BY <2>1 DEF CalPcs
<1>2. CASE DisableMode BY <1>2 DEF DisableMode
<1>3. CASE DisableState BY <1>3 DEF DisableState
<1>4. CASE SkipDisable BY <1>4 DEF SkipDisable, FlagFollowsOutputs
<1>5. CASE LockOutputs
  <2>1. (pc = "disableHal" /\ pc' = "disableHalLocked") \/ pc = "stopHal"
    BY <1>5, Zenon DEF LockOutputs, Jump
  <2>2. QED BY <2>1
<1>6. CASE DisableOutputs \/ DisableFlag
  BY <1>6 DEF DisableOutputs, DisableFlag, StopOutputs
<1>7. CASE SkipParameters \/ OpenWindow \/ StopSampling \/ ApplyParameters \/ RestartSampling
  BY <1>7 DEF SkipParameters, OpenWindow, StopSampling, ApplyParameters, RestartSampling, Jump
<1>8. CASE StartCommand \/ SetCommand \/ StopCommand \/ ClearCommand \/ RecoverCommand \/ EndTurn
  BY <1>8 DEF StartCommand, SetCommand, StopCommand, ClearCommand, RecoverCommand, EndTurn,
      Issue, Jump
<1>9. CASE ClearSet \/ RecoverSet
  BY <1>9 DEF ClearSet, RecoverSet, StoreState
<1>10. CASE StartZero \/ StartSpeedZero \/ StartChecks \/ StartMode \/ StartTarget \/ Enable
  BY <1>10 DEF StartZero, StartSpeedZero, StartChecks, StartMode, StartTarget, Enable, Jump
<1>11. CASE StartOutputs BY <1>11 DEF StartOutputs
<1>12. CASE EnableFlag BY <1>12 DEF EnableFlag
<1>13. CASE Recheck BY <1>13 DEF Recheck, Jump
<1>14. CASE PublishCommand \/ SetRunning \/ RampState \/ RampDwell
  BY <1>14 DEF PublishCommand, SetRunning, RampState, RampDwell, StoreState
<1>15. CASE StopMode \/ StopZero \/ SkipStop \/ StopHal \/ StopFlag \/ StopReady
  BY <1>15 DEF StopMode, StopZero, SkipStop, StopHal, StopFlag, StopReady, StopOutputs, StoreState, Jump
<1>16. QED
  BY <1>1, <1>2, <1>3, <1>4, <1>5, <1>6, <1>7, <1>8, <1>9, <1>10, <1>11, <1>12, <1>13, <1>14,
     <1>15 DEF MainStep

(* The interrupt, the tick and the plant leave main where it stands.        *)
LEMMA OthersLeaveMain ==
  ASSUME [Next]_vars
  PROVE  MainStep \/ pc' = pc
<1>1. CASE Tick
  BY <1>1 DEF Tick, TickCalibration, TickControl, TickPublish, TickSkip, TickDwell, TickFrame,
      mainVars
<1>2. CASE FastLoop
  BY <1>2 DEF FastLoop, OffsetSample, OffsetComplete, Measure, Reject, Control, StopControl,
      IsrStop, MeasureTrip, IsrFrame, mainVars
<1>3. CASE IsrStop BY <1>3 DEF IsrStop, IsrFrame, mainVars
<1>4. CASE RotorSlows \/ RotorAccelerates
  BY <1>4 DEF RotorSlows, RotorAccelerates, RotorStep, mainVars
<1>5. CASE UNCHANGED vars BY <1>5 DEF vars, mainVars
<1>6. QED BY <1>1, <1>2, <1>3, <1>4, <1>5 DEF Next

(* So the outputs stay within n steps of their end, or within n - 1.        *)
LEMMA OffSooner ==
  ASSUME NEW n \in 1..6
  PROVE  /\ IInv /\ Held /\ OffWithin(n) /\ [Next]_vars => ~outputs' \/ OffWithin(n)'
         /\ IInv /\ Held /\ OffWithin(n) /\ <<MainStep>>_vars => ~outputs' \/ OffWithin(n - 1)'
<1>1. ASSUME IInv, Held, OffWithin(n), [Next]_vars
      PROVE  ~outputs' \/ OffWithin(n)'
  <2>1. ~latched' => ~outputs'
    BY <1>1, ReleaseLeavesOff DEF OffWithin, AtRisk
  <2>2. CASE MainStep
    BY <1>1, <2>1, <2>2, MainNearsOff DEF IInv, OffWithin, AtRisk, OffDistance
  <2>3. CASE pc' = pc
    <3>1. OffDistance' = OffDistance BY <2>3 DEF OffDistance
    <3>2. QED BY <1>1, <2>1, <3>1 DEF OffWithin, AtRisk
  <2>4. QED BY <1>1, <2>2, <2>3, OthersLeaveMain
<1>2. ASSUME IInv, Held, OffWithin(n), MainStep
      PROVE  ~outputs' \/ OffWithin(n - 1)'
  <2>1. ~latched' => ~outputs'
    BY <1>2, ReleaseLeavesOff DEF OffWithin, AtRisk, Next
  <2>2. QED BY <1>2, <2>1, MainNearsOff DEF IInv, OffWithin, AtRisk, OffDistance
<1>3. QED BY <1>1, <1>2

(* Main stands still while a tick is on top of it, and leaves it its own.    *)
LEMMA MainWaitsForTick ==
  ASSUME MainStep PROVE tick = "idle" /\ UNCHANGED <<tickVars, plantVars>>
BY DEF MainStep, At, Update, CalTimeout, CalAbort, CalCheck, CalReady, Latch,
       DisableMode, DisableState, SkipDisable, LockOutputs, DisableOutputs,
       DisableFlag, SkipParameters, OpenWindow, StopSampling, ApplyParameters,
       RestartSampling, StartCommand, SetCommand, StopCommand, ClearCommand,
       RecoverCommand, EndTurn, ClearSet, RecoverSet, StartZero, StartSpeedZero,
       StartChecks, StartMode, StartTarget, Enable, StartOutputs, EnableFlag,
       Recheck, PublishCommand, SetRunning, RampState, RampDwell, StopMode, StopZero,
       SkipStop, StopHal, StopFlag, StopReady, Jump, StoreState, Issue, StopOutputs

(* Nobody but the tick itself moves it.                                     *)
LEMMA TickKept == ASSUME [Next]_vars, ~Tick PROVE UNCHANGED tickVars
<1>1. CASE MainStep BY <1>1, MainWaitsForTick
<1>2. CASE FastLoop
  BY <1>2 DEF FastLoop, OffsetSample, OffsetComplete, Measure, Reject, Control, StopControl,
      IsrStop, MeasureTrip, IsrFrame
<1>3. CASE IsrStop BY <1>3 DEF IsrStop, IsrFrame
<1>4. CASE RotorSlows \/ RotorAccelerates
  BY <1>4 DEF RotorSlows, RotorAccelerates, RotorStep
<1>5. CASE UNCHANGED vars BY <1>5 DEF vars
<1>6. QED BY <1>1, <1>2, <1>3, <1>4, <1>5 DEF Next

(* A tick that publishes goes on to the dwell, and one at the dwell ends.    *)
LEMMA TickMoves ==
  ASSUME [Next]_vars
  PROVE  /\ tick = "publish" => tick' = "dwell" \/ (tick' = "publish" /\ ~Tick)
         /\ tick = "dwell" => tick' = "idle" \/ (tick' = "dwell" /\ ~Tick)
<1>1. CASE Tick
  BY <1>1 DEF Tick, TickCalibration, TickControl, TickPublish, TickSkip, TickDwell
<1>2. QED BY <1>1, TickKept DEF tickVars

(* A tick always comes to its end,                                         *)
LEMMA TickEnds == CoreSpec /\ []NobodyWaits => []<>(tick = "idle")
<1>1. tick = "publish" /\ [Next]_vars => (tick = "publish")' \/ (tick = "dwell")'
  BY TickMoves
<1>2. tick = "publish" /\ <<Tick>>_vars => (tick = "dwell")'
  BY TickMoves DEF Next
<1>3. tick = "dwell" /\ [Next]_vars => (tick = "dwell")' \/ (tick = "idle")'
  BY TickMoves
<1>4. tick = "dwell" /\ <<Tick>>_vars => (tick = "idle")'
  BY TickMoves DEF Next
<1>5. IInv => tick = "idle" \/ (tick # "idle" /\ (tick = "publish" \/ tick = "dwell"))
  BY DEF IInv, TypeOK
<1>6. QED
  BY <1>1, <1>2, <1>3, <1>4, <1>5, Inductive, PTL
  DEF CoreSpec, CoreFairness, Spec, NobodyWaits, TickGoesOn, TickIsAwaited

(* ... so main is never kept from its next step.                           *)
LEMMA MainTurns == CoreSpec /\ []NobodyWaits => []<><<MainStep>>_vars
BY TickEnds, PTL DEF CoreSpec, CoreFairness, Spec, NobodyWaits, MainGoesOn

(* A latched fault turns the outputs off: main is never kept from the end of *)
(* the enable or the disable the fault came into.                          *)
THEOREM FaultOff ==
  ASSUME DisciplinedClear
  PROVE  CoreSpec /\ []NobodyWaits => FaultTurnsPwmOff
<1>1. IInv /\ Held /\ OffWithin(1) /\ [Next]_vars => ~outputs' \/ OffWithin(1)'
  BY OffSooner
<1>2. IInv /\ Held /\ OffWithin(1) /\ <<MainStep>>_vars => ~outputs' \/ OffWithin(0)'
  BY OffSooner
<1>3. IInv /\ Held /\ OffWithin(2) /\ [Next]_vars => ~outputs' \/ OffWithin(2)'
  BY OffSooner
<1>4. IInv /\ Held /\ OffWithin(2) /\ <<MainStep>>_vars => ~outputs' \/ OffWithin(1)'
  BY OffSooner
<1>5. IInv /\ Held /\ OffWithin(3) /\ [Next]_vars => ~outputs' \/ OffWithin(3)'
  BY OffSooner
<1>6. IInv /\ Held /\ OffWithin(3) /\ <<MainStep>>_vars => ~outputs' \/ OffWithin(2)'
  BY OffSooner
<1>7. IInv /\ Held /\ OffWithin(4) /\ [Next]_vars => ~outputs' \/ OffWithin(4)'
  BY OffSooner
<1>8. IInv /\ Held /\ OffWithin(4) /\ <<MainStep>>_vars => ~outputs' \/ OffWithin(3)'
  BY OffSooner
<1>9. IInv /\ Held /\ OffWithin(5) /\ [Next]_vars => ~outputs' \/ OffWithin(5)'
  BY OffSooner
<1>10. IInv /\ Held /\ OffWithin(5) /\ <<MainStep>>_vars => ~outputs' \/ OffWithin(4)'
  BY OffSooner
<1>11. IInv /\ Held /\ OffWithin(6) /\ [Next]_vars => ~outputs' \/ OffWithin(6)'
  BY OffSooner
<1>12. IInv /\ Held /\ OffWithin(6) /\ <<MainStep>>_vars => ~outputs' \/ OffWithin(5)'
  BY OffSooner
<1>13. ~OffWithin(0)
  BY DEF OffWithin, OffDistance
<1>14. latched => ~outputs \/ OffWithin(6)
  BY DEF OffWithin, AtRisk, OffDistance
<1>15. QED
  BY <1>1, <1>2, <1>3, <1>4, <1>5, <1>6, <1>7, <1>8, <1>9, <1>10, <1>11, <1>12, <1>13,
     <1>14, MainTurns, Inductive, HeldInductive, PTL
  DEF CoreSpec, Spec, FaultTurnsPwmOff

-----------------------------------------------------------------------------
(* The calibration ends, and so does a speed stop.                         *)

Settled == drive_state \in {"READY", "FAULTED"}

(* The timeout is asked for, or main is on its way out of the calibration.   *)
CalEnds ==
  /\ drive_state = "CALIBRATION"
  /\ \/ timeout_requested
     \/ pc \in {"calTimeout", "calAbort", "latch", "disableMode", "disableState", "calReady"}
     \/ pc = "calCheck" /\ Calibrated

(* How many steps of main, at most, until it ends.                         *)
CalDistance ==
  IF pc \in {"calReady", "disableState"} THEN 1 ELSE
  IF pc = "disableMode" \/ (pc = "calCheck" /\ Calibrated) THEN 2 ELSE
  IF pc = "latch" THEN 3 ELSE
  IF pc = "calAbort" THEN 4 ELSE
  IF pc = "calTimeout" THEN 5 ELSE
  IF pc = "update" THEN 6 ELSE
  IF pc = "command" /\ issued = MaxCommands THEN 7 ELSE
  IF pc = "clearSet" THEN 8 ELSE
  IF pc = "command" THEN 9 ELSE
  IF pc = "parameters" THEN 10 ELSE 11

CalWithin(n) == CalEnds /\ CalDistance <= n

(* Where main may stand while the calibration runs.                        *)
LEMMA CalPoints ==
  ASSUME DisciplinedClear, IInv, Held, drive_state = "CALIBRATION"
  PROVE  /\ pc \in {"update", "parameters", "command", "calTimeout", "calAbort", "calCheck",
                    "calReady", "latch", "disableMode", "disableState", "clearSet"}
         /\ pc = "clearSet" => issued = MaxCommands
         /\ calibration = "FAILED" => pc \in {"latch", "disableMode", "disableState"}
<1>1. pc \in Pcs \ (StartPcs \cup ParameterPcs \cup StopPcs)
  BY DEF IInv, TypeOK, StateIsAccountedFor, Running
<1>2. pc \notin {"disableHal", "disableHalLocked", "disableFlag", "recoverSet", "rampState",
                 "rampDwell"}
  BY DEF IInv, StateIsAccountedFor, Held, ClearIsGuarded, ControlIsHeld, EndIsAhead
<1>3. QED
  BY <1>1, <1>2
  DEF Pcs, LoopPcs, CalPcs, DisablePcs, OtherPcs, StopPcs, StartPcs, ParameterPcs, Held,
      EndIsAhead, ClearIsGuarded

(* Every step of main takes a calibration on its way out nearer to its end.  *)
LEMMA MainNearsCal ==
  ASSUME DisciplinedClear, IInv, Held, drive_state = "CALIBRATION", MainStep
  PROVE  \/ Settled'
         \/ /\ drive_state' = "CALIBRATION"
            /\ CalEnds => CalEnds' /\ CalDistance' < CalDistance
<1> DEFINE Nearer == \/ Settled'
                     \/ /\ drive_state' = "CALIBRATION"
                        /\ CalEnds => CalEnds' /\ CalDistance' < CalDistance
<1> SUFFICES Nearer OBVIOUS
<1>0. /\ drive_state = "CALIBRATION"
      /\ pc \in {"update", "parameters", "command", "calTimeout", "calAbort", "calCheck",
                 "calReady", "latch", "disableMode", "disableState", "clearSet"}
      /\ pc = "clearSet" => issued = MaxCommands
      /\ calibration = "FAILED" => pc \in {"latch", "disableMode", "disableState"}
  BY CalPoints
<1> USE <1>0 DEF Settled, CalEnds, CalDistance, At, Goto, Calibrated, appVars, calVars
<1>1. CASE Update
  BY <1>1 DEF Update
<1>2. CASE CalTimeout
  BY <1>2 DEF CalTimeout, Jump, IInv, TypeOK
<1>3. CASE CalAbort
  BY <1>3 DEF CalAbort, IInv, TypeOK
<1>4. CASE CalCheck
  BY <1>4 DEF CalCheck, Jump
<1>5. CASE CalReady BY <1>5 DEF CalReady, StoreState
<1>6. CASE Latch BY <1>6 DEF Latch
<1>7. CASE DisableMode BY <1>7 DEF DisableMode
<1>8. CASE DisableState BY <1>8 DEF DisableState
<1>9. CASE SkipParameters BY <1>9 DEF SkipParameters, Jump
<1>10. CASE EndTurn BY <1>10 DEF EndTurn, Jump
<1>11. CASE SkipDisable \/ DisableOutputs \/ DisableFlag
  BY <1>11 DEF SkipDisable, DisableOutputs, DisableFlag, StopOutputs
<1>12. CASE LockOutputs
  <2>1. pc = "disableHal" \/ pc = "stopHal" BY <1>12, Zenon DEF LockOutputs, Jump
  <2>2. QED BY <2>1
<1>13. CASE OpenWindow \/ StopSampling \/ ApplyParameters \/ RestartSampling
  BY <1>13 DEF OpenWindow, StopSampling, ApplyParameters, RestartSampling
<1>14. CASE StartCommand \/ SetCommand \/ StopCommand \/ RecoverCommand
  BY <1>14 DEF StartCommand, SetCommand, StopCommand, RecoverCommand
<1>15. CASE ClearCommand
  BY <1>15, BoundsAssumption DEF ClearCommand, IInv, TypeOK
<1>16. CASE ClearSet \/ RecoverSet
  BY <1>16 DEF ClearSet, RecoverSet, StoreState, Return
<1>17. CASE StartZero \/ StartSpeedZero \/ StartChecks \/ StartMode \/ StartTarget \/ Enable
  BY <1>17 DEF StartZero, StartSpeedZero, StartChecks, StartMode, StartTarget, Enable, Jump
<1>18. CASE StartOutputs \/ EnableFlag \/ Recheck
  BY <1>18 DEF StartOutputs, EnableFlag, Recheck, Jump
<1>19. CASE PublishCommand \/ SetRunning \/ RampState \/ RampDwell
  BY <1>19 DEF PublishCommand, SetRunning, RampState, RampDwell, StoreState
<1>20. CASE StopMode \/ StopZero \/ SkipStop \/ StopHal \/ StopFlag \/ StopReady
  BY <1>20 DEF StopMode, StopZero, SkipStop, StopHal, StopFlag, StopReady, StopOutputs, StoreState, Jump
<1>21. QED
  BY <1>1, <1>2, <1>3, <1>4, <1>5, <1>6, <1>7, <1>8, <1>9, <1>10, <1>11, <1>12, <1>13, <1>14,
     <1>15, <1>16, <1>17, <1>18, <1>19, <1>20 DEF MainStep

(* The others leave it on its way, or end it with a fault.                  *)
LEMMA OthersLeaveCal ==
  ASSUME IInv, drive_state = "CALIBRATION", [Next]_vars
  PROVE  \/ MainStep
         \/ Settled'
         \/ /\ UNCHANGED <<drive_state, pc, issued>>
            /\ timeout_requested => timeout_requested'
            /\ Calibrated => Calibrated'
<1> USE DEF Settled, Calibrated
<1>1. CASE Tick
  <2>1. UNCHANGED <<drive_state, pc, issued, calibration>>
    BY <1>1
    DEF Tick, TickCalibration, TickControl, TickPublish, TickSkip, TickDwell, TickFrame,
        mainVars, opVars, appVars
  <2>2. timeout_requested => timeout_requested'
    BY <1>1, Zenon
    DEF Tick, TickCalibration, TickControl, TickPublish, TickSkip, TickDwell
  <2>3. QED BY <2>1, <2>2
<1>2. CASE FastLoop
  BY <1>2 DEF FastLoop, OffsetSample, OffsetComplete, Measure, Reject, Control, StopControl,
      IsrStop, MeasureTrip, IsrFrame, mainVars, opVars, FaultCheck, IsrDisable, tickVars, appVars
<1>3. CASE IsrStop BY <1>3 DEF IsrStop, IsrDisable
<1>4. CASE RotorSlows \/ RotorAccelerates
  BY <1>4 DEF RotorSlows, RotorAccelerates, RotorStep, mainVars, opVars, appVars, calVars, tickVars
<1>5. CASE UNCHANGED vars BY <1>5 DEF vars, mainVars, opVars, appVars, calVars, tickVars
<1>6. QED BY <1>1, <1>2, <1>3, <1>4, <1>5 DEF Next

(* So an overdue calibration stays within n steps of its end, or n - 1.     *)
LEMMA CalSooner ==
  ASSUME DisciplinedClear, NEW n \in 1..11
  PROVE  /\ IInv /\ Held /\ CalWithin(n) /\ [Next]_vars => Settled' \/ CalWithin(n)'
         /\ IInv /\ Held /\ CalWithin(n) /\ <<MainStep>>_vars => Settled' \/ CalWithin(n - 1)'
<1>1. ASSUME IInv, Held, CalWithin(n), MainStep
      PROVE  Settled' \/ CalWithin(n - 1)'
  BY <1>1, MainNearsCal DEF CalWithin, CalEnds, CalDistance
<1>2. ASSUME IInv, Held, CalWithin(n), [Next]_vars
      PROVE  Settled' \/ CalWithin(n)'
  <2>1. CASE MainStep
    BY <1>2, <2>1, <1>1 DEF CalWithin, CalDistance
  <2>2. CASE ~MainStep /\ ~Settled'
    <3>1. CalEnds'
      BY <1>2, <2>2, OthersLeaveCal DEF CalWithin, CalEnds
    <3>2. CalDistance' <= CalDistance
      BY <1>2, <2>2, OthersLeaveCal DEF CalWithin, CalEnds, CalDistance
    <3>3. QED BY <1>2, <3>1, <3>2 DEF CalWithin, CalDistance
  <2>3. QED BY <2>1, <2>2
<1>3. QED BY <1>1, <1>2

(* What is left of the calibration's time.                                 *)
TimeLeft == CalibrationTimeout - elapsed

(* It is never given back.                                                 *)
LEMMA TimeRuns ==
  ASSUME IInv, [Next]_vars
  PROVE  TimeLeft' <= TimeLeft
<1>1. elapsed \in 0..CalibrationTimeout /\ CalibrationTimeout \in Nat
  BY BoundsAssumption DEF IInv, TypeOK
<1>2. CASE Tick
  BY <1>1, <1>2
  DEF TimeLeft, Tick, TickCalibration, TickControl, TickPublish, TickSkip, TickDwell, TickFrame
<1>3. CASE ~Tick
  BY <1>1, <1>3, TickKept DEF TimeLeft, tickVars
<1>4. QED BY <1>2, <1>3

(* A tick that begins in the calibration leaves none over, and either counts *)
(* or, with no time left, asks for the timeout.                            *)
LEMMA CalibrationTick ==
  ASSUME DisciplinedClear, IInv, drive_state = "CALIBRATION", tick = "idle", [Next]_vars
  PROVE  /\ tick' = "idle"
         /\ Tick => CalEnds' \/ TimeLeft' < TimeLeft
<1>1. ASSUME Tick PROVE tick' = "idle" /\ (CalEnds' \/ TimeLeft' < TimeLeft)
  <2>1. TickCalibration
    BY <1>1 DEF Tick, TickControl, TickPublish, TickSkip, TickDwell
  <2>2. elapsed \in 0..CalibrationTimeout /\ CalibrationTimeout \in Nat
    BY BoundsAssumption DEF IInv, TypeOK
  <2>3. CASE elapsed < CalibrationTimeout
    BY <2>1, <2>2, <2>3 DEF TickCalibration, TimeLeft
  <2>4. CASE elapsed = CalibrationTimeout
    <3>1. elapsed' >= CalibrationTimeout BY <2>1, <2>2, <2>4 DEF TickCalibration
    <3>2. timeout_requested' BY <2>1, <3>1, Zenon DEF TickCalibration
    <3>3. QED BY <2>1, <3>2 DEF CalEnds, TickCalibration, TickFrame, appVars
  <2>5. QED BY <2>1, <2>2, <2>3, <2>4 DEF TickCalibration
<1>2. ASSUME ~Tick PROVE tick' = "idle"
  BY <1>2, TickKept DEF tickVars
<1>3. QED BY <1>1, <1>2

(* The calibration ends, with or without samples: the tick counts its time   *)
(* out and asks for the timeout, main takes it, and no branch leads round.   *)
THEOREM CalibrationIsBounded ==
  ASSUME DisciplinedClear
  PROVE  CoreSpec /\ []NobodyWaits /\ NaturalsEnd(TimeLeft, vars) => CalibrationEnds
<1>1. IInv /\ Held /\ CalWithin(1) /\ [Next]_vars => Settled' \/ CalWithin(1)'
  BY CalSooner
<1>2. IInv /\ Held /\ CalWithin(1) /\ <<MainStep>>_vars => Settled' \/ CalWithin(0)'
  BY CalSooner
<1>3. IInv /\ Held /\ CalWithin(2) /\ [Next]_vars => Settled' \/ CalWithin(2)'
  BY CalSooner
<1>4. IInv /\ Held /\ CalWithin(2) /\ <<MainStep>>_vars => Settled' \/ CalWithin(1)'
  BY CalSooner
<1>5. IInv /\ Held /\ CalWithin(3) /\ [Next]_vars => Settled' \/ CalWithin(3)'
  BY CalSooner
<1>6. IInv /\ Held /\ CalWithin(3) /\ <<MainStep>>_vars => Settled' \/ CalWithin(2)'
  BY CalSooner
<1>7. IInv /\ Held /\ CalWithin(4) /\ [Next]_vars => Settled' \/ CalWithin(4)'
  BY CalSooner
<1>8. IInv /\ Held /\ CalWithin(4) /\ <<MainStep>>_vars => Settled' \/ CalWithin(3)'
  BY CalSooner
<1>9. IInv /\ Held /\ CalWithin(5) /\ [Next]_vars => Settled' \/ CalWithin(5)'
  BY CalSooner
<1>10. IInv /\ Held /\ CalWithin(5) /\ <<MainStep>>_vars => Settled' \/ CalWithin(4)'
  BY CalSooner
<1>11. IInv /\ Held /\ CalWithin(6) /\ [Next]_vars => Settled' \/ CalWithin(6)'
  BY CalSooner
<1>12. IInv /\ Held /\ CalWithin(6) /\ <<MainStep>>_vars => Settled' \/ CalWithin(5)'
  BY CalSooner
<1>13. IInv /\ Held /\ CalWithin(7) /\ [Next]_vars => Settled' \/ CalWithin(7)'
  BY CalSooner
<1>14. IInv /\ Held /\ CalWithin(7) /\ <<MainStep>>_vars => Settled' \/ CalWithin(6)'
  BY CalSooner
<1>15. IInv /\ Held /\ CalWithin(8) /\ [Next]_vars => Settled' \/ CalWithin(8)'
  BY CalSooner
<1>16. IInv /\ Held /\ CalWithin(8) /\ <<MainStep>>_vars => Settled' \/ CalWithin(7)'
  BY CalSooner
<1>17. IInv /\ Held /\ CalWithin(9) /\ [Next]_vars => Settled' \/ CalWithin(9)'
  BY CalSooner
<1>18. IInv /\ Held /\ CalWithin(9) /\ <<MainStep>>_vars => Settled' \/ CalWithin(8)'
  BY CalSooner
<1>19. IInv /\ Held /\ CalWithin(10) /\ [Next]_vars => Settled' \/ CalWithin(10)'
  BY CalSooner
<1>20. IInv /\ Held /\ CalWithin(10) /\ <<MainStep>>_vars => Settled' \/ CalWithin(9)'
  BY CalSooner
<1>21. IInv /\ Held /\ CalWithin(11) /\ [Next]_vars => Settled' \/ CalWithin(11)'
  BY CalSooner
<1>22. IInv /\ Held /\ CalWithin(11) /\ <<MainStep>>_vars => Settled' \/ CalWithin(10)'
  BY CalSooner
<1>23. ~CalWithin(0)
  BY DEF CalWithin, CalDistance
<1>24. CalEnds => CalWithin(11)
  BY DEF CalWithin, CalDistance
<1>25. IInv => TimeLeft \in Nat
  BY BoundsAssumption DEF IInv, TypeOK, TimeLeft
<1>26. IInv /\ [Next]_vars => [TimeLeft' <= TimeLeft]_vars
  BY TimeRuns
<1>27. IInv /\ drive_state = "CALIBRATION" /\ tick = "idle" /\ [Next]_vars => (tick = "idle")'
  BY CalibrationTick
<1>28. IInv /\ drive_state = "CALIBRATION" /\ tick = "idle" /\ <<Tick>>_vars
         => CalEnds' \/ <<TimeLeft' < TimeLeft>>_vars
  BY CalibrationTick DEF Next
<1>29. timeout_requested /\ drive_state = "CALIBRATION" => CalEnds
  BY DEF CalEnds
<1>30. IInv /\ Held /\ drive_state = "CALIBRATION" /\ [Next]_vars
         => Settled' \/ (drive_state = "CALIBRATION")'
  BY MainNearsCal, OthersLeaveCal
<1>31. Settled => drive_state \in {"READY", "FAULTED"}
  BY DEF Settled
<1>32. QED
  BY <1>1, <1>2, <1>3, <1>4, <1>5, <1>6, <1>7, <1>8, <1>9, <1>10, <1>11, <1>12, <1>13,
     <1>14, <1>15, <1>16, <1>17, <1>18, <1>19, <1>20, <1>21,
     <1>22, <1>23, <1>24, <1>25, <1>26, <1>27, <1>28, <1>29,
     <1>30, <1>31, MainTurns, TickEnds, Inductive, HeldInductive, PTL
  DEF CoreSpec, CoreFairness, Spec, NobodyWaits, TickGoesOn, TickIsAwaited, NaturalsEnd, FallsForEver,
      CalibrationEnds

(* The dwell of this stop has been counted.                                *)
Dwelt == drive_state = "RAMP_TO_ZERO" /\ dwell = StopDwell /\ pc # "rampDwell"

(* How many steps of main, at most, until the stop ends.                    *)
StopDistance ==
  IF pc \in {"stopReady", "disableState"} THEN 1 ELSE
  IF pc \in {"stopFlag", "disableMode"} THEN 2 ELSE
  IF pc = "stopHalLocked" THEN 3 ELSE
  IF pc = "stopHal" THEN 4 ELSE
  IF pc = "stopZero" THEN 5 ELSE
  IF pc = "stopMode" THEN 6 ELSE
  IF pc = "update" THEN 7 ELSE
  IF pc = "command" /\ issued = MaxCommands THEN 8 ELSE
  IF pc = "clearSet" THEN 9 ELSE
  IF pc = "command" THEN 10 ELSE 11

StopWithin(n) == Dwelt /\ StopDistance <= n

(* Where main may stand during a speed stop.                               *)
LEMMA StopPoints ==
  ASSUME DisciplinedClear, IInv, Held, drive_state = "RAMP_TO_ZERO"
  PROVE  /\ pc \in {"update", "parameters", "command", "stopMode", "stopZero", "stopHal",
                    "stopHalLocked", "stopFlag", "stopReady", "disableMode", "disableState",
                    "rampDwell", "clearSet"}
         /\ pc = "clearSet" => issued = MaxCommands
         /\ pc = "stopMode" => kind = "SPEED" /\ mode = "SPEED"
<1>1. pc \in Pcs \ (StartPcs \cup ParameterPcs \cup CalPcs)
  BY DEF IInv, TypeOK, StateIsAccountedFor
<1>2. pc \notin {"disableHal", "disableHalLocked", "disableFlag", "recoverSet", "rampState"}
  BY DEF IInv, StateIsAccountedFor, Held, ClearIsGuarded, ControlIsHeld
<1>3. ASSUME pc = "stopMode" PROVE kind = "SPEED" /\ mode = "SPEED"
  BY <1>3 DEF IInv, StopIsCounted, StopPcs, Held, ControlIsHeld, EndIsAhead
<1>4. QED
  BY <1>1, <1>2, <1>3
  DEF Pcs, LoopPcs, CalPcs, DisablePcs, OtherPcs, StopPcs, StartPcs, ParameterPcs, Held,
      ClearIsGuarded

(* Every step of main keeps a stop, and takes one dwelt on nearer to its end. *)
LEMMA MainNearsStop ==
  ASSUME DisciplinedClear, IInv, Held, drive_state = "RAMP_TO_ZERO", MainStep
  PROVE  \/ Settled'
         \/ /\ drive_state' = "RAMP_TO_ZERO"
            /\ Dwelt => Dwelt' /\ StopDistance' < StopDistance
<1> DEFINE Nearer == \/ Settled'
                     \/ /\ drive_state' = "RAMP_TO_ZERO"
                        /\ Dwelt => Dwelt' /\ StopDistance' < StopDistance
<1> SUFFICES Nearer OBVIOUS
<1>0. /\ pc \in {"update", "parameters", "command", "stopMode", "stopZero", "stopHal",
                 "stopHalLocked", "stopFlag", "stopReady", "disableMode", "disableState",
                 "rampDwell", "clearSet"}
      /\ pc = "clearSet" => issued = MaxCommands
      /\ pc = "stopMode" => kind = "SPEED" /\ mode = "SPEED"
  BY StopPoints
<1> USE <1>0, BoundsAssumption DEF Settled, Dwelt, StopDistance, At, Goto, appVars, speedVars
<1>1. CASE Update
  BY <1>1 DEF Update
<1>2. CASE CalTimeout \/ CalAbort \/ CalCheck \/ CalReady \/ Latch
  <2>1. pc \in CalPcs
    BY <1>2, Zenon DEF CalTimeout, CalAbort, CalCheck, CalReady, Latch, Jump, StoreState, CalPcs
  <2>2. QED BY <2>1 DEF CalPcs
<1>3. CASE DisableMode BY <1>3 DEF DisableMode
<1>4. CASE DisableState BY <1>4 DEF DisableState
<1>5. CASE SkipParameters BY <1>5 DEF SkipParameters, Jump
<1>6. CASE EndTurn BY <1>6 DEF EndTurn, Jump
<1>7. CASE StopMode BY <1>7 DEF StopMode
<1>8. CASE StopZero BY <1>8 DEF StopZero
<1>9. CASE SkipStop BY <1>9 DEF SkipStop, Jump
<1>10. CASE LockOutputs
  <2>1. /\ (pc = "disableHal" /\ pc' = "disableHalLocked") \/ (pc = "stopHal" /\ pc' = "stopHalLocked")
        /\ UNCHANGED <<drive_state, dwell>>
    BY <1>10, Zenon DEF LockOutputs, Jump
  <2>2. QED BY <2>1
<1>11. CASE StopHal BY <1>11 DEF StopHal, StopOutputs
<1>12. CASE StopFlag BY <1>12 DEF StopFlag
<1>13. CASE StopReady BY <1>13 DEF StopReady, StoreState
<1>14. CASE RampDwell BY <1>14 DEF RampDwell
<1>15. CASE SkipDisable \/ DisableOutputs \/ DisableFlag
  BY <1>15 DEF SkipDisable, DisableOutputs, DisableFlag, StopOutputs
<1>16. CASE OpenWindow \/ StopSampling \/ ApplyParameters \/ RestartSampling
  BY <1>16 DEF OpenWindow, StopSampling, ApplyParameters, RestartSampling
<1>17. CASE StartCommand \/ SetCommand \/ StopCommand \/ RecoverCommand
  BY <1>17 DEF StartCommand, SetCommand, StopCommand, RecoverCommand
<1>18. CASE ClearCommand
  BY <1>18 DEF ClearCommand, IInv, TypeOK
<1>19. CASE ClearSet \/ RecoverSet
  BY <1>19 DEF ClearSet, RecoverSet, StoreState, Return
<1>20. CASE StartZero \/ StartSpeedZero \/ StartChecks \/ StartMode \/ StartTarget \/ Enable
  BY <1>20 DEF StartZero, StartSpeedZero, StartChecks, StartMode, StartTarget, Enable, Jump
<1>21. CASE StartOutputs \/ EnableFlag \/ Recheck
  BY <1>21 DEF StartOutputs, EnableFlag, Recheck, Jump
<1>22. CASE PublishCommand \/ SetRunning \/ RampState
  BY <1>22 DEF PublishCommand, SetRunning, RampState, StoreState
<1>23. QED
  BY <1>1, <1>2, <1>3, <1>4, <1>5, <1>6, <1>7, <1>8, <1>9, <1>10, <1>11, <1>12, <1>13, <1>14,
     <1>15, <1>16, <1>17, <1>18, <1>19, <1>20, <1>21, <1>22 DEF MainStep

(* The others keep the stop and what it has dwelt, or end it with a fault.   *)
LEMMA OthersLeaveStop ==
  ASSUME IInv, drive_state = "RAMP_TO_ZERO", [Next]_vars, ~MainStep
  PROVE  \/ Settled'
         \/ /\ UNCHANGED <<drive_state, pc, issued>>
            /\ Dwelt => Dwelt'
<1> USE DEF Settled, Dwelt
<1>1. CASE Tick
  <2>1. UNCHANGED <<drive_state, pc, issued>>
    BY <1>1
    DEF Tick, TickCalibration, TickControl, TickPublish, TickSkip, TickDwell, TickFrame,
        mainVars, opVars, appVars
  <2>2. Dwelt => ramp_seen = 0
    BY BoundsAssumption DEF IInv, StopIsCounted
  <2>3. Dwelt => dwell' = StopDwell
    BY <1>1, <2>2, BoundsAssumption
    DEF Tick, TickCalibration, TickControl, TickPublish, TickSkip, TickDwell, TickFrame, speedVars
  <2>4. QED BY <2>1, <2>3
<1>2. CASE FastLoop
  BY <1>2 DEF FastLoop, OffsetSample, OffsetComplete, Measure, Reject, Control, StopControl,
      IsrStop, MeasureTrip, IsrFrame, mainVars, opVars, FaultCheck, IsrDisable, appVars
<1>3. CASE IsrStop BY <1>3 DEF IsrStop, IsrDisable
<1>4. CASE RotorSlows \/ RotorAccelerates
  BY <1>4 DEF RotorSlows, RotorAccelerates, RotorStep, mainVars, opVars, appVars, speedVars
<1>5. CASE UNCHANGED vars BY <1>5 DEF vars, mainVars, opVars, appVars, speedVars
<1>6. QED BY <1>1, <1>2, <1>3, <1>4, <1>5 DEF Next

(* So a stop dwelt on stays within n steps of its end, or within n - 1.      *)
LEMMA StopSooner ==
  ASSUME DisciplinedClear, NEW n \in 1..11
  PROVE  /\ IInv /\ Held /\ StopWithin(n) /\ [Next]_vars => Settled' \/ StopWithin(n)'
         /\ IInv /\ Held /\ StopWithin(n) /\ <<MainStep>>_vars => Settled' \/ StopWithin(n - 1)'
<1>1. ASSUME IInv, Held, StopWithin(n), MainStep
      PROVE  Settled' \/ StopWithin(n - 1)'
  BY <1>1, MainNearsStop DEF StopWithin, Dwelt, StopDistance
<1>2. ASSUME IInv, Held, StopWithin(n), [Next]_vars
      PROVE  Settled' \/ StopWithin(n)'
  <2>1. CASE MainStep
    BY <1>2, <2>1, <1>1 DEF StopWithin, StopDistance
  <2>2. CASE ~MainStep /\ ~Settled'
    <3>1. Dwelt' /\ pc' = pc /\ issued' = issued
      BY <1>2, <2>2, OthersLeaveStop DEF StopWithin, Dwelt
    <3>2. StopDistance' = StopDistance BY <3>1 DEF StopDistance
    <3>3. QED BY <1>2, <3>1, <3>2 DEF StopWithin
  <2>3. QED BY <2>1, <2>2
<1>3. QED BY <1>1, <1>2

(* A latched fault has not yet ended the stop.                             *)
Tripped == drive_state = "RAMP_TO_ZERO" /\ latched

(* The stop waits for its dwell, with the latch free.                      *)
Ramping == drive_state = "RAMP_TO_ZERO" /\ ~latched /\ pc \in LoopPcs

Out == Settled \/ Tripped \/ Dwelt

(* A stop has just been stored, waits for its dwell, has got it, or has a     *)
(* fault to end it.                                                        *)
LEMMA StopStages ==
  ASSUME DisciplinedClear, IInv, Held, drive_state = "RAMP_TO_ZERO"
  PROVE  pc = "rampDwell" \/ Ramping \/ Dwelt \/ Tripped
<1>1. pc \in StopPcs => dwell = StopDwell
  BY DEF IInv, StopIsCounted
<1>2. pc \in DisablePcs \cup {"clearSet"} => latched
  BY DEF Held, ClearIsGuarded
<1>3. QED
  BY <1>1, <1>2, StopPoints DEF Ramping, Dwelt, Tripped, StopPcs, DisablePcs, LoopPcs

(* The latch is written by the interrupt and, at its own point, by main.     *)
LEMMA LatchMoves ==
  ASSUME [Next]_vars
  PROVE  latched' = latched \/ FastLoop \/ Latch \/ IsrStop
<1>1. CASE MainStep
  BY <1>1
  DEF MainStep, Update, CalTimeout, CalAbort, CalCheck, CalReady,
      DisableMode, DisableState, SkipDisable, LockOutputs, DisableOutputs,
      DisableFlag, SkipParameters, OpenWindow, StopSampling, ApplyParameters,
      RestartSampling, StartCommand, SetCommand, StopCommand, ClearCommand,
      RecoverCommand, EndTurn, ClearSet, RecoverSet, StartZero, StartSpeedZero,
      StartChecks, StartMode, StartTarget, Enable, StartOutputs, EnableFlag,
      Recheck, PublishCommand, SetRunning, RampState, RampDwell, StopMode, StopZero,
      SkipStop, StopHal, StopFlag, StopReady, Jump, StoreState, StopOutputs, faultVars
<1>2. CASE Tick
  BY <1>2 DEF Tick, TickCalibration, TickControl, TickPublish, TickSkip, TickDwell, TickFrame,
      faultVars
<1>3. CASE RotorSlows \/ RotorAccelerates
  BY <1>3 DEF RotorSlows, RotorAccelerates, RotorStep, faultVars
<1>4. CASE UNCHANGED vars BY <1>4 DEF vars, faultVars
<1>5. QED BY <1>1, <1>2, <1>3, <1>4 DEF Next

(* The interrupt ends a stop with a latched fault, and nobody else does more. *)
LEMMA TrippedEnds ==
  ASSUME DisciplinedClear, IInv, Held, Tripped, [Next]_vars
  PROVE  /\ Settled' \/ Tripped'
         /\ FastLoop => Settled'
<1>0. calibration = "COMPLETE"
  BY DEF Tripped, IInv, CalibrationIsFirst
<1>1. FastLoop => Settled'
  BY <1>0
  DEF Tripped, Settled, FastLoop, OffsetSample, OffsetComplete, Measure, MeasureTrip, Reject,
      Control, StopControl, IsrStop, IsrDisable, FaultCheck, IInv, TypeOK, Modes, FocModes
<1>2. latched' \/ Settled'
  <2>1. latched' = latched \/ FastLoop \/ Latch \/ IsrStop
    BY LatchMoves
  <2>2. QED BY <1>1, <2>1 DEF Tripped, Latch, IsrStop
<1>3. drive_state' = "RAMP_TO_ZERO" \/ Settled'
  BY MainNearsStop, OthersLeaveStop DEF Tripped
<1>4. QED BY <1>1, <1>2, <1>3 DEF Tripped

(* Main stores the dwell of a stop once and does not come back to it.        *)
LEMMA RampDwellEnds ==
  ASSUME DisciplinedClear, IInv, Held, drive_state = "RAMP_TO_ZERO", [Next]_vars
  PROVE  /\ pc = "rampDwell" => Settled' \/ pc' = "rampDwell" \/ pc' = "command"
         /\ pc = "rampDwell" /\ MainStep => pc' = "command"
         /\ pc # "rampDwell" => pc' # "rampDwell"
<1>1. pc # "rampState"
  BY StopPoints
<1>2. ASSUME MainStep PROVE pc' = "rampDwell" => pc = "rampState"
  BY <1>2
  DEF MainStep, Goto, Return, Stopped, Issue, Update, CalTimeout, CalAbort, CalCheck, CalReady, Latch,
      DisableMode, DisableState, SkipDisable, LockOutputs, DisableOutputs,
      DisableFlag, SkipParameters, OpenWindow, StopSampling, ApplyParameters,
      RestartSampling, StartCommand, SetCommand, StopCommand, ClearCommand,
      RecoverCommand, EndTurn, ClearSet, RecoverSet, StartZero, StartSpeedZero,
      StartChecks, StartMode, StartTarget, Enable, StartOutputs, EnableFlag,
      Recheck, PublishCommand, SetRunning, RampState, RampDwell, StopMode, StopZero,
      SkipStop, StopHal, StopFlag, StopReady, Jump, StoreState, StopOutputs, At
<1>3. ASSUME MainStep, pc = "rampDwell" PROVE pc' = "command"
  BY <1>3
  DEF MainStep, Goto, Return, Stopped, Issue, Update, CalTimeout, CalAbort, CalCheck, CalReady, Latch,
      DisableMode, DisableState, SkipDisable, LockOutputs, DisableOutputs,
      DisableFlag, SkipParameters, OpenWindow, StopSampling, ApplyParameters,
      RestartSampling, StartCommand, SetCommand, StopCommand, ClearCommand,
      RecoverCommand, EndTurn, ClearSet, RecoverSet, StartZero, StartSpeedZero,
      StartChecks, StartMode, StartTarget, Enable, StartOutputs, EnableFlag,
      Recheck, PublishCommand, SetRunning, RampState, RampDwell, StopMode, StopZero,
      SkipStop, StopHal, StopFlag, StopReady, Jump, StoreState, StopOutputs, At
<1>4. QED BY <1>1, <1>2, <1>3, OthersLeaveMain

(* Main passes through its turn while a stop waits for its dwell.           *)
LEMMA MainKeepsRamping ==
  ASSUME DisciplinedClear, IInv, Held, Ramping, MainStep
  PROVE  /\ UNCHANGED <<drive_state, mode, latched, speed_command, ramp, dwell>>
         /\ pc' \in LoopPcs \/ Dwelt'
<1> USE DEF Ramping, LoopPcs, At, Goto
<1>1. CASE Update
  <2>1. pc' = "parameters" \/ (pc' = "stopMode" /\ dwell >= StopDwell)
    BY <1>1 DEF Update
  <2>2. UNCHANGED <<drive_state, mode, latched, speed_command, ramp, dwell>>
    BY <1>1 DEF Update, appVars, faultVars, cmdVars, speedVars
  <2>3. QED BY <2>1, <2>2, BoundsAssumption DEF Dwelt, IInv, TypeOK
<1>2. CASE SkipParameters BY <1>2 DEF SkipParameters, Jump, appVars, faultVars, cmdVars, speedVars
<1>3. CASE EndTurn BY <1>3 DEF EndTurn, Jump, appVars, faultVars, cmdVars, speedVars
<1>4. CASE OpenWindow BY <1>4 DEF OpenWindow
<1>5. CASE StartCommand \/ SetCommand \/ StopCommand \/ ClearCommand \/ RecoverCommand
  BY <1>5 DEF StartCommand, SetCommand, StopCommand, ClearCommand, RecoverCommand, Held,
      ClearIsGuarded
<1>6. CASE CalTimeout \/ CalAbort \/ CalCheck \/ CalReady \/ Latch
  BY <1>6 DEF CalTimeout, CalAbort, CalCheck, CalReady, Latch, Jump, StoreState
<1>7. CASE DisableMode \/ DisableState \/ SkipDisable \/ DisableOutputs \/ DisableFlag
  BY <1>7 DEF DisableMode, DisableState, SkipDisable, DisableOutputs, DisableFlag, StopOutputs
<1>8. CASE LockOutputs BY <1>8, Zenon DEF LockOutputs, Jump
<1>9. CASE StopSampling \/ ApplyParameters \/ RestartSampling \/ ClearSet \/ RecoverSet
  BY <1>9 DEF StopSampling, ApplyParameters, RestartSampling, ClearSet, RecoverSet, StoreState
<1>10. CASE StartZero \/ StartSpeedZero \/ StartChecks \/ StartMode \/ StartTarget \/ Enable
  BY <1>10 DEF StartZero, StartSpeedZero, StartChecks, StartMode, StartTarget, Enable, Jump
<1>11. CASE StartOutputs \/ EnableFlag \/ Recheck
  BY <1>11 DEF StartOutputs, EnableFlag, Recheck, Jump
<1>12. CASE PublishCommand \/ SetRunning \/ RampState \/ RampDwell
  BY <1>12 DEF PublishCommand, SetRunning, RampState, RampDwell, StoreState
<1>13. CASE StopMode \/ StopZero \/ SkipStop \/ StopHal \/ StopFlag \/ StopReady
  BY <1>13 DEF StopMode, StopZero, SkipStop, StopHal, StopFlag, StopReady, StopOutputs, StoreState, Jump
<1>14. QED
  BY <1>1, <1>2, <1>3, <1>4, <1>5, <1>6, <1>7, <1>8, <1>9, <1>10, <1>11, <1>12, <1>13 DEF MainStep

(* What the wait for the dwell is made of: the limiter runs down to zero, the *)
(* tick sees it there, the rotor runs down, the interrupt sees it stopped,   *)
(* the dwell is counted.  No step of anybody takes one of them back.        *)
Waits(n) ==
  /\ Ramping
  /\ n >= 1 => ramp = 0
  /\ n >= 2 => ramp_seen = 0
  /\ n >= 3 => rotor # "fast"
  /\ n >= 4 => rotor = "stopped"
  /\ n >= 5 => feedback = "stopped"

DwellLeft == StopDwell - dwell

(* Each stage lasts until the stop is over, and counts down.               *)
LEMMA WaitKept ==
  ASSUME DisciplinedClear, IInv, Held, IInv', NEW n \in 0..5, Waits(n), [Next]_vars
  PROVE  \/ Out'
         \/ /\ Waits(n)'
            /\ ramp' <= ramp
            /\ n >= 2 => DwellLeft' <= DwellLeft
<1> DEFINE Kept == /\ Waits(n)' /\ ramp' <= ramp
                   /\ n >= 2 => DwellLeft' <= DwellLeft
<1> SUFFICES Out' \/ Kept OBVIOUS
<1>0. /\ mode = "SPEED" /\ speed_command = 0 /\ Ramping
      /\ ramp \in Nat /\ dwell \in 0..StopDwell /\ StopDwell \in Nat /\ ramp_seen \in Nat
      /\ ramp' \in Nat /\ dwell' \in 0..StopDwell /\ tick \in {"idle", "publish", "dwell"}
  BY BoundsAssumption
  DEF Waits, Ramping, Held, ControlIsHeld, IInv, TypeOK, StopIsCounted, LoopPcs
<1>1. CASE MainStep
  <2>1. UNCHANGED <<ramp_seen, rotor, feedback>>
    BY <1>1, MainWaitsForTick DEF tickVars, plantVars
  <2>2. UNCHANGED <<drive_state, mode, latched, speed_command, ramp, dwell>>
        /\ (pc' \in LoopPcs \/ Dwelt')
    BY <1>0, <1>1, MainKeepsRamping
  <2>3. QED BY <1>0, <2>1, <2>2 DEF Waits, Ramping, Out, DwellLeft
<1>2. CASE Tick
  <2>1. UNCHANGED <<drive_state, latched, pc, rotor, feedback>>
    BY <1>2
    DEF Tick, TickCalibration, TickControl, TickPublish, TickSkip, TickDwell, TickFrame,
        mainVars, appVars, faultVars, plantVars
  <2>2. ramp' <= ramp /\ (ramp = 0 => ramp' = 0)
    BY <1>0, <1>2
    DEF Ramping, Tick, TickCalibration, TickControl, TickPublish, TickSkip, TickDwell, speedVars,
        TickFrame, Towards
  <2>3. ramp = 0 /\ ramp_seen = 0 => ramp_seen' = 0
    BY <1>0, <1>2
    DEF Ramping, Tick, TickCalibration, TickControl, TickPublish, TickSkip, TickDwell, TickFrame,
        Towards
  <2>4. ramp_seen = 0 => DwellLeft' <= DwellLeft
    BY <1>0, <1>2
    DEF Ramping, Tick, TickCalibration, TickControl, TickPublish, TickSkip, TickDwell, TickFrame,
        speedVars, DwellLeft
  <2>5. QED BY <1>0, <2>1, <2>2, <2>3, <2>4 DEF Waits, Ramping
<1>3. CASE FastLoop
  <2>1. Control
    BY <1>0, <1>3
    DEF Ramping, FastLoop, OffsetSample, OffsetComplete, Measure, MeasureTrip, Reject, StopControl
  <2>2. UNCHANGED <<drive_state, latched, pc, ramp, ramp_seen, dwell, rotor>>
        /\ (rotor = "stopped" => feedback' = "stopped")
    BY <1>0, <2>1 DEF Control, IsrFrame, mainVars, appVars, faultVars, tickVars
  <2>3. QED BY <1>0, <2>2 DEF Waits, Ramping, DwellLeft
<1>4. CASE IsrStop BY <1>4 DEF IsrStop, IsrDisable, Out, Settled
<1>5. CASE RotorSlows \/ RotorAccelerates
  <2>1. UNCHANGED <<drive_state, latched, pc, ramp, ramp_seen, dwell, feedback>>
    BY <1>5 DEF RotorSlows, RotorAccelerates, RotorStep, mainVars, appVars, faultVars, speedVars,
        tickVars
  <2>2. ramp = 0 => RotorSlows
    BY <1>0, <1>5 DEF RotorAccelerates
  <2>3. ramp = 0 /\ rotor # "fast" => rotor' # "fast"
    BY <2>2 DEF RotorSlows
  <2>4. ramp = 0 => rotor # "stopped"
    BY <2>2 DEF RotorSlows
  <2>5. QED BY <1>0, <2>1, <2>3, <2>4 DEF Waits, Ramping, DwellLeft
<1>6. CASE UNCHANGED vars
  BY <1>0, <1>6
  DEF vars, mainVars, appVars, faultVars, speedVars, tickVars, plantVars, Waits, Ramping, DwellLeft
<1>7. QED BY <1>1, <1>2, <1>3, <1>4, <1>5, <1>6 DEF Next

(* ... and each is reached by a step of the one it waits for.               *)
LEMMA WaitEnds ==
  ASSUME DisciplinedClear, IInv, Held, IInv', [Next]_vars
  PROVE  /\ Waits(0) /\ tick = "idle" /\ Tick => Out' \/ ramp = 0 \/ ramp' < ramp
         /\ Waits(1) /\ tick = "idle" /\ Tick => Out' \/ Waits(2)'
         /\ Waits(2) /\ RotorSlows => Out' \/ Waits(3)'
         /\ Waits(3) /\ RotorSlows => Out' \/ Waits(4)'
         /\ Waits(4) /\ FastLoop => Out' \/ Waits(5)'
         /\ Waits(5) /\ tick = "dwell" /\ Tick => Out' \/ Dwelt \/ DwellLeft' < DwellLeft
<1>0. \A n \in 0..5 : Waits(n) => mode = "SPEED" /\ speed_command = 0 /\ Ramping
  BY DEF Waits, Ramping, Held, ControlIsHeld, IInv, StopIsCounted, LoopPcs
<1>a. /\ ramp \in Nat /\ dwell \in 0..StopDwell /\ StopDwell \in Nat
       /\ ramp' \in Nat /\ dwell' \in 0..StopDwell
  BY BoundsAssumption DEF IInv, TypeOK
<1>1. ASSUME Ramping, mode = "SPEED", tick = "idle", Tick
      PROVE  /\ ramp' = Towards(ramp, speed_command) /\ ramp_seen' = ramp'
  BY <1>1 DEF Ramping, Tick, TickCalibration, TickControl, TickPublish, TickSkip, TickDwell
<1>2. ASSUME Waits(0), tick = "idle", Tick PROVE Out' \/ ramp = 0 \/ ramp' < ramp
  BY <1>0, <1>a, <1>1, <1>2 DEF Towards
<1>3. ASSUME Waits(1), tick = "idle", Tick PROVE Out' \/ Waits(2)'
  <2>1. Out' \/ Waits(1)' BY <1>3, WaitKept
  <2>2. ramp_seen' = 0 BY <1>0, <1>a, <1>1, <1>3 DEF Towards, Waits
  <2>3. QED BY <2>1, <2>2 DEF Waits
<1>4. ASSUME Waits(2), RotorSlows PROVE Out' \/ Waits(3)'
  <2>1. Out' \/ Waits(2)' BY <1>4, WaitKept
  <2>2. rotor' # "fast" BY <1>4 DEF RotorSlows
  <2>3. QED BY <2>1, <2>2 DEF Waits
<1>5. ASSUME Waits(3), RotorSlows PROVE Out' \/ Waits(4)'
  <2>1. Out' \/ Waits(3)' BY <1>5, WaitKept
  <2>2. rotor' = "stopped" BY <1>5 DEF RotorSlows, Waits
  <2>3. QED BY <2>1, <2>2 DEF Waits
<1>6. ASSUME Waits(4), FastLoop PROVE Out' \/ Waits(5)'
  <2>1. Out' \/ Waits(4)' BY <1>6, WaitKept
  <2>2. mode = "SPEED" /\ ~latched /\ rotor = "stopped" BY <1>0, <1>6 DEF Waits, Ramping
  <2>3. feedback' = "stopped"
    BY <1>6, <2>2
    DEF FastLoop, OffsetSample, OffsetComplete, Measure, MeasureTrip, Reject, StopControl, Control
  <2>4. QED BY <2>1, <2>3 DEF Waits
<1>7. ASSUME Waits(5), tick = "dwell", Tick PROVE Out' \/ Dwelt \/ DwellLeft' < DwellLeft
  <2>1. TickDwell /\ ramp_seen = 0 /\ StopConfirmed /\ drive_state = "RAMP_TO_ZERO"
    BY <1>7
    DEF Waits, Ramping, Tick, TickCalibration, TickControl, TickPublish, TickSkip, StopConfirmed
  <2>2. dwell < StopDwell => dwell' = dwell + 1
    BY <2>1 DEF TickDwell
  <2>3. dwell = StopDwell => Dwelt
    BY <1>7 DEF Waits, Ramping, Dwelt, LoopPcs
  <2>4. dwell < StopDwell => DwellLeft' < DwellLeft
    BY <1>a, <2>2 DEF DwellLeft
  <2>5. QED BY <1>a, <2>3, <2>4
<1>8. QED BY <1>2, <1>3, <1>4, <1>5, <1>6, <1>7

(* A stop that has got its dwell ends: no branch of main leads round.        *)
LEMMA DweltSettles ==
  ASSUME DisciplinedClear
  PROVE  CoreSpec /\ []NobodyWaits => (Dwelt ~> Settled)
<1>1. IInv /\ Held /\ StopWithin(1) /\ [Next]_vars => Settled' \/ StopWithin(1)'
  BY StopSooner
<1>2. IInv /\ Held /\ StopWithin(1) /\ <<MainStep>>_vars => Settled' \/ StopWithin(0)'
  BY StopSooner
<1>3. IInv /\ Held /\ StopWithin(2) /\ [Next]_vars => Settled' \/ StopWithin(2)'
  BY StopSooner
<1>4. IInv /\ Held /\ StopWithin(2) /\ <<MainStep>>_vars => Settled' \/ StopWithin(1)'
  BY StopSooner
<1>5. IInv /\ Held /\ StopWithin(3) /\ [Next]_vars => Settled' \/ StopWithin(3)'
  BY StopSooner
<1>6. IInv /\ Held /\ StopWithin(3) /\ <<MainStep>>_vars => Settled' \/ StopWithin(2)'
  BY StopSooner
<1>7. IInv /\ Held /\ StopWithin(4) /\ [Next]_vars => Settled' \/ StopWithin(4)'
  BY StopSooner
<1>8. IInv /\ Held /\ StopWithin(4) /\ <<MainStep>>_vars => Settled' \/ StopWithin(3)'
  BY StopSooner
<1>9. IInv /\ Held /\ StopWithin(5) /\ [Next]_vars => Settled' \/ StopWithin(5)'
  BY StopSooner
<1>10. IInv /\ Held /\ StopWithin(5) /\ <<MainStep>>_vars => Settled' \/ StopWithin(4)'
  BY StopSooner
<1>11. IInv /\ Held /\ StopWithin(6) /\ [Next]_vars => Settled' \/ StopWithin(6)'
  BY StopSooner
<1>12. IInv /\ Held /\ StopWithin(6) /\ <<MainStep>>_vars => Settled' \/ StopWithin(5)'
  BY StopSooner
<1>13. IInv /\ Held /\ StopWithin(7) /\ [Next]_vars => Settled' \/ StopWithin(7)'
  BY StopSooner
<1>14. IInv /\ Held /\ StopWithin(7) /\ <<MainStep>>_vars => Settled' \/ StopWithin(6)'
  BY StopSooner
<1>15. IInv /\ Held /\ StopWithin(8) /\ [Next]_vars => Settled' \/ StopWithin(8)'
  BY StopSooner
<1>16. IInv /\ Held /\ StopWithin(8) /\ <<MainStep>>_vars => Settled' \/ StopWithin(7)'
  BY StopSooner
<1>17. IInv /\ Held /\ StopWithin(9) /\ [Next]_vars => Settled' \/ StopWithin(9)'
  BY StopSooner
<1>18. IInv /\ Held /\ StopWithin(9) /\ <<MainStep>>_vars => Settled' \/ StopWithin(8)'
  BY StopSooner
<1>19. IInv /\ Held /\ StopWithin(10) /\ [Next]_vars => Settled' \/ StopWithin(10)'
  BY StopSooner
<1>20. IInv /\ Held /\ StopWithin(10) /\ <<MainStep>>_vars => Settled' \/ StopWithin(9)'
  BY StopSooner
<1>21. IInv /\ Held /\ StopWithin(11) /\ [Next]_vars => Settled' \/ StopWithin(11)'
  BY StopSooner
<1>22. IInv /\ Held /\ StopWithin(11) /\ <<MainStep>>_vars => Settled' \/ StopWithin(10)'
  BY StopSooner
<1>23. ~StopWithin(0)
  BY DEF StopWithin, StopDistance
<1>24. Dwelt => StopWithin(11)
  BY DEF StopWithin, StopDistance
<1>25. QED
  BY <1>1, <1>2, <1>3, <1>4, <1>5, <1>6, <1>7, <1>8, <1>9, <1>10, <1>11, <1>12, <1>13,
     <1>14, <1>15, <1>16, <1>17, <1>18, <1>19, <1>20, <1>21, <1>22, <1>23, <1>24, MainTurns, Inductive, HeldInductive, PTL
  DEF CoreSpec, Spec

(* So does one with a fault latched, by the next interrupt.                 *)
LEMMA TrippedSettles ==
  ASSUME DisciplinedClear
  PROVE  CoreSpec /\ []NobodyWaits /\ WF_vars(FastLoop) => (Tripped ~> Settled)
<1>1. IInv /\ Held /\ Tripped /\ [Next]_vars => Settled' \/ Tripped'
  BY TrippedEnds
<1>2. IInv /\ Held /\ Tripped /\ <<FastLoop>>_vars => Settled'
  BY TrippedEnds DEF Next
<1>3. Tripped => drive_state = "RAMP_TO_ZERO" /\ latched
  BY DEF Tripped
<1>4. QED
  BY <1>1, <1>2, <1>3, Inductive, HeldInductive, PTL
  DEF CoreSpec, Spec, NobodyWaits, FastLoopGoesOn

(* A tick begins, and one begun gets to its dwell, while a stop goes on.     *)
LEMMA StopTicks ==
  CoreSpec /\ []NobodyWaits /\ <>[](drive_state = "RAMP_TO_ZERO")
    => []<><<tick = "idle" /\ Tick>>_vars /\ []<><<tick = "dwell" /\ Tick>>_vars
<1>1. tick = "idle" /\ [Next]_vars => (tick = "idle")' \/ <<tick = "idle" /\ Tick>>_vars
  BY TickKept DEF vars, tickVars
<1>2. tick = "dwell" /\ [Next]_vars => (tick = "dwell")' \/ <<tick = "dwell" /\ Tick>>_vars
  BY TickKept DEF vars, tickVars
<1>3. tick = "idle" /\ <<Tick>>_vars => <<tick = "idle" /\ Tick>>_vars
  OBVIOUS
<1>4. drive_state = "RAMP_TO_ZERO" /\ <<tick = "idle" /\ Tick>>_vars => ~(tick = "idle")'
  BY DEF Tick, TickCalibration, TickControl, TickPublish, TickSkip, TickDwell
<1>5. tick = "publish" /\ [Next]_vars => (tick = "publish")' \/ (tick = "dwell")'
  BY TickMoves
<1>6. IInv => tick = "idle" \/ tick = "publish" \/ tick = "dwell"
  BY DEF IInv, TypeOK
<1>7. tick = "idle" => ~(tick = "publish") /\ ~(tick = "dwell")
  OBVIOUS
<1>8. QED
  BY <1>1, <1>2, <1>3, <1>4, <1>5, <1>6, <1>7, TickEnds, Inductive, PTL
  DEF CoreSpec, CoreFairness, Spec, NobodyWaits, TickGoesOn, TickIsAwaited

(* The wait for the dwell ends, one part after the other.                   *)
LEMMA WaitSettles ==
  ASSUME DisciplinedClear
  PROVE  CoreSpec /\ []NobodyWaits /\ WF_vars(FastLoop) /\ WF_vars(RotorSlows)
         /\ NaturalsEnd(ramp, vars) /\ NaturalsEnd(DwellLeft, vars) => (Waits(0) ~> Out)
<1>1. IInv /\ Held /\ IInv' /\ Waits(0) /\ [Next]_vars
        => Out' \/ (Waits(0)' /\ [ramp' <= ramp]_vars)
  BY WaitKept
<1>2. IInv /\ Held /\ IInv' /\ Waits(1) /\ [Next]_vars => Out' \/ Waits(1)'
  BY WaitKept
<1>3. IInv /\ Held /\ IInv' /\ Waits(2) /\ [Next]_vars => Out' \/ Waits(2)'
  BY WaitKept
<1>4. IInv /\ Held /\ IInv' /\ Waits(3) /\ [Next]_vars => Out' \/ Waits(3)'
  BY WaitKept
<1>5. IInv /\ Held /\ IInv' /\ Waits(4) /\ [Next]_vars => Out' \/ Waits(4)'
  BY WaitKept
<1>6. IInv /\ Held /\ IInv' /\ Waits(5) /\ [Next]_vars
        => Out' \/ (Waits(5)' /\ [DwellLeft' <= DwellLeft]_vars)
  BY WaitKept
<1>7. IInv /\ Held /\ IInv' /\ Waits(0) /\ <<tick = "idle" /\ Tick>>_vars
        => Out' \/ Waits(1) \/ <<ramp' < ramp>>_vars
  BY WaitEnds DEF Next, Waits
<1>8. IInv /\ Held /\ IInv' /\ Waits(1) /\ <<tick = "idle" /\ Tick>>_vars => Out' \/ Waits(2)'
  BY WaitEnds DEF Next
<1>9. IInv /\ Held /\ IInv' /\ Waits(2) /\ <<RotorSlows>>_vars => Out' \/ Waits(3)'
  BY WaitEnds DEF Next
<1>10. IInv /\ Held /\ IInv' /\ Waits(3) /\ <<RotorSlows>>_vars => Out' \/ Waits(4)'
  BY WaitEnds DEF Next
<1>11. IInv /\ Held /\ IInv' /\ Waits(4) /\ <<FastLoop>>_vars => Out' \/ Waits(5)'
  BY WaitEnds DEF Next
<1>12. IInv /\ Held /\ IInv' /\ Waits(5) /\ <<tick = "dwell" /\ Tick>>_vars
         => Out' \/ Out \/ <<DwellLeft' < DwellLeft>>_vars
  BY WaitEnds DEF Next, Out
<1>13. Waits(0) \/ Waits(1) \/ Waits(5) => drive_state = "RAMP_TO_ZERO"
  BY DEF Waits, Ramping
<1>14. Waits(2) => Waits(3) \/ rotor # "stopped"
  BY DEF Waits
<1>15. Waits(3) => Waits(4) \/ rotor # "stopped"
  BY DEF Waits
<1>16. Waits(4) => Waits(5) \/ (rotor = "stopped" /\ feedback # "stopped")
  BY DEF Waits
<1>17. Waits(4) => drive_state = "RAMP_TO_ZERO"
  BY DEF Waits, Ramping
<1>18. IInv => ramp \in Nat
  BY DEF IInv, TypeOK
<1>19. IInv => DwellLeft \in Nat
  BY BoundsAssumption DEF IInv, TypeOK, DwellLeft
<1>20. CoreSpec /\ []NobodyWaits /\ WF_vars(FastLoop) /\ WF_vars(RotorSlows)
       /\ NaturalsEnd(DwellLeft, vars) => (Waits(5) ~> Out)
  BY <1>6, <1>12, <1>13, <1>19, StopTicks, Inductive, HeldInductive, PTL
  DEF CoreSpec, Spec, NaturalsEnd, FallsForEver
<1>21. CoreSpec /\ []NobodyWaits /\ WF_vars(FastLoop) /\ WF_vars(RotorSlows)
         => (Waits(2) ~> Out \/ Waits(5))
  BY <1>3, <1>4, <1>5, <1>9, <1>10, <1>11, <1>14, <1>15, <1>16, <1>17, Inductive,
     HeldInductive, PTL
  DEF CoreSpec, Spec, NobodyWaits, FastLoopGoesOn, RotorGoesOn
<1>22. CoreSpec /\ []NobodyWaits => (Waits(1) ~> Out \/ Waits(2))
  BY <1>2, <1>8, <1>13, StopTicks, Inductive, HeldInductive, PTL DEF CoreSpec, Spec
<1>23. CoreSpec /\ []NobodyWaits /\ NaturalsEnd(ramp, vars) => (Waits(0) ~> Out \/ Waits(1))
  BY <1>1, <1>7, <1>13, <1>18, StopTicks, Inductive, HeldInductive, PTL
  DEF CoreSpec, Spec, NaturalsEnd, FallsForEver
<1>24. QED
  BY <1>20, <1>21, <1>22, <1>23, PTL

(* A requested speed stop ends, in READY or in FAULTED: the limiter runs     *)
(* down, the tick, the rotor and the interrupt follow it, the dwell is       *)
(* counted, and app_drive_update() takes it through.                        *)
THEOREM StopIsBounded ==
  ASSUME DisciplinedClear
  PROVE  CoreSpec /\ []NobodyWaits /\ NaturalsEnd(ramp, vars) /\ NaturalsEnd(DwellLeft, vars)
           => StopEnds
<1>1. IInv /\ Held /\ drive_state = "RAMP_TO_ZERO" => pc = "rampDwell" \/ Ramping \/ Out
  BY StopStages DEF Out
<1>2. Ramping => Waits(0)
  BY DEF Waits
<1>3. Out => Settled \/ Tripped \/ Dwelt
  BY DEF Out
<1>4. IInv /\ Held /\ drive_state = "RAMP_TO_ZERO" /\ [Next]_vars
        => Settled' \/ (drive_state = "RAMP_TO_ZERO")'
  BY MainNearsStop, OthersLeaveStop
<1>5. IInv /\ Held /\ drive_state = "RAMP_TO_ZERO" /\ ~(pc = "rampDwell") /\ [Next]_vars
        => ~(pc = "rampDwell")'
  BY RampDwellEnds
<1>6. IInv /\ Held /\ drive_state = "RAMP_TO_ZERO" /\ pc = "rampDwell" /\ <<MainStep>>_vars
        => ~(pc = "rampDwell")'
  BY RampDwellEnds DEF Next
<1>7. Settled => drive_state \in {"READY", "FAULTED"}
  BY DEF Settled
<1>8. QED
  BY <1>1, <1>2, <1>3, <1>4, <1>5, <1>6, <1>7, WaitSettles, TrippedSettles, DweltSettles,
     MainTurns, Inductive, HeldInductive, PTL
  DEF CoreSpec, Spec, StopEnds

=============================================================================
