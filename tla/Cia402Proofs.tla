--------------------------- MODULE Cia402Proofs ----------------------------
(* Proofs about the CiA 402 service for every set of operation modes, with *)
(* and without a debug source beside it; without one, FAULT is left again.  *)
EXTENDS Cia402, TLAPS

(* Every step keeps the types.                                             *)
LEMMA TypeStep == TypeOK /\ [Next]_vars => TypeOK'
  <1> SUFFICES ASSUME TypeOK, [Next]_vars PROVE TypeOK'
    OBVIOUS
  <1> USE ModesAssumption DEF TypeOK, AppFrame, ServiceFrame, IsrFrame, CallFrame,
     UpdateFrame, Step, StoreReady, appVars, faultVars, networkVars, latchVars, reportVars,
     callVars
  <1>1. CASE UpdateFaulted
    BY <1>1, SMT DEF UpdateFaulted, AppStates, Running, DriveStates, Faults, Controlwords,
       ErrorCodes, UpdatePcs, Pcs
  <1>2. CASE UpdateNothing
    BY <1>2, SMT DEF UpdateNothing, AppStates, Running, DriveStates, Faults, Controlwords,
       ErrorCodes, UpdatePcs, Pcs
  <1>3. CASE UpdateCalibrated
    <2>1. calibrated' \in BOOLEAN
      BY <1>3 DEF UpdateCalibrated
    <2> QED
      BY <1>3, <2>1, SMT DEF UpdateCalibrated, AppStates, Running, DriveStates, Faults,
         Controlwords, ErrorCodes, UpdatePcs, Pcs
  <1>4. CASE UpdateDwelt
    <2>1. referenced' \in BOOLEAN
      BY <1>4 DEF UpdateDwelt
    <2> QED
      BY <1>4, <2>1, SMT DEF UpdateDwelt, AppStates, Running, DriveStates, Faults,
         Controlwords, ErrorCodes, UpdatePcs, Pcs
  <1>5. CASE RampStop
    BY <1>5, SMT DEF RampStop, AppStates, Running, DriveStates, Faults, Controlwords,
       ErrorCodes, UpdatePcs, Pcs
  <1>6. CASE DebugIdle
    BY <1>6, SMT DEF DebugIdle, AppStates, Running, DriveStates, Faults, Controlwords,
       ErrorCodes, UpdatePcs, Pcs
  <1>7. CASE DebugCommand
    <2>1. referenced' \in BOOLEAN
      BY <1>7 DEF DebugCommand
    <2> QED
      BY <1>7, <2>1, SMT DEF DebugCommand, AppStates, Running, DriveStates, Faults,
         Controlwords, ErrorCodes, UpdatePcs, Pcs
  <1>8. CASE ResetRequested
    BY <1>8, SMT DEF ResetRequested, AppStates, Running, DriveStates, Faults, Controlwords,
       ErrorCodes, UpdatePcs, Pcs
  <1>9. CASE ReceiveAny
    <2>1. edge' \in BOOLEAN
      BY <1>9 DEF ReceiveAny, Receive, ResetEdge, InterruptIsFaster, Speeds
    <2>2. overspeed' \in BOOLEAN
      BY <1>9 DEF ReceiveAny, Receive, ResetEdge, InterruptIsFaster, Speeds
    <2>3. rpdo' \in BOOLEAN
      BY <1>9 DEF ReceiveAny, Receive, ResetEdge, InterruptIsFaster, Speeds
    <2>4. unacknowledged' \in BOOLEAN
      BY <1>9 DEF ReceiveAny, Receive, ResetEdge, InterruptIsFaster, Speeds
    <2> QED
      BY <1>9, <2>1, <2>2, <2>3, <2>4, SMT DEF ReceiveAny, Receive, ResetEdge,
         InterruptIsFaster, Speeds, AppStates, Running, DriveStates, Faults, Controlwords,
         ErrorCodes, UpdatePcs, Pcs
  <1>10. CASE LookFaulted
    <2>1. previous' \in BOOLEAN
      BY <1>10 DEF LookFaulted, LookAt, IsFaulted
    <2>2. app_faulted' \in BOOLEAN
      BY <1>10 DEF LookFaulted, LookAt, IsFaulted
    <2>3. unacknowledged' \in BOOLEAN
      BY <1>10 DEF LookFaulted, LookAt, IsFaulted
    <2> QED
      BY <1>10, <2>1, <2>2, <2>3, SMT DEF LookFaulted, LookAt, IsFaulted, AppStates,
         Running, DriveStates, Faults, Controlwords, ErrorCodes, UpdatePcs, Pcs
  <1>11. CASE LookExit
    <2>1. previous' \in BOOLEAN
      BY <1>11 DEF LookExit, LookAt, IsFaulted
    <2>2. app_faulted' \in BOOLEAN
      BY <1>11 DEF LookExit, LookAt, IsFaulted
    <2>3. unacknowledged' \in BOOLEAN
      BY <1>11 DEF LookExit, LookAt, IsFaulted
    <2> QED
      BY <1>11, <2>1, <2>2, <2>3, SMT DEF LookExit, LookAt, IsFaulted, AppStates, Running,
         DriveStates, Faults, Controlwords, ErrorCodes, UpdatePcs, Pcs
  <1>12. CASE LookOffline
    <2>1. previous' \in BOOLEAN
      BY <1>12 DEF LookOffline, LookAt, IsFaulted
    <2>2. app_faulted' \in BOOLEAN
      BY <1>12 DEF LookOffline, LookAt, IsFaulted
    <2>3. unacknowledged' \in BOOLEAN
      BY <1>12 DEF LookOffline, LookAt, IsFaulted
    <2> QED
      BY <1>12, <2>1, <2>2, <2>3, SMT DEF LookOffline, LookAt, IsFaulted, AppStates,
         Running, DriveStates, Faults, Controlwords, ErrorCodes, UpdatePcs, Pcs
  <1>13. CASE LookHealthy
    <2>1. previous' \in BOOLEAN
      BY <1>13 DEF LookHealthy, LookAt, IsFaulted
    <2>2. app_faulted' \in BOOLEAN
      BY <1>13 DEF LookHealthy, LookAt, IsFaulted
    <2>3. unacknowledged' \in BOOLEAN
      BY <1>13 DEF LookHealthy, LookAt, IsFaulted
    <2> QED
      BY <1>13, <2>1, <2>2, <2>3, SMT DEF LookHealthy, LookAt, IsFaulted, AppStates,
         Running, DriveStates, Faults, Controlwords, ErrorCodes, UpdatePcs, Pcs
  <1>14. CASE StopDrive
    <2>1. referenced' \in BOOLEAN
      BY <1>14 DEF StopDrive
    <2> QED
      BY <1>14, <2>1, SMT DEF StopDrive, AppStates, Running, DriveStates, Faults,
         Controlwords, ErrorCodes, UpdatePcs, Pcs
  <1>15. CASE StopCurrent
    BY <1>15, SMT DEF StopCurrent, AppStates, Running, DriveStates, Faults, Controlwords,
       ErrorCodes, UpdatePcs, Pcs
  <1>16. CASE StopSpeed
    BY <1>16, SMT DEF StopSpeed, AppStates, Running, DriveStates, Faults, Controlwords,
       ErrorCodes, UpdatePcs, Pcs
  <1>17. CASE Stopped
    BY <1>17, SMT DEF Stopped, AppStates, Running, DriveStates, Faults, Controlwords,
       ErrorCodes, UpdatePcs, Pcs
  <1>18. CASE ClearLook
    BY <1>18, SMT DEF ClearLook, AppStates, Running, DriveStates, Faults, Controlwords,
       ErrorCodes, UpdatePcs, Pcs
  <1>19. CASE ClearSet
    <2>1. clear_requested' \in BOOLEAN
      BY <1>19 DEF ClearSet
    <2>2. pending' \in BOOLEAN
      BY <1>19 DEF ClearSet
    <2> QED
      BY <1>19, <2>1, <2>2, SMT DEF ClearSet, AppStates, Running, DriveStates, Faults,
         Controlwords, ErrorCodes, UpdatePcs, Pcs
  <1>20. CASE ExitFault
    <2>1. pending' \in BOOLEAN
      BY <1>20 DEF ExitFault
    <2> QED
      BY <1>20, <2>1, SMT DEF ExitFault, AppStates, Running, DriveStates, Faults,
         Controlwords, ErrorCodes, UpdatePcs, Pcs
  <1>21. CASE RecoverLook
    BY <1>21, SMT DEF RecoverLook, AppStates, Running, DriveStates, Faults, Controlwords,
       ErrorCodes, UpdatePcs, Pcs
  <1>22. CASE RecoverSet
    <2>1. pending' \in BOOLEAN
      BY <1>22 DEF RecoverSet
    <2> QED
      BY <1>22, <2>1, SMT DEF RecoverSet, AppStates, Running, DriveStates, Faults,
         Controlwords, ErrorCodes, UpdatePcs, Pcs
  <1>23. CASE LeaveEnabled
    BY <1>23, SMT DEF LeaveEnabled, Asked, Moves, Enabled, AppStates, Running, DriveStates,
       Faults, Controlwords, ErrorCodes, UpdatePcs, Pcs
  <1>24. CASE EnterEnabled
    BY <1>24, SMT DEF EnterEnabled, Asked, Moves, Enabled, AppStates, Running, DriveStates,
       Faults, Controlwords, ErrorCodes, UpdatePcs, Pcs
  <1>25. CASE Move
    BY <1>25, SMT DEF Move, Asked, Moves, Enabled, AppStates, Running, DriveStates, Faults,
       Controlwords, ErrorCodes, UpdatePcs, Pcs
  <1>26. CASE Start
    <2>1. referenced' \in BOOLEAN
      BY <1>26 DEF Start
    <2> QED
      BY <1>26, <2>1, SMT DEF Start, AppStates, Running, DriveStates, Faults, Controlwords,
         ErrorCodes, UpdatePcs, Pcs
  <1>27. CASE StartRun
    BY <1>27, SMT DEF StartRun, RunningState, AppStates, Running, DriveStates, Faults,
       Controlwords, ErrorCodes, UpdatePcs, Pcs
  <1>28. CASE Command
    <2>1. referenced' \in BOOLEAN
      BY <1>28 DEF Command, References
    <2> QED
      BY <1>28, <2>1, SMT DEF Command, References, AppStates, Running, DriveStates, Faults,
         Controlwords, ErrorCodes, UpdatePcs, Pcs
  <1>29. CASE Report
    <2>1. reported' \in BOOLEAN
      BY <1>29 DEF Report
    <2>2. ErrorCode \in ErrorCodes
      BY SMT DEF ErrorCode, ErrorCodes
    <2> QED
      BY <1>29, <2>1, <2>2, SMT DEF Report, AppStates, Running, DriveStates, Faults,
         Controlwords, ErrorCodes, UpdatePcs, Pcs
  <1>30. CASE IsrFault
    <2>1. unacknowledged' \in BOOLEAN
      BY <1>30 DEF IsrFault
    <2> QED
      BY <1>30, <2>1, SMT DEF IsrFault, AppStates, Running, DriveStates, Faults,
         Controlwords, ErrorCodes, UpdatePcs, Pcs
  <1>31. CASE IsrServe
    <2>1. clear_requested' \in BOOLEAN
      BY <1>31 DEF IsrServe
    <2> QED
      BY <1>31, <2>1, SMT DEF IsrServe, AppStates, Running, DriveStates, Faults,
         Controlwords, ErrorCodes, UpdatePcs, Pcs
  <1>32. CASE UNCHANGED vars
    BY <1>32, SMT DEF vars
  <1> QED
    BY <1>1, <1>2, <1>3, <1>4, <1>5, <1>6, <1>7, <1>8, <1>9, <1>10, <1>11, <1>12, <1>13,
       <1>14, <1>15, <1>16, <1>17, <1>18, <1>19, <1>20, <1>21, <1>22, <1>23, <1>24, <1>25,
       <1>26, <1>27, <1>28, <1>29, <1>30, <1>31, <1>32 DEF Next, MainStep, Process

(* Every step keeps the parts of the invariant.                            *)
LEMMA PartsStep ==
  IInv /\ TypeOK' /\ [Next]_vars =>
    ClearIsOwed' /\ ExitIsClean' /\ UnnoticedIsLatched' /\ RunningIsOwned'
  <1> SUFFICES ASSUME IInv, TypeOK', [Next]_vars
               PROVE  ClearIsOwed' /\ ExitIsClean' /\ UnnoticedIsLatched' /\ RunningIsOwned'
    OBVIOUS
  <1> USE DEF IInv, AppFrame, ServiceFrame, IsrFrame, CallFrame, UpdateFrame, Step,
     StoreReady, appVars, faultVars, networkVars, latchVars, reportVars, callVars
  <1>1. CASE UpdateFaulted
    <2>1. ClearIsOwed'
      BY <1>1, SMT DEF UpdateFaulted, ClearIsOwed, TypeOK, RestPcs, StopPcs, AppStates,
         Running, DriveStates, Faults, Controlwords, ErrorCodes, UpdatePcs, Pcs
    <2>2. ExitIsClean'
      BY <1>1, SMT DEF UpdateFaulted, ExitIsClean, TypeOK, RunningIsOwned, OwnsDrive,
         StopPcs, AppStates, Running, DriveStates, Faults, Controlwords, ErrorCodes,
         UpdatePcs, Pcs
    <2>3. UnnoticedIsLatched'
      BY <1>1, SMT DEF UpdateFaulted, UnnoticedIsLatched, TypeOK, ClearIsOwed, RestPcs,
         StopPcs, AppStates, Running, DriveStates, Faults, Controlwords, ErrorCodes,
         UpdatePcs, Pcs
    <2>4. RunningIsOwned'
      BY <1>1, SMT DEF UpdateFaulted, OwnsDrive, RunningState, RunningIsOwned, TypeOK,
         RestPcs, StopPcs, ClearIsOwed, Enabled, AppStates, Running, DriveStates, Faults,
         Controlwords, ErrorCodes, UpdatePcs, Pcs
    <2> QED
      BY <2>1, <2>2, <2>3, <2>4
  <1>2. CASE UpdateNothing
    <2>1. ClearIsOwed'
      BY <1>2, SMT DEF UpdateNothing, ClearIsOwed, TypeOK, RestPcs, StopPcs, AppStates,
         Running, DriveStates, Faults, Controlwords, ErrorCodes, UpdatePcs, Pcs
    <2>2. ExitIsClean'
      BY <1>2, SMT DEF UpdateNothing, ExitIsClean, TypeOK, RunningIsOwned, OwnsDrive,
         StopPcs, AppStates, Running, DriveStates, Faults, Controlwords, ErrorCodes,
         UpdatePcs, Pcs
    <2>3. UnnoticedIsLatched'
      BY <1>2, SMT DEF UpdateNothing, UnnoticedIsLatched, TypeOK, ClearIsOwed, RestPcs,
         StopPcs, AppStates, Running, DriveStates, Faults, Controlwords, ErrorCodes,
         UpdatePcs, Pcs
    <2>4. RunningIsOwned'
      BY <1>2, SMT DEF UpdateNothing, OwnsDrive, RunningState, RunningIsOwned, TypeOK,
         RestPcs, StopPcs, ClearIsOwed, Enabled, AppStates, Running, DriveStates, Faults,
         Controlwords, ErrorCodes, UpdatePcs, Pcs
    <2> QED
      BY <2>1, <2>2, <2>3, <2>4
  <1>3. CASE UpdateCalibrated
    <2>1. ClearIsOwed'
      BY <1>3, SMT DEF UpdateCalibrated, ClearIsOwed, TypeOK, RestPcs, StopPcs, AppStates,
         Running, DriveStates, Faults, Controlwords, ErrorCodes, UpdatePcs, Pcs
    <2>2. ExitIsClean'
      BY <1>3, SMT DEF UpdateCalibrated, ExitIsClean, TypeOK, RunningIsOwned, OwnsDrive,
         StopPcs, AppStates, Running, DriveStates, Faults, Controlwords, ErrorCodes,
         UpdatePcs, Pcs
    <2>3. UnnoticedIsLatched'
      BY <1>3, SMT DEF UpdateCalibrated, UnnoticedIsLatched, TypeOK, ClearIsOwed, RestPcs,
         StopPcs, AppStates, Running, DriveStates, Faults, Controlwords, ErrorCodes,
         UpdatePcs, Pcs
    <2>4. RunningIsOwned'
      BY <1>3, SMT DEF UpdateCalibrated, OwnsDrive, RunningState, RunningIsOwned, TypeOK,
         RestPcs, StopPcs, ClearIsOwed, Enabled, AppStates, Running, DriveStates, Faults,
         Controlwords, ErrorCodes, UpdatePcs, Pcs
    <2> QED
      BY <2>1, <2>2, <2>3, <2>4
  <1>4. CASE UpdateDwelt
    <2>1. ClearIsOwed'
      BY <1>4, SMT DEF UpdateDwelt, ClearIsOwed, TypeOK, RestPcs, StopPcs, AppStates,
         Running, DriveStates, Faults, Controlwords, ErrorCodes, UpdatePcs, Pcs
    <2>2. ExitIsClean'
      BY <1>4, SMT DEF UpdateDwelt, ExitIsClean, TypeOK, RunningIsOwned, OwnsDrive, StopPcs,
         AppStates, Running, DriveStates, Faults, Controlwords, ErrorCodes, UpdatePcs, Pcs
    <2>3. UnnoticedIsLatched'
      BY <1>4, SMT DEF UpdateDwelt, UnnoticedIsLatched, TypeOK, ClearIsOwed, RestPcs,
         StopPcs, AppStates, Running, DriveStates, Faults, Controlwords, ErrorCodes,
         UpdatePcs, Pcs
    <2>4. RunningIsOwned'
      BY <1>4, SMT DEF UpdateDwelt, OwnsDrive, RunningState, RunningIsOwned, TypeOK,
         RestPcs, StopPcs, ClearIsOwed, Enabled, AppStates, Running, DriveStates, Faults,
         Controlwords, ErrorCodes, UpdatePcs, Pcs
    <2> QED
      BY <2>1, <2>2, <2>3, <2>4
  <1>5. CASE RampStop
    <2>1. ClearIsOwed'
      BY <1>5, SMT DEF RampStop, ClearIsOwed, TypeOK, RestPcs, StopPcs, AppStates, Running,
         DriveStates, Faults, Controlwords, ErrorCodes, UpdatePcs, Pcs
    <2>2. ExitIsClean'
      BY <1>5, SMT DEF RampStop, ExitIsClean, TypeOK, RunningIsOwned, OwnsDrive, StopPcs,
         AppStates, Running, DriveStates, Faults, Controlwords, ErrorCodes, UpdatePcs, Pcs
    <2>3. UnnoticedIsLatched'
      BY <1>5, SMT DEF RampStop, UnnoticedIsLatched, TypeOK, ClearIsOwed, RestPcs, StopPcs,
         AppStates, Running, DriveStates, Faults, Controlwords, ErrorCodes, UpdatePcs, Pcs
    <2>4. RunningIsOwned'
      BY <1>5, SMT DEF RampStop, OwnsDrive, RunningState, RunningIsOwned, TypeOK, RestPcs,
         StopPcs, ClearIsOwed, Enabled, AppStates, Running, DriveStates, Faults,
         Controlwords, ErrorCodes, UpdatePcs, Pcs
    <2> QED
      BY <2>1, <2>2, <2>3, <2>4
  <1>6. CASE DebugIdle
    <2>1. ClearIsOwed'
      BY <1>6, SMT DEF DebugIdle, ClearIsOwed, TypeOK, RestPcs, StopPcs, AppStates, Running,
         DriveStates, Faults, Controlwords, ErrorCodes, UpdatePcs, Pcs
    <2>2. ExitIsClean'
      BY <1>6, SMT DEF DebugIdle, ExitIsClean, TypeOK, RunningIsOwned, OwnsDrive, StopPcs,
         AppStates, Running, DriveStates, Faults, Controlwords, ErrorCodes, UpdatePcs, Pcs
    <2>3. UnnoticedIsLatched'
      BY <1>6, SMT DEF DebugIdle, UnnoticedIsLatched, TypeOK, ClearIsOwed, RestPcs, StopPcs,
         AppStates, Running, DriveStates, Faults, Controlwords, ErrorCodes, UpdatePcs, Pcs
    <2>4. RunningIsOwned'
      BY <1>6, SMT DEF DebugIdle, OwnsDrive, RunningState, RunningIsOwned, TypeOK, RestPcs,
         StopPcs, ClearIsOwed, Enabled, AppStates, Running, DriveStates, Faults,
         Controlwords, ErrorCodes, UpdatePcs, Pcs
    <2> QED
      BY <2>1, <2>2, <2>3, <2>4
  <1>7. CASE DebugCommand
    <2>1. ClearIsOwed'
      BY <1>7, SMT DEF DebugCommand, ClearIsOwed, TypeOK, RestPcs, StopPcs, AppStates,
         Running, DriveStates, Faults, Controlwords, ErrorCodes, UpdatePcs, Pcs
    <2>2. ExitIsClean'
      BY <1>7, SMT DEF DebugCommand, ExitIsClean, TypeOK, RunningIsOwned, OwnsDrive,
         StopPcs, AppStates, Running, DriveStates, Faults, Controlwords, ErrorCodes,
         UpdatePcs, Pcs
    <2>3. UnnoticedIsLatched'
      BY <1>7, SMT DEF DebugCommand, UnnoticedIsLatched, TypeOK, ClearIsOwed, RestPcs,
         StopPcs, AppStates, Running, DriveStates, Faults, Controlwords, ErrorCodes,
         UpdatePcs, Pcs
    <2>4. RunningIsOwned'
      BY <1>7, SMT DEF DebugCommand, OwnsDrive, RunningState, RunningIsOwned, TypeOK,
         RestPcs, StopPcs, ClearIsOwed, Enabled, AppStates, Running, DriveStates, Faults,
         Controlwords, ErrorCodes, UpdatePcs, Pcs
    <2> QED
      BY <2>1, <2>2, <2>3, <2>4
  <1>8. CASE ResetRequested
    <2>1. ClearIsOwed'
      BY <1>8, SMT DEF ResetRequested, ClearIsOwed, TypeOK, RestPcs, StopPcs, AppStates,
         Running, DriveStates, Faults, Controlwords, ErrorCodes, UpdatePcs, Pcs
    <2>2. ExitIsClean'
      BY <1>8, SMT DEF ResetRequested, ExitIsClean, TypeOK, RunningIsOwned, OwnsDrive,
         StopPcs, AppStates, Running, DriveStates, Faults, Controlwords, ErrorCodes,
         UpdatePcs, Pcs
    <2>3. UnnoticedIsLatched'
      BY <1>8, SMT DEF ResetRequested, UnnoticedIsLatched, TypeOK, ClearIsOwed, RestPcs,
         StopPcs, AppStates, Running, DriveStates, Faults, Controlwords, ErrorCodes,
         UpdatePcs, Pcs
    <2>4. RunningIsOwned'
      BY <1>8, SMT DEF ResetRequested, OwnsDrive, RunningState, RunningIsOwned, TypeOK,
         RestPcs, StopPcs, ClearIsOwed, Enabled, AppStates, Running, DriveStates, Faults,
         Controlwords, ErrorCodes, UpdatePcs, Pcs
    <2> QED
      BY <2>1, <2>2, <2>3, <2>4
  <1>9. CASE ReceiveAny
    <2>1. ClearIsOwed'
      <3>1. ~clear_requested /\ clear_requested' = clear_requested /\ pc' = "look"
        BY <1>9 DEF ReceiveAny, Receive, InterruptIsFaster, ClearIsOwed
      <3>2. edge' <=> HasRisen'
        <4>1. previous' = previous
          BY <1>9 DEF ReceiveAny, Receive
        <4>2. edge' = ResetEdge(controlword')
          BY <1>9 DEF ReceiveAny, Receive
        <4> QED
          BY <4>1, <4>2 DEF ResetEdge, HasRisen
      <3>3. /\ ~clear_requested' /\ pc' \notin {"clear", "clearSet"}
            /\ pc' \notin StopPcs \cup {"clear", "clearSet"}
            /\ pc' \notin {"transition", "start", "startRun", "command", "exit",
                          "recover", "recoverSet"}
        BY <3>1, SMT DEF StopPcs
      <3> QED
        BY <3>2, <3>3 DEF ClearIsOwed
    <2>2. ExitIsClean'
      BY <1>9, SMT DEF ReceiveAny, Receive, ResetEdge, InterruptIsFaster, Speeds,
         ExitIsClean, TypeOK, RunningIsOwned, OwnsDrive, StopPcs, AppStates, Running,
         DriveStates, Faults, Controlwords, ErrorCodes, UpdatePcs, Pcs
    <2>3. UnnoticedIsLatched'
      BY <1>9, SMT DEF ReceiveAny, Receive, ResetEdge, InterruptIsFaster, Speeds,
         UnnoticedIsLatched, TypeOK, ClearIsOwed, RestPcs, StopPcs, AppStates, Running,
         DriveStates, Faults, Controlwords, ErrorCodes, UpdatePcs, Pcs
    <2>4. RunningIsOwned'
      BY <1>9, SMT DEF ReceiveAny, Receive, ResetEdge, InterruptIsFaster, Speeds, OwnsDrive,
         RunningState, RunningIsOwned, TypeOK, RestPcs, StopPcs, ClearIsOwed, Enabled,
         AppStates, Running, DriveStates, Faults, Controlwords, ErrorCodes, UpdatePcs, Pcs
    <2> QED
      BY <2>1, <2>2, <2>3, <2>4
  <1>10. CASE LookFaulted
    <2>1. ClearIsOwed'
      BY <1>10, SMT DEF LookFaulted, LookAt, IsFaulted, ClearIsOwed, TypeOK, RestPcs,
         StopPcs, AppStates, Running, DriveStates, Faults, Controlwords, ErrorCodes,
         UpdatePcs, Pcs
    <2>2. ExitIsClean'
      BY <1>10, SMT DEF LookFaulted, LookAt, IsFaulted, ExitIsClean, TypeOK, RunningIsOwned,
         OwnsDrive, StopPcs, AppStates, Running, DriveStates, Faults, Controlwords,
         ErrorCodes, UpdatePcs, Pcs
    <2>3. UnnoticedIsLatched'
      BY <1>10, SMT DEF LookFaulted, LookAt, IsFaulted, UnnoticedIsLatched, TypeOK,
         ClearIsOwed, RestPcs, StopPcs, AppStates, Running, DriveStates, Faults,
         Controlwords, ErrorCodes, UpdatePcs, Pcs
    <2>4. RunningIsOwned'
      BY <1>10, SMT DEF LookFaulted, LookAt, IsFaulted, OwnsDrive, RunningState,
         RunningIsOwned, TypeOK, RestPcs, StopPcs, ClearIsOwed, Enabled, AppStates, Running,
         DriveStates, Faults, Controlwords, ErrorCodes, UpdatePcs, Pcs
    <2> QED
      BY <2>1, <2>2, <2>3, <2>4
  <1>11. CASE LookExit
    <2>1. ClearIsOwed'
      BY <1>11, SMT DEF LookExit, LookAt, IsFaulted, ClearIsOwed, TypeOK, RestPcs, StopPcs,
         AppStates, Running, DriveStates, Faults, Controlwords, ErrorCodes, UpdatePcs, Pcs
    <2>2. ExitIsClean'
      BY <1>11, SMT DEF LookExit, LookAt, IsFaulted, ExitIsClean, TypeOK, RunningIsOwned,
         OwnsDrive, StopPcs, AppStates, Running, DriveStates, Faults, Controlwords,
         ErrorCodes, UpdatePcs, Pcs
    <2>3. UnnoticedIsLatched'
      BY <1>11, SMT DEF LookExit, LookAt, IsFaulted, UnnoticedIsLatched, TypeOK,
         ClearIsOwed, RestPcs, StopPcs, AppStates, Running, DriveStates, Faults,
         Controlwords, ErrorCodes, UpdatePcs, Pcs
    <2>4. RunningIsOwned'
      BY <1>11, SMT DEF LookExit, LookAt, IsFaulted, OwnsDrive, RunningState,
         RunningIsOwned, TypeOK, RestPcs, StopPcs, ClearIsOwed, Enabled, AppStates, Running,
         DriveStates, Faults, Controlwords, ErrorCodes, UpdatePcs, Pcs
    <2> QED
      BY <2>1, <2>2, <2>3, <2>4
  <1>12. CASE LookOffline
    <2>1. ClearIsOwed'
      BY <1>12, SMT DEF LookOffline, LookAt, IsFaulted, ClearIsOwed, TypeOK, RestPcs,
         StopPcs, AppStates, Running, DriveStates, Faults, Controlwords, ErrorCodes,
         UpdatePcs, Pcs
    <2>2. ExitIsClean'
      BY <1>12, SMT DEF LookOffline, LookAt, IsFaulted, ExitIsClean, TypeOK, RunningIsOwned,
         OwnsDrive, StopPcs, AppStates, Running, DriveStates, Faults, Controlwords,
         ErrorCodes, UpdatePcs, Pcs
    <2>3. UnnoticedIsLatched'
      BY <1>12, SMT DEF LookOffline, LookAt, IsFaulted, UnnoticedIsLatched, TypeOK,
         ClearIsOwed, RestPcs, StopPcs, AppStates, Running, DriveStates, Faults,
         Controlwords, ErrorCodes, UpdatePcs, Pcs
    <2>4. RunningIsOwned'
      BY <1>12, SMT DEF LookOffline, LookAt, IsFaulted, OwnsDrive, RunningState,
         RunningIsOwned, TypeOK, RestPcs, StopPcs, ClearIsOwed, Enabled, AppStates, Running,
         DriveStates, Faults, Controlwords, ErrorCodes, UpdatePcs, Pcs
    <2> QED
      BY <2>1, <2>2, <2>3, <2>4
  <1>13. CASE LookHealthy
    <2>1. ClearIsOwed'
      BY <1>13, SMT DEF LookHealthy, LookAt, IsFaulted, ClearIsOwed, TypeOK, RestPcs,
         StopPcs, AppStates, Running, DriveStates, Faults, Controlwords, ErrorCodes,
         UpdatePcs, Pcs
    <2>2. ExitIsClean'
      BY <1>13, SMT DEF LookHealthy, LookAt, IsFaulted, ExitIsClean, TypeOK, RunningIsOwned,
         OwnsDrive, StopPcs, AppStates, Running, DriveStates, Faults, Controlwords,
         ErrorCodes, UpdatePcs, Pcs
    <2>3. UnnoticedIsLatched'
      BY <1>13, SMT DEF LookHealthy, LookAt, IsFaulted, UnnoticedIsLatched, TypeOK,
         ClearIsOwed, RestPcs, StopPcs, AppStates, Running, DriveStates, Faults,
         Controlwords, ErrorCodes, UpdatePcs, Pcs
    <2>4. RunningIsOwned'
      BY <1>13, SMT DEF LookHealthy, LookAt, IsFaulted, OwnsDrive, RunningState,
         RunningIsOwned, TypeOK, RestPcs, StopPcs, ClearIsOwed, Enabled, AppStates, Running,
         DriveStates, Faults, Controlwords, ErrorCodes, UpdatePcs, Pcs
    <2> QED
      BY <2>1, <2>2, <2>3, <2>4
  <1>14. CASE StopDrive
    <2>1. ClearIsOwed'
      BY <1>14, SMT DEF StopDrive, OwnsDrive, ClearIsOwed, TypeOK, RestPcs, StopPcs,
         AppStates, Running, DriveStates, Faults, Controlwords, ErrorCodes, UpdatePcs, Pcs
    <2>2. ExitIsClean'
      BY <1>14, SMT DEF StopDrive, OwnsDrive, ExitIsClean, TypeOK, RunningIsOwned, StopPcs,
         AppStates, Running, DriveStates, Faults, Controlwords, ErrorCodes, UpdatePcs, Pcs
    <2>3. UnnoticedIsLatched'
      BY <1>14, SMT DEF StopDrive, OwnsDrive, UnnoticedIsLatched, TypeOK, ClearIsOwed,
         RestPcs, StopPcs, AppStates, Running, DriveStates, Faults, Controlwords,
         ErrorCodes, UpdatePcs, Pcs
    <2>4. RunningIsOwned'
      BY <1>14, SMT DEF StopDrive, OwnsDrive, RunningState, RunningIsOwned, TypeOK, RestPcs,
         StopPcs, ClearIsOwed, Enabled, AppStates, Running, DriveStates, Faults,
         Controlwords, ErrorCodes, UpdatePcs, Pcs
    <2> QED
      BY <2>1, <2>2, <2>3, <2>4
  <1>15. CASE StopCurrent
    <2>1. ClearIsOwed'
      BY <1>15, SMT DEF StopCurrent, ClearIsOwed, TypeOK, RestPcs, StopPcs, AppStates,
         Running, DriveStates, Faults, Controlwords, ErrorCodes, UpdatePcs, Pcs
    <2>2. ExitIsClean'
      BY <1>15, SMT DEF StopCurrent, ExitIsClean, TypeOK, RunningIsOwned, OwnsDrive,
         StopPcs, AppStates, Running, DriveStates, Faults, Controlwords, ErrorCodes,
         UpdatePcs, Pcs
    <2>3. UnnoticedIsLatched'
      BY <1>15, SMT DEF StopCurrent, UnnoticedIsLatched, TypeOK, ClearIsOwed, RestPcs,
         StopPcs, AppStates, Running, DriveStates, Faults, Controlwords, ErrorCodes,
         UpdatePcs, Pcs
    <2>4. RunningIsOwned'
      BY <1>15, SMT DEF StopCurrent, OwnsDrive, RunningState, RunningIsOwned, TypeOK,
         RestPcs, StopPcs, ClearIsOwed, Enabled, AppStates, Running, DriveStates, Faults,
         Controlwords, ErrorCodes, UpdatePcs, Pcs
    <2> QED
      BY <2>1, <2>2, <2>3, <2>4
  <1>16. CASE StopSpeed
    <2>1. ClearIsOwed'
      BY <1>16, SMT DEF StopSpeed, ClearIsOwed, TypeOK, RestPcs, StopPcs, AppStates,
         Running, DriveStates, Faults, Controlwords, ErrorCodes, UpdatePcs, Pcs
    <2>2. ExitIsClean'
      BY <1>16, SMT DEF StopSpeed, ExitIsClean, TypeOK, RunningIsOwned, OwnsDrive, StopPcs,
         AppStates, Running, DriveStates, Faults, Controlwords, ErrorCodes, UpdatePcs, Pcs
    <2>3. UnnoticedIsLatched'
      BY <1>16, SMT DEF StopSpeed, UnnoticedIsLatched, TypeOK, ClearIsOwed, RestPcs,
         StopPcs, AppStates, Running, DriveStates, Faults, Controlwords, ErrorCodes,
         UpdatePcs, Pcs
    <2>4. RunningIsOwned'
      BY <1>16, SMT DEF StopSpeed, OwnsDrive, RunningState, RunningIsOwned, TypeOK, RestPcs,
         StopPcs, ClearIsOwed, Enabled, AppStates, Running, DriveStates, Faults,
         Controlwords, ErrorCodes, UpdatePcs, Pcs
    <2> QED
      BY <2>1, <2>2, <2>3, <2>4
  <1>17. CASE Stopped
    <2>1. ClearIsOwed'
      BY <1>17, SMT DEF Stopped, ClearIsOwed, TypeOK, RestPcs, StopPcs, AppStates, Running,
         DriveStates, Faults, Controlwords, ErrorCodes, UpdatePcs, Pcs
    <2>2. ExitIsClean'
      BY <1>17, SMT DEF Stopped, ExitIsClean, TypeOK, RunningIsOwned, OwnsDrive, StopPcs,
         AppStates, Running, DriveStates, Faults, Controlwords, ErrorCodes, UpdatePcs, Pcs
    <2>3. UnnoticedIsLatched'
      BY <1>17, SMT DEF Stopped, UnnoticedIsLatched, TypeOK, ClearIsOwed, RestPcs, StopPcs,
         AppStates, Running, DriveStates, Faults, Controlwords, ErrorCodes, UpdatePcs, Pcs
    <2>4. RunningIsOwned'
      BY <1>17, SMT DEF Stopped, OwnsDrive, RunningState, RunningIsOwned, TypeOK, RestPcs,
         StopPcs, ClearIsOwed, Enabled, AppStates, Running, DriveStates, Faults,
         Controlwords, ErrorCodes, UpdatePcs, Pcs
    <2> QED
      BY <2>1, <2>2, <2>3, <2>4
  <1>18. CASE ClearLook
    <2>1. ClearIsOwed'
      BY <1>18, SMT DEF ClearLook, ClearIsOwed, TypeOK, RestPcs, StopPcs, AppStates,
         Running, DriveStates, Faults, Controlwords, ErrorCodes, UpdatePcs, Pcs
    <2>2. ExitIsClean'
      BY <1>18, SMT DEF ClearLook, ExitIsClean, TypeOK, RunningIsOwned, OwnsDrive, StopPcs,
         AppStates, Running, DriveStates, Faults, Controlwords, ErrorCodes, UpdatePcs, Pcs
    <2>3. UnnoticedIsLatched'
      BY <1>18, SMT DEF ClearLook, UnnoticedIsLatched, TypeOK, ClearIsOwed, RestPcs,
         StopPcs, AppStates, Running, DriveStates, Faults, Controlwords, ErrorCodes,
         UpdatePcs, Pcs
    <2>4. RunningIsOwned'
      BY <1>18, SMT DEF ClearLook, OwnsDrive, RunningState, RunningIsOwned, TypeOK, RestPcs,
         StopPcs, ClearIsOwed, Enabled, AppStates, Running, DriveStates, Faults,
         Controlwords, ErrorCodes, UpdatePcs, Pcs
    <2> QED
      BY <2>1, <2>2, <2>3, <2>4
  <1>19. CASE ClearSet
    <2>1. ClearIsOwed'
      BY <1>19, SMT DEF ClearSet, ClearIsOwed, TypeOK, RestPcs, StopPcs, AppStates, Running,
         DriveStates, Faults, Controlwords, ErrorCodes, UpdatePcs, Pcs
    <2>2. ExitIsClean'
      BY <1>19, SMT DEF ClearSet, ExitIsClean, TypeOK, RunningIsOwned, OwnsDrive, StopPcs,
         AppStates, Running, DriveStates, Faults, Controlwords, ErrorCodes, UpdatePcs, Pcs
    <2>3. UnnoticedIsLatched'
      BY <1>19, SMT DEF ClearSet, UnnoticedIsLatched, TypeOK, ClearIsOwed, RestPcs, StopPcs,
         AppStates, Running, DriveStates, Faults, Controlwords, ErrorCodes, UpdatePcs, Pcs
    <2>4. RunningIsOwned'
      BY <1>19, SMT DEF ClearSet, OwnsDrive, RunningState, RunningIsOwned, TypeOK, RestPcs,
         StopPcs, ClearIsOwed, Enabled, AppStates, Running, DriveStates, Faults,
         Controlwords, ErrorCodes, UpdatePcs, Pcs
    <2> QED
      BY <2>1, <2>2, <2>3, <2>4
  <1>20. CASE ExitFault
    <2>1. ClearIsOwed'
      BY <1>20, SMT DEF ExitFault, ClearIsOwed, TypeOK, RestPcs, StopPcs, AppStates,
         Running, DriveStates, Faults, Controlwords, ErrorCodes, UpdatePcs, Pcs
    <2>2. ExitIsClean'
      BY <1>20, SMT DEF ExitFault, ExitIsClean, TypeOK, RunningIsOwned, OwnsDrive, StopPcs,
         AppStates, Running, DriveStates, Faults, Controlwords, ErrorCodes, UpdatePcs, Pcs
    <2>3. UnnoticedIsLatched'
      BY <1>20, SMT DEF ExitFault, UnnoticedIsLatched, TypeOK, ClearIsOwed, RestPcs,
         StopPcs, AppStates, Running, DriveStates, Faults, Controlwords, ErrorCodes,
         UpdatePcs, Pcs
    <2>4. RunningIsOwned'
      BY <1>20, SMT DEF ExitFault, OwnsDrive, RunningState, RunningIsOwned, TypeOK, RestPcs,
         StopPcs, ClearIsOwed, Enabled, AppStates, Running, DriveStates, Faults,
         Controlwords, ErrorCodes, UpdatePcs, Pcs
    <2> QED
      BY <2>1, <2>2, <2>3, <2>4
  <1>21. CASE RecoverLook
    <2>1. ClearIsOwed'
      BY <1>21, SMT DEF RecoverLook, ClearIsOwed, TypeOK, RestPcs, StopPcs, AppStates,
         Running, DriveStates, Faults, Controlwords, ErrorCodes, UpdatePcs, Pcs
    <2>2. ExitIsClean'
      BY <1>21, SMT DEF RecoverLook, ExitIsClean, TypeOK, RunningIsOwned, OwnsDrive,
         StopPcs, AppStates, Running, DriveStates, Faults, Controlwords, ErrorCodes,
         UpdatePcs, Pcs
    <2>3. UnnoticedIsLatched'
      BY <1>21, SMT DEF RecoverLook, UnnoticedIsLatched, TypeOK, ClearIsOwed, RestPcs,
         StopPcs, AppStates, Running, DriveStates, Faults, Controlwords, ErrorCodes,
         UpdatePcs, Pcs
    <2>4. RunningIsOwned'
      BY <1>21, SMT DEF RecoverLook, OwnsDrive, RunningState, RunningIsOwned, TypeOK,
         RestPcs, StopPcs, ClearIsOwed, Enabled, AppStates, Running, DriveStates, Faults,
         Controlwords, ErrorCodes, UpdatePcs, Pcs
    <2> QED
      BY <2>1, <2>2, <2>3, <2>4
  <1>22. CASE RecoverSet
    <2>1. ClearIsOwed'
      BY <1>22, SMT DEF RecoverSet, ClearIsOwed, TypeOK, RestPcs, StopPcs, AppStates,
         Running, DriveStates, Faults, Controlwords, ErrorCodes, UpdatePcs, Pcs
    <2>2. ExitIsClean'
      BY <1>22, SMT DEF RecoverSet, ExitIsClean, TypeOK, RunningIsOwned, OwnsDrive, StopPcs,
         AppStates, Running, DriveStates, Faults, Controlwords, ErrorCodes, UpdatePcs, Pcs
    <2>3. UnnoticedIsLatched'
      BY <1>22, SMT DEF RecoverSet, UnnoticedIsLatched, TypeOK, ClearIsOwed, RestPcs,
         StopPcs, AppStates, Running, DriveStates, Faults, Controlwords, ErrorCodes,
         UpdatePcs, Pcs
    <2>4. RunningIsOwned'
      BY <1>22, SMT DEF RecoverSet, OwnsDrive, RunningState, RunningIsOwned, TypeOK,
         RestPcs, StopPcs, ClearIsOwed, Enabled, AppStates, Running, DriveStates, Faults,
         Controlwords, ErrorCodes, UpdatePcs, Pcs
    <2> QED
      BY <2>1, <2>2, <2>3, <2>4
  <1>23. CASE LeaveEnabled
    <2>1. ClearIsOwed'
      BY <1>23, SMT DEF LeaveEnabled, Asked, Moves, Enabled, ClearIsOwed, TypeOK, RestPcs,
         StopPcs, AppStates, Running, DriveStates, Faults, Controlwords, ErrorCodes,
         UpdatePcs, Pcs
    <2>2. ExitIsClean'
      BY <1>23, SMT DEF LeaveEnabled, Asked, Moves, Enabled, ExitIsClean, TypeOK,
         RunningIsOwned, OwnsDrive, StopPcs, AppStates, Running, DriveStates, Faults,
         Controlwords, ErrorCodes, UpdatePcs, Pcs
    <2>3. UnnoticedIsLatched'
      BY <1>23, SMT DEF LeaveEnabled, Asked, Moves, Enabled, UnnoticedIsLatched, TypeOK,
         ClearIsOwed, RestPcs, StopPcs, AppStates, Running, DriveStates, Faults,
         Controlwords, ErrorCodes, UpdatePcs, Pcs
    <2>4. RunningIsOwned'
      BY <1>23, SMT DEF LeaveEnabled, Asked, Moves, Enabled, OwnsDrive, RunningState,
         RunningIsOwned, TypeOK, RestPcs, StopPcs, ClearIsOwed, AppStates, Running,
         DriveStates, Faults, Controlwords, ErrorCodes, UpdatePcs, Pcs
    <2> QED
      BY <2>1, <2>2, <2>3, <2>4
  <1>24. CASE EnterEnabled
    <2>1. ClearIsOwed'
      BY <1>24, SMT DEF EnterEnabled, Asked, Moves, Enabled, ClearIsOwed, TypeOK, RestPcs,
         StopPcs, AppStates, Running, DriveStates, Faults, Controlwords, ErrorCodes,
         UpdatePcs, Pcs
    <2>2. ExitIsClean'
      BY <1>24, SMT DEF EnterEnabled, Asked, Moves, Enabled, ExitIsClean, TypeOK,
         RunningIsOwned, OwnsDrive, StopPcs, AppStates, Running, DriveStates, Faults,
         Controlwords, ErrorCodes, UpdatePcs, Pcs
    <2>3. UnnoticedIsLatched'
      BY <1>24, SMT DEF EnterEnabled, Asked, Moves, Enabled, UnnoticedIsLatched, TypeOK,
         ClearIsOwed, RestPcs, StopPcs, AppStates, Running, DriveStates, Faults,
         Controlwords, ErrorCodes, UpdatePcs, Pcs
    <2>4. RunningIsOwned'
      BY <1>24, SMT DEF EnterEnabled, Asked, Moves, Enabled, OwnsDrive, RunningState,
         RunningIsOwned, TypeOK, RestPcs, StopPcs, ClearIsOwed, AppStates, Running,
         DriveStates, Faults, Controlwords, ErrorCodes, UpdatePcs, Pcs
    <2> QED
      BY <2>1, <2>2, <2>3, <2>4
  <1>25. CASE Move
    <2>1. ClearIsOwed'
      BY <1>25, SMT DEF Move, Asked, Moves, Enabled, ClearIsOwed, TypeOK, RestPcs, StopPcs,
         AppStates, Running, DriveStates, Faults, Controlwords, ErrorCodes, UpdatePcs, Pcs
    <2>2. ExitIsClean'
      BY <1>25, SMT DEF Move, Asked, Moves, Enabled, ExitIsClean, TypeOK, RunningIsOwned,
         OwnsDrive, StopPcs, AppStates, Running, DriveStates, Faults, Controlwords,
         ErrorCodes, UpdatePcs, Pcs
    <2>3. UnnoticedIsLatched'
      BY <1>25, SMT DEF Move, Asked, Moves, Enabled, UnnoticedIsLatched, TypeOK,
         ClearIsOwed, RestPcs, StopPcs, AppStates, Running, DriveStates, Faults,
         Controlwords, ErrorCodes, UpdatePcs, Pcs
    <2>4. RunningIsOwned'
      BY <1>25, SMT DEF Move, Asked, Moves, Enabled, OwnsDrive, RunningState,
         RunningIsOwned, TypeOK, RestPcs, StopPcs, ClearIsOwed, AppStates, Running,
         DriveStates, Faults, Controlwords, ErrorCodes, UpdatePcs, Pcs
    <2> QED
      BY <2>1, <2>2, <2>3, <2>4
  <1>26. CASE Start
    <2>1. ClearIsOwed'
      BY <1>26, SMT DEF Start, ClearIsOwed, TypeOK, RestPcs, StopPcs, AppStates, Running,
         DriveStates, Faults, Controlwords, ErrorCodes, UpdatePcs, Pcs
    <2>2. ExitIsClean'
      BY <1>26, SMT DEF Start, ExitIsClean, TypeOK, RunningIsOwned, OwnsDrive, StopPcs,
         AppStates, Running, DriveStates, Faults, Controlwords, ErrorCodes, UpdatePcs, Pcs
    <2>3. UnnoticedIsLatched'
      BY <1>26, SMT DEF Start, UnnoticedIsLatched, TypeOK, ClearIsOwed, RestPcs, StopPcs,
         AppStates, Running, DriveStates, Faults, Controlwords, ErrorCodes, UpdatePcs, Pcs
    <2>4. RunningIsOwned'
      BY <1>26, SMT DEF Start, OwnsDrive, RunningState, RunningIsOwned, TypeOK, RestPcs,
         StopPcs, ClearIsOwed, Enabled, AppStates, Running, DriveStates, Faults,
         Controlwords, ErrorCodes, UpdatePcs, Pcs
    <2> QED
      BY <2>1, <2>2, <2>3, <2>4
  <1>27. CASE StartRun
    <2>1. ClearIsOwed'
      BY <1>27, SMT DEF StartRun, RunningState, ClearIsOwed, TypeOK, RestPcs, StopPcs,
         AppStates, Running, DriveStates, Faults, Controlwords, ErrorCodes, UpdatePcs, Pcs
    <2>2. ExitIsClean'
      BY <1>27, SMT DEF StartRun, RunningState, ExitIsClean, TypeOK, RunningIsOwned,
         OwnsDrive, StopPcs, AppStates, Running, DriveStates, Faults, Controlwords,
         ErrorCodes, UpdatePcs, Pcs
    <2>3. UnnoticedIsLatched'
      BY <1>27, SMT DEF StartRun, RunningState, UnnoticedIsLatched, TypeOK, ClearIsOwed,
         RestPcs, StopPcs, AppStates, Running, DriveStates, Faults, Controlwords,
         ErrorCodes, UpdatePcs, Pcs
    <2>4. RunningIsOwned'
      BY <1>27, SMT DEF StartRun, RunningState, OwnsDrive, RunningIsOwned, TypeOK, RestPcs,
         StopPcs, ClearIsOwed, Enabled, AppStates, Running, DriveStates, Faults,
         Controlwords, ErrorCodes, UpdatePcs, Pcs
    <2> QED
      BY <2>1, <2>2, <2>3, <2>4
  <1>28. CASE Command
    <2>1. ClearIsOwed'
      BY <1>28, SMT DEF Command, References, OwnsDrive, RunningState, ClearIsOwed, TypeOK,
         RestPcs, StopPcs, AppStates, Running, DriveStates, Faults, Controlwords,
         ErrorCodes, UpdatePcs, Pcs
    <2>2. ExitIsClean'
      BY <1>28, SMT DEF Command, References, OwnsDrive, RunningState, ExitIsClean, TypeOK,
         RunningIsOwned, StopPcs, AppStates, Running, DriveStates, Faults, Controlwords,
         ErrorCodes, UpdatePcs, Pcs
    <2>3. UnnoticedIsLatched'
      BY <1>28, SMT DEF Command, References, OwnsDrive, RunningState, UnnoticedIsLatched,
         TypeOK, ClearIsOwed, RestPcs, StopPcs, AppStates, Running, DriveStates, Faults,
         Controlwords, ErrorCodes, UpdatePcs, Pcs
    <2>4. RunningIsOwned'
      BY <1>28, SMT DEF Command, References, OwnsDrive, RunningState, RunningIsOwned,
         TypeOK, RestPcs, StopPcs, ClearIsOwed, Enabled, AppStates, Running, DriveStates,
         Faults, Controlwords, ErrorCodes, UpdatePcs, Pcs
    <2> QED
      BY <2>1, <2>2, <2>3, <2>4
  <1>29. CASE Report
    <2>1. ClearIsOwed'
      BY <1>29, SMT DEF Report, ClearIsOwed, TypeOK, RestPcs, StopPcs, AppStates, Running,
         DriveStates, Faults, Controlwords, ErrorCodes, UpdatePcs, Pcs
    <2>2. ExitIsClean'
      BY <1>29, SMT DEF Report, ExitIsClean, TypeOK, RunningIsOwned, OwnsDrive, StopPcs,
         AppStates, Running, DriveStates, Faults, Controlwords, ErrorCodes, UpdatePcs, Pcs
    <2>3. UnnoticedIsLatched'
      BY <1>29, SMT DEF Report, UnnoticedIsLatched, TypeOK, ClearIsOwed, RestPcs, StopPcs,
         AppStates, Running, DriveStates, Faults, Controlwords, ErrorCodes, UpdatePcs, Pcs
    <2>4. RunningIsOwned'
      BY <1>29, SMT DEF Report, OwnsDrive, RunningState, RunningIsOwned, TypeOK, RestPcs,
         StopPcs, ClearIsOwed, Enabled, AppStates, Running, DriveStates, Faults,
         Controlwords, ErrorCodes, UpdatePcs, Pcs
    <2> QED
      BY <2>1, <2>2, <2>3, <2>4
  <1>30. CASE IsrFault
    <2>1. ClearIsOwed'
      BY <1>30, SMT DEF IsrFault, HasRisen, ClearIsOwed, TypeOK, RestPcs, StopPcs, AppStates, Running,
         DriveStates, Faults, Controlwords, ErrorCodes, UpdatePcs, Pcs
    <2>2. ExitIsClean'
      BY <1>30, SMT DEF IsrFault, ExitIsClean, TypeOK, RunningIsOwned, OwnsDrive, StopPcs,
         AppStates, Running, DriveStates, Faults, Controlwords, ErrorCodes, UpdatePcs, Pcs
    <2>3. UnnoticedIsLatched'
      <3>1. latched' # {} /\ clear_requested' = clear_requested /\ pc' = pc /\ edge' = edge
               /\ app_faulted' = app_faulted /\ overspeed' = overspeed /\ rpdo' = rpdo
        BY <1>30 DEF IsrFault
      <3>2. CASE latched = {}
        BY <1>30, <3>1, <3>2, SMT DEF UnnoticedIsLatched, ClearIsOwed
      <3>3. CASE latched # {}
        <4>1. unacknowledged' => unacknowledged
          BY <1>30, <3>3 DEF IsrFault
        <4> QED
          BY <3>1, <3>3, <4>1, SMT DEF UnnoticedIsLatched
      <3> QED
        BY <3>2, <3>3
    <2>4. RunningIsOwned'
      BY <1>30, SMT DEF IsrFault, OwnsDrive, RunningState, RunningIsOwned, TypeOK, RestPcs,
         StopPcs, ClearIsOwed, Enabled, AppStates, Running, DriveStates, Faults,
         Controlwords, ErrorCodes, UpdatePcs, Pcs
    <2> QED
      BY <2>1, <2>2, <2>3, <2>4
  <1>31. CASE IsrServe
    <2>1. ClearIsOwed'
      BY <1>31, SMT DEF IsrServe, HasRisen, ClearIsOwed, TypeOK, RestPcs, StopPcs, AppStates, Running,
         DriveStates, Faults, Controlwords, ErrorCodes, UpdatePcs, Pcs
    <2>2. ExitIsClean'
      BY <1>31, SMT DEF IsrServe, ExitIsClean, TypeOK, RunningIsOwned, OwnsDrive, StopPcs,
         AppStates, Running, DriveStates, Faults, Controlwords, ErrorCodes, UpdatePcs, Pcs
    <2>3. UnnoticedIsLatched'
      BY <1>31, SMT DEF IsrServe, UnnoticedIsLatched, TypeOK, ClearIsOwed, RestPcs, StopPcs,
         AppStates, Running, DriveStates, Faults, Controlwords, ErrorCodes, UpdatePcs, Pcs
    <2>4. RunningIsOwned'
      BY <1>31, SMT DEF IsrServe, OwnsDrive, RunningState, RunningIsOwned, TypeOK, RestPcs,
         StopPcs, ClearIsOwed, Enabled, AppStates, Running, DriveStates, Faults,
         Controlwords, ErrorCodes, UpdatePcs, Pcs
    <2> QED
      BY <2>1, <2>2, <2>3, <2>4
  <1>32. CASE UNCHANGED vars
    BY <1>32, SMT DEF vars, HasRisen, ClearIsOwed, ExitIsClean, UnnoticedIsLatched, RunningIsOwned,
       StopPcs, RestPcs, OwnsDrive, RunningState, Enabled
  <1> QED
    BY <1>1, <1>2, <1>3, <1>4, <1>5, <1>6, <1>7, <1>8, <1>9, <1>10, <1>11, <1>12, <1>13,
       <1>14, <1>15, <1>16, <1>17, <1>18, <1>19, <1>20, <1>21, <1>22, <1>23, <1>24, <1>25,
       <1>26, <1>27, <1>28, <1>29, <1>30, <1>31, <1>32 DEF Next, MainStep, Process

(* The invariant holds of every start.                                     *)
LEMMA InitHolds == Init => IInv
  <1> SUFFICES ASSUME Init PROVE IInv
    OBVIOUS
  <1>1. TypeOK
    <2>1. latched \in SUBSET Faults
      BY DEF Init
    <2>2. /\ calibrated \in BOOLEAN /\ referenced \in BOOLEAN /\ clear_requested \in BOOLEAN
          /\ target \in BOOLEAN /\ operational \in BOOLEAN /\ previous \in BOOLEAN
          /\ overspeed \in BOOLEAN /\ rpdo \in BOOLEAN /\ pending \in BOOLEAN
          /\ reported \in BOOLEAN /\ edge \in BOOLEAN /\ app_faulted \in BOOLEAN
          /\ unacknowledged \in BOOLEAN
      BY DEF Init
    <2> QED
      BY <2>1, <2>2, SMT DEF Init, TypeOK, AppStates, Running, DriveStates, Faults,
         Controlwords, ErrorCodes, UpdatePcs, Pcs
  <1>2. ClearIsOwed /\ ExitIsClean /\ UnnoticedIsLatched
    BY DEF Init, ClearIsOwed, ExitIsClean, UnnoticedIsLatched, StopPcs
  <1>3. RunningIsOwned
    BY SMT DEF Init, RunningIsOwned, OwnsDrive, Enabled, Running, StopPcs
  <1> QED
    BY <1>1, <1>2, <1>3 DEF IInv

(* What every step of the service and of the interrupt preserves.          *)
THEOREM Inductive == Spec => []IInv
  <1>1. IInv /\ [Next]_vars => IInv'
    BY TypeStep, PartsStep DEF IInv
  <1> QED
    BY <1>1, InitHolds, PTL DEF Spec

(* Every variable keeps its type; the state machine is entered operational *)
(* and outside FAULT only (canopen_service_update_drive_state).            *)
THEOREM TypeCorrect == Spec => []TypeOK
  <1>1. IInv => TypeOK
    BY DEF IInv
  <1> QED
    BY <1>1, Inductive, PTL

(* A state that claims the motor is enabled is backed by a running drive    *)
(* of the service in the commanded mode (canopen_service_process).         *)
THEOREM EnabledRuns == Spec => []EnabledIsRunning
  <1>1. IInv => EnabledIsRunning
    BY SMT DEF IInv, TypeOK, RunningIsOwned, EnabledIsRunning, OwnsDrive, Running, Enabled,
       RestPcs
  <1> QED
    BY <1>1, Inductive, PTL

(* No motor started by the service runs on under a state that denies it    *)
(* (canopen_service_stop_drive).                                           *)
THEOREM StartedOwned == Spec => []StartedIsOwned
  <1>1. IInv => StartedIsOwned
    BY DEF IInv, RunningIsOwned, StartedIsOwned
  <1> QED
    BY <1>1, Inductive, PTL

(* A clear is asked for under a latched fault, with none pending, and ends    *)
(* the turn: main only reports and goes round (canopen_service_process), as  *)
(* DriveLifecycle takes it to under DisciplinedClear.                       *)
THEOREM ClearsAreDisciplined ==
  Spec => [][/\ ~clear_requested /\ clear_requested' => pc = "clearSet"
             /\ pc = "clearSet" =>
                  latched # {} /\ ~clear_requested /\ pc' \in {"clearSet", "report"}
             /\ pc = "report" => pc' \in {"report", "update"}]_vars
  <1> DEFINE Asks == ~clear_requested /\ clear_requested' => pc = "clearSet"
             Looked == pc = "clearSet" =>
                         latched # {} /\ ~clear_requested /\ pc' \in {"clearSet", "report"}
             Ends == pc = "report" => pc' \in {"report", "update"}
  <1>1. IInv /\ [Next]_vars => Asks /\ Looked /\ Ends
    <2> SUFFICES ASSUME IInv, [Next]_vars PROVE Asks /\ Looked /\ Ends
      OBVIOUS
    <2>1. pc = "clearSet" => latched # {}
      BY DEF IInv, ClearIsOwed
    <2>2. pc = "clearSet" => ~clear_requested
      BY DEF IInv, ClearIsOwed, RestPcs
    <2>3. CASE MainStep
      BY <2>1, <2>2, <2>3
      DEF MainStep, Process, Step, AppFrame, faultVars, ServiceFrame, StoreReady,
          UpdateFaulted, UpdateNothing, UpdateCalibrated, UpdateDwelt, RampStop, DebugIdle,
          DebugCommand, ResetRequested, ReceiveAny, Receive, LookAt, LookFaulted, LookExit,
          LookOffline, LookHealthy, StopDrive, StopCurrent, StopSpeed, Stopped, ClearLook,
          ClearSet, ExitFault, RecoverLook, RecoverSet, LeaveEnabled, EnterEnabled, Move,
          Start, StartRun, Command, Report
    <2>4. CASE IsrFault \/ IsrServe
      BY <2>1, <2>2, <2>4 DEF IsrFault, IsrServe, IsrFrame
    <2>5. CASE UNCHANGED vars
      BY <2>1, <2>2, <2>5 DEF vars, faultVars
    <2>6. QED BY <2>3, <2>4, <2>5 DEF Next
  <1>2. QED
    BY <1>1, Inductive, PTL DEF Spec

(* Every step keeps what the calls rely on beside the invariant.            *)
LEMMA CoherentStep ==
  IInv /\ CallsAreCoherent /\ [Next]_vars => CallsAreCoherent'
  <1> SUFFICES ASSUME IInv, CallsAreCoherent, [Next]_vars PROVE CallsAreCoherent'
    OBVIOUS
  <1> USE DEF CallsAreCoherent, RecoveryIsDecided, NothingIsHeld, LagIsOneCall,
     OperationIsMeant, RecoveryIsPending, OperationPcs, LaterPcs, RestPcs, StopPcs, Running,
     IInv, ClearIsOwed, ExitIsClean, AppFrame, ServiceFrame,
     IsrFrame, CallFrame, UpdateFrame, Step, appVars, faultVars, networkVars, latchVars,
     reportVars, callVars
  <1>1. CASE UpdateFaulted
    BY <1>1, SMT DEF UpdateFaulted
  <1>2. CASE UpdateNothing
    BY <1>2, SMT DEF UpdateNothing
  <1>3. CASE UpdateCalibrated
    BY <1>3, SMT DEF UpdateCalibrated
  <1>4. CASE UpdateDwelt
    BY <1>4, SMT DEF UpdateDwelt
  <1>5. CASE RampStop
    BY <1>5, SMT DEF RampStop, StoreReady
  <1>6. CASE DebugIdle
    BY <1>6, SMT DEF DebugIdle
  <1>7. CASE DebugCommand
    BY <1>7, SMT DEF DebugCommand
  <1>8. CASE ResetRequested
    BY <1>8, SMT DEF ResetRequested
  <1>9. CASE ReceiveAny
    BY <1>9, SMT DEF ReceiveAny, Receive, ResetEdge, InterruptIsFaster, Speeds
  <1>10. CASE LookFaulted
    BY <1>10, SMT DEF LookFaulted, LookAt, IsFaulted
  <1>11. CASE LookExit
    BY <1>11, SMT DEF LookExit, LookAt, IsFaulted
  <1>12. CASE LookOffline
    BY <1>12, SMT DEF LookOffline, LookAt, IsFaulted
  <1>13. CASE LookHealthy
    BY <1>13, SMT DEF LookHealthy, LookAt, IsFaulted
  <1>14. CASE StopDrive
    BY <1>14, SMT DEF StopDrive
  <1>15. CASE StopCurrent
    BY <1>15, SMT DEF StopCurrent, StoreReady
  <1>16. CASE StopSpeed
    BY <1>16, SMT DEF StopSpeed
  <1>17. CASE Stopped
    BY <1>17, SMT DEF Stopped
  <1>18. CASE ClearLook
    BY <1>18, SMT DEF ClearLook
  <1>19. CASE ClearSet
    <2>1. drive = "FAULT"
      BY <1>19 DEF ClearSet, RunningIsOwned
    <2> QED
      BY <1>19, <2>1, SMT DEF ClearSet
  <1>20. CASE ExitFault
    BY <1>20, SMT DEF ExitFault
  <1>21. CASE RecoverLook
    BY <1>21, SMT DEF RecoverLook
  <1>22. CASE RecoverSet
    BY <1>22, SMT DEF RecoverSet
  <1>23. CASE LeaveEnabled
    BY <1>23, SMT DEF LeaveEnabled, Enabled
  <1>24. CASE EnterEnabled
    BY <1>24, SMT DEF EnterEnabled
  <1>25. CASE Move
    BY <1>25, SMT DEF Move
  <1>26. CASE Start
    BY <1>26, SMT DEF Start
  <1>27. CASE StartRun
    BY <1>27, SMT DEF StartRun, RunningState
  <1>28. CASE Command
    BY <1>28, SMT DEF Command, References
  <1>29. CASE Report
    <2>1. latched = {} /\ ~overspeed /\ ~rpdo /\ drive # "FAULT" => ErrorCode = "NONE"
      BY Zenon DEF ErrorCode
    <2> QED
      BY <1>29, <2>1, SMT DEF Report
  <1>30. CASE IsrFault
    BY <1>30, SMT DEF IsrFault
  <1>31. CASE IsrServe
    BY <1>31, SMT DEF IsrServe
  <1>32. CASE UNCHANGED vars
    BY <1>32, SMT DEF vars
  <1> QED
    BY <1>1, <1>2, <1>3, <1>4, <1>5, <1>6, <1>7, <1>8, <1>9, <1>10, <1>11, <1>12, <1>13,
       <1>14, <1>15, <1>16, <1>17, <1>18, <1>19, <1>20, <1>21, <1>22, <1>23, <1>24,
       <1>25, <1>26, <1>27, <1>28, <1>29, <1>30, <1>31, <1>32 DEF Next,
       MainStep, Process

(* What a call relies on beside the invariant: no recovery of a drive that    *)
(* somebody took up, no clear and no latch of its own on the way to a report *)
(* without FAULT, an error code ahead of its state by one call at most.     *)
THEOREM Coherent == Spec => []CallsAreCoherent
  <1>1. Init => CallsAreCoherent
    BY SMT DEF Init, CallsAreCoherent, RecoveryIsDecided, NothingIsHeld, LagIsOneCall,
       OperationIsMeant, RecoveryIsPending, OperationPcs, LaterPcs, StopPcs, Running
  <1> QED
    BY <1>1, CoherentStep, Inductive, PTL DEF Spec

(* Service and App agree at every point of a call: the invariant, a motor    *)
(* under every enabled state, a state over every motor it started.          *)
THEOREM ServiceIsSafe == Spec => []Safety
  <1>1. IInv /\ CallsAreCoherent /\ EnabledIsRunning /\ StartedIsOwned => Safety
    BY DEF Safety
  <1> QED
    BY <1>1, Inductive, Coherent, EnabledRuns, StartedOwned, PTL

(* FAULT is left only after a reset edge that came after the fault was     *)
(* latched (canopen_service_update_drive_state).                           *)
THEOREM AcknowledgedExits == Spec => AcknowledgedExit
  <1> DEFINE Left == drive = "FAULT" /\ drive' # "FAULT" /\ latched = {}
  <1>1. IInv /\ [Next]_vars /\ Left => ~unacknowledged
    <2> SUFFICES ASSUME IInv, [Next]_vars, Left PROVE ~unacknowledged
      OBVIOUS
    <2>1. pc \in {"exit", "recoverSet"}
      <3> USE DEF IInv, TypeOK, AppFrame, ServiceFrame, IsrFrame, CallFrame, UpdateFrame,
         Step, StoreReady, appVars, faultVars, networkVars, latchVars, reportVars, callVars
      <3>1. CASE UpdateFaulted
        BY <3>1, SMT DEF UpdateFaulted
      <3>2. CASE UpdateNothing
        BY <3>2, SMT DEF UpdateNothing
      <3>3. CASE UpdateCalibrated
        BY <3>3, SMT DEF UpdateCalibrated
      <3>4. CASE UpdateDwelt
        BY <3>4, SMT DEF UpdateDwelt
      <3>5. CASE RampStop
        BY <3>5, SMT DEF RampStop
      <3>6. CASE DebugIdle
        BY <3>6, SMT DEF DebugIdle
      <3>7. CASE DebugCommand
        BY <3>7, SMT DEF DebugCommand
      <3>8. CASE ResetRequested
        BY <3>8, SMT DEF ResetRequested
      <3>9. CASE ReceiveAny
        BY <3>9, SMT DEF ReceiveAny, Receive, ResetEdge, InterruptIsFaster, Speeds
      <3>10. CASE LookFaulted
        BY <3>10, SMT DEF LookFaulted, LookAt, IsFaulted
      <3>11. CASE LookExit
        BY <3>11, SMT DEF LookExit, LookAt, IsFaulted
      <3>12. CASE LookOffline
        BY <3>12, SMT DEF LookOffline, LookAt, IsFaulted
      <3>13. CASE LookHealthy
        BY <3>13, SMT DEF LookHealthy, LookAt, IsFaulted
      <3>14. CASE StopDrive
        BY <3>14, SMT DEF StopDrive
      <3>15. CASE StopCurrent
        BY <3>15, SMT DEF StopCurrent
      <3>16. CASE StopSpeed
        BY <3>16, SMT DEF StopSpeed
      <3>17. CASE Stopped
        BY <3>17, SMT DEF Stopped, ExitIsClean, StopPcs
      <3>18. CASE ClearLook
        BY <3>18, SMT DEF ClearLook
      <3>19. CASE ClearSet
        BY <3>19, SMT DEF ClearSet
      <3>20. CASE ExitFault
        BY <3>20, SMT DEF ExitFault
      <3>21. CASE RecoverLook
        BY <3>21, SMT DEF RecoverLook
      <3>22. CASE RecoverSet
        BY <3>22, SMT DEF RecoverSet
      <3>23. CASE LeaveEnabled
        BY <3>23, SMT DEF LeaveEnabled, Asked, Moves, Enabled, RunningIsOwned
      <3>24. CASE EnterEnabled
        BY <3>24, SMT DEF EnterEnabled, Asked, Moves, Enabled, RunningIsOwned
      <3>25. CASE Move
        BY <3>25, SMT DEF Move, Asked, Moves, Enabled, RunningIsOwned
      <3>26. CASE Start
        BY <3>26, SMT DEF Start, RunningIsOwned
      <3>27. CASE StartRun
        BY <3>27, SMT DEF StartRun, RunningState, RunningIsOwned
      <3>28. CASE Command
        BY <3>28, SMT DEF Command, References
      <3>29. CASE Report
        BY <3>29, SMT DEF Report
      <3>30. CASE IsrFault
        BY <3>30, SMT DEF IsrFault
      <3>31. CASE IsrServe
        BY <3>31, SMT DEF IsrServe
      <3>32. CASE UNCHANGED vars
        BY <3>32, SMT DEF vars
      <3> QED
        BY <3>1, <3>2, <3>3, <3>4, <3>5, <3>6, <3>7, <3>8, <3>9, <3>10, <3>11, <3>12, <3>13,
           <3>14, <3>15, <3>16, <3>17, <3>18, <3>19, <3>20, <3>21, <3>22, <3>23, <3>24,
           <3>25, <3>26, <3>27, <3>28, <3>29, <3>30, <3>31, <3>32 DEF Next, MainStep,
           Process
    <2> QED
      BY <2>1, SMT DEF IInv, ExitIsClean, UnnoticedIsLatched
  <1>2. IInv /\ [Next]_vars => [Left => ~unacknowledged]_vars
    BY <1>1
  <1> QED
    BY <1>2, Inductive, PTL DEF Spec, AcknowledgedExit

(* The service never stops a drive that another source has started          *)
(* (canopen_service_owns_drive).                                           *)
THEOREM OthersRun == Spec => OthersKeepRunning
  <1> DEFINE Stops == /\ starter = "debug" /\ app \in Running /\ app' \notin Running
                      /\ pc \in UpdatePcs
             Latches == latched' # {}
  <1>1. IInv /\ CallsAreCoherent /\ [Next]_vars /\ Stops => Latches
    <2> SUFFICES ASSUME IInv, CallsAreCoherent, [Next]_vars, Stops PROVE Latches
      OBVIOUS
    <2>1. starter = "debug" /\ app \in Running /\ latched = {}
      BY DEF CallsAreCoherent, RecoveryIsDecided
    <2>2. pc \notin {"stopCurrent", "stopSpeed", "recoverSet"}
      BY <2>1, SMT DEF CallsAreCoherent, RecoveryIsDecided, IInv, RunningIsOwned, Running
    <2> USE DEF AppFrame, ServiceFrame, IsrFrame, CallFrame, UpdateFrame, Step, StoreReady, appVars,
       faultVars, networkVars, latchVars, reportVars, callVars
    <2>3. CASE IsrFault
      BY <2>3 DEF IsrFault
    <2>4. CASE IsrServe
      BY <2>1, <2>4 DEF IsrServe
    <2>5. CASE MainStep
      BY <2>2, <2>5, SMT
      DEF UpdatePcs, MainStep, Process, UpdateFaulted, UpdateNothing, UpdateCalibrated,
          UpdateDwelt, RampStop, DebugIdle, DebugCommand, ResetRequested, ReceiveAny,
          Receive, LookAt, LookFaulted, LookExit, LookOffline, LookHealthy, StopDrive,
          StopCurrent, StopSpeed, Stopped, ClearLook, ClearSet, ExitFault, RecoverLook,
          RecoverSet, LeaveEnabled, EnterEnabled, Move, Start, StartRun, RunningState,
          Running, Command, Report
    <2>6. CASE UNCHANGED vars
      BY <2>6 DEF vars
    <2> QED
      BY <2>3, <2>4, <2>5, <2>6 DEF Next
  <1>2. IInv /\ CallsAreCoherent /\ [Next]_vars => [Stops => Latches]_vars
    BY <1>1
  <1> QED
    BY <1>2, Inductive, Coherent, PTL DEF Spec, OthersKeepRunning

(* An error code precedes the FAULT state on the bus by one call at most     *)
(* (canopen_service_fault_error_code, canopen_service_process).            *)
THEOREM ReportsSettle == Spec => ReportSettles
  <1> DEFINE Again == /\ error_code # "NONE" /\ statusword # "FAULT" /\ error_code' # "NONE"
                      /\ pc = "report" /\ pc' = "update"
             Settled == statusword' = "FAULT"
  <1>1. IInv /\ CallsAreCoherent /\ [Next]_vars /\ Again => Settled
    <2> SUFFICES ASSUME IInv, CallsAreCoherent, [Next]_vars, Again PROVE Settled
      OBVIOUS
    <2>1. drive = "FAULT"
      BY SMT DEF CallsAreCoherent, LagIsOneCall, StopPcs, RestPcs
    <2> USE DEF AppFrame, ServiceFrame, IsrFrame, CallFrame, UpdateFrame, Step, StoreReady, appVars,
       faultVars, networkVars, latchVars, reportVars, callVars
    <2>2. Report
      BY SMT
      DEF Next, MainStep, Process, UpdateFaulted, UpdateNothing, UpdateCalibrated,
          UpdateDwelt, RampStop, DebugIdle, DebugCommand, ResetRequested, ReceiveAny,
          Receive, LookAt, LookFaulted, LookExit, LookOffline, LookHealthy, StopDrive,
          StopCurrent, StopSpeed, Stopped, ClearLook, ClearSet, ExitFault, RecoverLook,
          RecoverSet, LeaveEnabled, EnterEnabled, Move, Start, StartRun, Command,
          IsrFault, IsrServe, vars
    <2> QED
      BY <2>1, <2>2 DEF Report
  <1>2. IInv /\ CallsAreCoherent /\ [Next]_vars => [Again => Settled]_vars
    BY <1>1
  <1> QED
    BY <1>2, Inductive, Coherent, PTL DEF Spec, ReportSettles

(* What the App promises its callers.                                      *)
AppStep == [App!Next]_(App!avars)

(* The contract sees five variables of the model.                          *)
LEMMA UnseenStep == UNCHANGED <<appVars, faultVars>> => AppStep
  BY DEF AppStep, App!avars, App!drive, App!fault, appVars, faultVars

(* Every step of service, debug source and interrupt uses the App as the    *)
(* contract lets it.                                                       *)
LEMMA ContractStep ==
  IInv /\ CallsAreCoherent /\ [Next]_vars => AppStep
  <1> SUFFICES ASSUME IInv, CallsAreCoherent, [Next]_vars PROVE AppStep
    OBVIOUS
  <1> USE DEF AppFrame, ServiceFrame, IsrFrame, CallFrame, UpdateFrame, Step, StoreReady,
     appVars, faultVars, networkVars, latchVars, reportVars, callVars
  <1>0. referenced' \in BOOLEAN
    BY TypeStep DEF IInv, TypeOK
  <1>1. CASE \/ UpdateNothing \/ DebugIdle \/ ResetRequested \/ ReceiveAny
             \/ LookFaulted \/ LookExit \/ LookOffline \/ LookHealthy
             \/ Stopped \/ ClearLook \/ ExitFault \/ RecoverLook
             \/ LeaveEnabled \/ EnterEnabled \/ Move \/ Report \/ UNCHANGED vars
    BY <1>1, UnseenStep
    DEF UpdateNothing, DebugIdle, ResetRequested, ReceiveAny, Receive, LookFaulted,
        LookExit, LookOffline, LookHealthy, LookAt, Stopped, ClearLook, ExitFault,
        RecoverLook, LeaveEnabled, EnterEnabled, Move, Report, vars
  <1>2. CASE UpdateFaulted
    BY <1>2, SMT DEF UpdateFaulted, App!Fault, AppStep, App!Next, App!drive, App!fault,
       App!Running, App!States, CallsAreCoherent, OperationIsMeant, OperationPcs,
       RecoveryIsDecided, Running, AppStates, IInv, TypeOK
  <1>3. CASE UpdateCalibrated
    BY <1>3, SMT DEF UpdateCalibrated, App!Calibrate, AppStep, App!Next, App!drive,
       App!fault, App!Running, App!States, CallsAreCoherent, OperationIsMeant,
       OperationPcs, RecoveryIsDecided, Running, AppStates, IInv, TypeOK
  <1>4. CASE UpdateDwelt
    BY <1>0, <1>4, SMT DEF UpdateDwelt, App!Refer, AppStep, App!Next, App!drive, App!fault,
       App!Running, App!States, CallsAreCoherent, OperationIsMeant, OperationPcs,
       RecoveryIsDecided, Running, AppStates, IInv, TypeOK
  <1>5. CASE RampStop
    BY <1>5, SMT DEF RampStop, App!Stop, App!Overtaken, App!avars, AppStep, App!Next,
       App!drive, App!fault, App!Running, App!States, CallsAreCoherent,
       OperationIsMeant, OperationPcs, RecoveryIsDecided, Running, AppStates, IInv,
       TypeOK
  <1>6. CASE DebugCommand
    <2>1. CASE app = "READY" /\ latched = {} /\ app' \in Running
      BY <1>0, <1>6, <2>1, SMT
      DEF DebugCommand, App!Start, AppStep, App!Next, App!drive, App!fault, App!Running,
          CallsAreCoherent, OperationIsMeant, Running
    <2>2. CASE app \in Running /\ UNCHANGED app
      BY <1>0, <1>6, <2>2, SMT
      DEF DebugCommand, App!Refer, AppStep, App!Next, App!drive, App!fault, App!Running,
          Running
    <2>3. CASE /\ app \in Running /\ starter = "debug" /\ referenced' = FALSE
               /\ app' = IF app = "CURRENT_RUNNING" THEN "READY" ELSE "RAMP_TO_ZERO"
      <3>1. referenced' \in {referenced, FALSE}
        BY <2>3
      <3>2. UNCHANGED <<calibrated, latched, clear_requested>>
        BY <1>6 DEF DebugCommand
      <3>3. latched = {}
        BY <2>3 DEF CallsAreCoherent, RecoveryIsDecided
      <3>4. <<app, app'>> \in {<<"CURRENT_RUNNING", "READY">>,
                               <<"SPEED_RUNNING", "RAMP_TO_ZERO">>,
                               <<"RAMP_TO_ZERO", "READY">>}
        BY <2>3 DEF Running
      <3>5. App!Stop
        BY <3>1, <3>2, <3>3, <3>4, Zenon DEF App!Stop, App!fault
      <3> QED
        BY <3>5 DEF AppStep, App!Next
    <2> QED
      BY <1>6, <2>1, <2>2, <2>3 DEF DebugCommand
  <1>7. CASE StopDrive
    <2>1. CASE UNCHANGED referenced
      BY <1>7, <2>1, UnseenStep DEF StopDrive
    <2>2. CASE app \in Running
      BY <1>0, <1>7, <2>2, SMT DEF StopDrive, App!Refer, AppStep, App!Next, App!drive,
         App!fault, App!Running, Running
    <2> QED
      BY <1>7, <2>1, <2>2 DEF StopDrive
  <1>8. CASE StopCurrent
    BY <1>8, SMT DEF StopCurrent, App!Stop, App!Overtaken, App!avars, AppStep, App!Next,
       App!drive, App!fault, App!Running, App!States, CallsAreCoherent,
       OperationIsMeant, OperationPcs, RecoveryIsDecided, Running, AppStates, IInv,
       TypeOK
  <1>9. CASE StopSpeed
    BY <1>9, SMT DEF StopSpeed, App!Stop, App!Overtaken, AppStep, App!Next, App!drive,
       App!fault, App!Running, App!States, CallsAreCoherent, OperationIsMeant,
       OperationPcs, RecoveryIsDecided, Running, AppStates, IInv, TypeOK
  <1>10. CASE ClearSet
    BY <1>10, SMT DEF ClearSet, ClearIsOwed, App!RequestClear, AppStep, App!Next,
       App!drive, App!fault, App!Running, App!States, CallsAreCoherent,
       OperationIsMeant, OperationPcs, RecoveryIsDecided, Running, AppStates, IInv,
       TypeOK
  <1>11. CASE RecoverSet
    BY <1>11, SMT DEF RecoverSet, App!Recover, App!Overtaken, AppStep, App!Next,
       App!drive, App!fault, App!Running, App!States, CallsAreCoherent,
       OperationIsMeant, OperationPcs, RecoveryIsDecided, Running, AppStates, IInv,
       TypeOK
  <1>12. CASE Start
    BY <1>0, <1>12, SMT DEF Start, App!Refer, App!avars, AppStep, App!Next, App!drive,
       App!fault, App!Running, App!States, CallsAreCoherent, OperationIsMeant,
       OperationPcs, RecoveryIsDecided, Running, AppStates, IInv, TypeOK
  <1>13. CASE StartRun
    BY <1>13, SMT DEF StartRun, RunningState, App!Start, App!Overtaken, App!Fault,
       AppStep, App!Next, App!drive, App!fault, App!Running, App!States,
       CallsAreCoherent, OperationIsMeant, OperationPcs, RecoveryIsDecided, Running,
       AppStates, IInv, TypeOK
  <1>14. CASE Command
    <2>1. CASE UNCHANGED referenced
      BY <1>14, <2>1, UnseenStep DEF Command
    <2>2. CASE app = RunningState
      BY <1>0, <1>14, <2>2 DEF Command, RunningState, App!Refer, AppStep, App!Next, App!drive,
         App!fault, App!Running, TypeOK
    <2> QED
      BY <1>14, <2>1, <2>2 DEF Command
  <1>15. CASE IsrFault
    BY <1>15, SMT DEF IsrFault, App!Fault, AppStep, App!Next, App!drive, App!fault,
       App!Running, App!States, CallsAreCoherent, OperationIsMeant, OperationPcs,
       RecoveryIsDecided, Running, AppStates, IInv, TypeOK
  <1>16. CASE IsrServe
    BY <1>16, SMT DEF IsrServe, App!Fault, App!Clear, AppStep, App!Next, App!drive,
       App!fault, App!Running, App!States, CallsAreCoherent, OperationIsMeant,
       OperationPcs, RecoveryIsDecided, Running, AppStates, IInv, TypeOK
  <1> QED
    BY <1>1, <1>2, <1>3, <1>4, <1>5, <1>6, <1>7, <1>8, <1>9, <1>10, <1>11, <1>12, <1>13,
       <1>14, <1>15, <1>16 DEF Next, MainStep, Process

(* The App as the service takes it to be is the App of the contract that    *)
(* DriveLifecycle keeps.                                                   *)
THEOREM ServiceKeepsContract == Spec => KeepsContract
  <1>1. Init => App!Init
    BY DEF Init, App!Init
  <1> QED
    BY <1>1, ContractStep, Inductive, Coherent, PTL
    DEF Spec, AppStep, KeepsContract, App!Spec

-----------------------------------------------------------------------------
(* FAULT is left again.                                                    *)

(* FAULT, with nothing left that would hold it.                            *)
Stuck == latched = {} /\ ~overspeed /\ ~rpdo /\ drive = "FAULT"

(* The turn of the main loop as it is while FAULT lasts.                   *)
Turn == {<<"update", "debug">>, <<"update", "rampStop">>, <<"rampStop", "debug">>,
         <<"debug", "receive">>, <<"receive", "look">>, <<"receive", "update">>,
         <<"look", "exit">>, <<"exit", "recover">>, <<"exit", "report">>,
         <<"recover", "recoverSet">>, <<"recover", "report">>, <<"report", "update">>,
         <<"stop", "stopped">>, <<"stopped", "report">>, <<"command", "report">>}

(* While FAULT lasts, main takes the turn, the App comes to READY or stays,  *)
(* and neither a READY nor a FAULTED App is passed over.                   *)
Keeps ==
  /\ <<pc, pc'>> \in Turn
  /\ app' = app \/ (app \in {"CALIBRATION", "RAMP_TO_ZERO"} /\ app' = "READY")
  /\ pc = "exit" => app # "READY" /\ (app = "FAULTED" => pc' = "recover")
  /\ pc = "recover" /\ app = "FAULTED" => pc' = "recoverSet"
  /\ pc = "rampStop" => app' = "READY"

(* Every step of main does, that does not end FAULT.                        *)
LEMMA StuckStep ==
  ASSUME IInv, CallsAreCoherent, Stuck, MainStep, Stuck', ~DebugSource
  PROVE  Keeps
  <1> USE DEF Keeps, Turn, Stuck, CallsAreCoherent, RecoveryIsDecided, RecoveryIsPending,
     OperationIsMeant, IInv, TypeOK, ClearIsOwed, ExitIsClean, RunningIsOwned, StopPcs,
     RestPcs, OperationPcs, Running, Enabled, OwnsDrive, AppFrame, ServiceFrame, CallFrame,
     UpdateFrame, Step, appVars, faultVars, networkVars, latchVars, reportVars, callVars
  <1>1. CASE UpdateFaulted
    BY <1>1, SMT DEF UpdateFaulted
  <1>2. CASE UpdateNothing
    BY <1>2, SMT DEF UpdateNothing
  <1>3. CASE UpdateCalibrated
    BY <1>3, SMT DEF UpdateCalibrated
  <1>4. CASE UpdateDwelt
    BY <1>4, SMT DEF UpdateDwelt
  <1>5. CASE RampStop
    BY <1>5, SMT DEF RampStop, StoreReady
  <1>6. CASE DebugIdle
    BY <1>6, SMT DEF DebugIdle
  <1>7. CASE DebugCommand
    BY <1>7, SMT DEF DebugCommand
  <1>8. CASE ResetRequested
    BY <1>8, SMT DEF ResetRequested
  <1>9. CASE ReceiveAny
    BY <1>9, SMT DEF ReceiveAny, Receive, ResetEdge, InterruptIsFaster, Speeds
  <1>10. CASE LookFaulted
    BY <1>10, SMT DEF LookFaulted, LookAt, IsFaulted
  <1>11. CASE LookExit
    BY <1>11, SMT DEF LookExit, LookAt, IsFaulted
  <1>12. CASE LookOffline
    BY <1>12, SMT DEF LookOffline, LookAt, IsFaulted
  <1>13. CASE LookHealthy
    BY <1>13, SMT DEF LookHealthy, LookAt, IsFaulted
  <1>14. CASE StopDrive
    BY <1>14, SMT DEF StopDrive
  <1>15. CASE StopCurrent
    BY <1>15, SMT DEF StopCurrent, StoreReady
  <1>16. CASE StopSpeed
    BY <1>16, SMT DEF StopSpeed
  <1>17. CASE Stopped
    BY <1>17, SMT DEF Stopped
  <1>18. CASE ClearLook
    BY <1>18, SMT DEF ClearLook
  <1>19. CASE ClearSet
    BY <1>19, SMT DEF ClearSet
  <1>20. CASE ExitFault
    BY <1>20, SMT DEF ExitFault
  <1>21. CASE RecoverLook
    BY <1>21, SMT DEF RecoverLook
  <1>22. CASE RecoverSet
    BY <1>22, SMT DEF RecoverSet
  <1>23. CASE LeaveEnabled
    BY <1>23, SMT DEF LeaveEnabled, Enabled
  <1>24. CASE EnterEnabled
    BY <1>24, SMT DEF EnterEnabled
  <1>25. CASE Move
    BY <1>25, SMT DEF Move
  <1>26. CASE Start
    BY <1>26, SMT DEF Start
  <1>27. CASE StartRun
    BY <1>27, SMT DEF StartRun, RunningState
  <1>28. CASE Command
    BY <1>28, SMT DEF Command, References
  <1>29. CASE Report
    BY <1>29, SMT DEF Report
  <1> QED
    BY <1>1, <1>2, <1>3, <1>4, <1>5, <1>6, <1>7, <1>8, <1>9, <1>10, <1>11, <1>12, <1>13,
       <1>14, <1>15, <1>16, <1>17, <1>18, <1>19, <1>20, <1>21, <1>22, <1>23, <1>24,
       <1>25, <1>26, <1>27, <1>28, <1>29 DEF MainStep, Process

(* The interrupt does nothing to it, or ends it with another fault.         *)
LEMMA StuckApart ==
  ASSUME Stuck, [Next]_vars, Stuck', ~MainStep
  PROVE  UNCHANGED <<pc, app>>
<1>1. CASE IsrFault BY <1>1 DEF Stuck, IsrFault
<1>2. CASE IsrServe BY <1>2 DEF Stuck, IsrServe
<1>3. CASE UNCHANGED vars BY <1>3 DEF vars, appVars
<1>4. QED BY <1>1, <1>2, <1>3 DEF Next

(* How many steps of main, at most, to the next app_drive_update(), and to   *)
(* the next canopen_service_process().                                     *)
ToUpdate ==
  IF pc = "update" THEN 0 ELSE
  IF pc \in {"report", "recoverSet"} THEN 1 ELSE
  IF pc \in {"recover", "stopped", "command"} THEN 2 ELSE
  IF pc \in {"exit", "stop"} THEN 3 ELSE
  IF pc = "look" THEN 4 ELSE
  IF pc = "receive" THEN 5 ELSE
  IF pc = "debug" THEN 6 ELSE 7

ToReceive ==
  IF pc = "receive" THEN 0 ELSE
  IF pc = "debug" THEN 1 ELSE
  IF pc = "rampStop" THEN 2 ELSE
  IF pc = "update" THEN 3 ELSE
  IF pc \in {"report", "recoverSet"} THEN 4 ELSE
  IF pc \in {"recover", "stopped", "command"} THEN 5 ELSE
  IF pc \in {"exit", "stop"} THEN 6 ELSE 7

UpdateWithin(n)  == Stuck /\ ToUpdate <= n
ReceiveWithin(n) == Stuck /\ ToReceive <= n

(* While FAULT lasts, every step of main comes nearer to both.              *)
LEMMA TurnsOn ==
  ASSUME ~DebugSource, NEW n \in 1..7, IInv, CallsAreCoherent, [Next]_vars, Stuck'
  PROVE  /\ UpdateWithin(n) => pc = "update" \/ UpdateWithin(n)'
         /\ UpdateWithin(n) /\ MainStep => pc = "update" \/ UpdateWithin(n - 1)'
         /\ ReceiveWithin(n) => pc = "receive" \/ ReceiveWithin(n)'
         /\ ReceiveWithin(n) /\ MainStep => pc = "receive" \/ ReceiveWithin(n - 1)'
<1>1. ASSUME Stuck, MainStep
      PROVE  /\ pc = "update" \/ ToUpdate' < ToUpdate
             /\ pc = "receive" \/ ToReceive' < ToReceive
  <2>1. <<pc, pc'>> \in Turn BY <1>1, StuckStep DEF Keeps
  <2>2. \/ pc = "update" /\ pc' \in {"debug", "rampStop"}
        \/ pc = "rampStop" /\ pc' = "debug"
        \/ pc = "debug" /\ pc' = "receive"
        \/ pc = "receive" /\ pc' \in {"look", "update"}
        \/ pc = "look" /\ pc' = "exit"
        \/ pc = "exit" /\ pc' \in {"recover", "report"}
        \/ pc = "recover" /\ pc' \in {"recoverSet", "report"}
        \/ pc = "report" /\ pc' = "update"
        \/ pc = "stop" /\ pc' = "stopped"
        \/ pc \in {"stopped", "command"} /\ pc' = "report"
    BY <2>1 DEF Turn
  <2>3. QED BY <2>2 DEF ToUpdate, ToReceive
<1>2. ASSUME Stuck, ~MainStep
      PROVE  ToUpdate' = ToUpdate /\ ToReceive' = ToReceive
  BY <1>2, StuckApart DEF ToUpdate, ToReceive
<1>3. ToUpdate \in Nat /\ ToUpdate' \in Nat /\ ToReceive \in Nat /\ ToReceive' \in Nat
  BY DEF ToUpdate, ToReceive
<1>4. QED BY <1>1, <1>2, <1>3 DEF UpdateWithin, ReceiveWithin

(* So that one comes again and again, while FAULT lasts.                     *)
LEMMA UpdateComes ==
  ASSUME ~DebugSource
  PROVE  FairSpec /\ []NobodyWaits => []<>(~Stuck \/ pc = "update")
<1>1. IInv /\ CallsAreCoherent /\ UpdateWithin(1) /\ [Next]_vars
          => ~Stuck' \/ pc = "update" \/ UpdateWithin(1)'
  BY TurnsOn
<1>2. IInv /\ CallsAreCoherent /\ UpdateWithin(1) /\ <<MainStep>>_vars
          => ~Stuck' \/ pc = "update" \/ UpdateWithin(0)'
  BY TurnsOn DEF Next
<1>3. IInv /\ CallsAreCoherent /\ UpdateWithin(2) /\ [Next]_vars
          => ~Stuck' \/ pc = "update" \/ UpdateWithin(2)'
  BY TurnsOn
<1>4. IInv /\ CallsAreCoherent /\ UpdateWithin(2) /\ <<MainStep>>_vars
          => ~Stuck' \/ pc = "update" \/ UpdateWithin(1)'
  BY TurnsOn DEF Next
<1>5. IInv /\ CallsAreCoherent /\ UpdateWithin(3) /\ [Next]_vars
          => ~Stuck' \/ pc = "update" \/ UpdateWithin(3)'
  BY TurnsOn
<1>6. IInv /\ CallsAreCoherent /\ UpdateWithin(3) /\ <<MainStep>>_vars
          => ~Stuck' \/ pc = "update" \/ UpdateWithin(2)'
  BY TurnsOn DEF Next
<1>7. IInv /\ CallsAreCoherent /\ UpdateWithin(4) /\ [Next]_vars
          => ~Stuck' \/ pc = "update" \/ UpdateWithin(4)'
  BY TurnsOn
<1>8. IInv /\ CallsAreCoherent /\ UpdateWithin(4) /\ <<MainStep>>_vars
          => ~Stuck' \/ pc = "update" \/ UpdateWithin(3)'
  BY TurnsOn DEF Next
<1>9. IInv /\ CallsAreCoherent /\ UpdateWithin(5) /\ [Next]_vars
          => ~Stuck' \/ pc = "update" \/ UpdateWithin(5)'
  BY TurnsOn
<1>10. IInv /\ CallsAreCoherent /\ UpdateWithin(5) /\ <<MainStep>>_vars
          => ~Stuck' \/ pc = "update" \/ UpdateWithin(4)'
  BY TurnsOn DEF Next
<1>11. IInv /\ CallsAreCoherent /\ UpdateWithin(6) /\ [Next]_vars
          => ~Stuck' \/ pc = "update" \/ UpdateWithin(6)'
  BY TurnsOn
<1>12. IInv /\ CallsAreCoherent /\ UpdateWithin(6) /\ <<MainStep>>_vars
          => ~Stuck' \/ pc = "update" \/ UpdateWithin(5)'
  BY TurnsOn DEF Next
<1>13. IInv /\ CallsAreCoherent /\ UpdateWithin(7) /\ [Next]_vars
          => ~Stuck' \/ pc = "update" \/ UpdateWithin(7)'
  BY TurnsOn
<1>14. IInv /\ CallsAreCoherent /\ UpdateWithin(7) /\ <<MainStep>>_vars
          => ~Stuck' \/ pc = "update" \/ UpdateWithin(6)'
  BY TurnsOn DEF Next
<1>15. UpdateWithin(0) => pc = "update"
  BY DEF UpdateWithin, ToUpdate
<1>16. Stuck => UpdateWithin(7)
  BY DEF UpdateWithin, ToUpdate
<1>17. QED
  BY <1>1, <1>2, <1>3, <1>4, <1>5, <1>6, <1>7, <1>8, <1>9, <1>10, <1>11, <1>12, <1>13, <1>14,
     <1>15, <1>16, Inductive, Coherent, PTL
  DEF FairSpec, Fairness, Spec, NobodyWaits, MainGoesOn

(* So that one comes again and again, while FAULT lasts.                     *)
LEMMA ReceiveComes ==
  ASSUME ~DebugSource
  PROVE  FairSpec /\ []NobodyWaits => []<>(~Stuck \/ pc = "receive")
<1>1. IInv /\ CallsAreCoherent /\ ReceiveWithin(1) /\ [Next]_vars
          => ~Stuck' \/ pc = "receive" \/ ReceiveWithin(1)'
  BY TurnsOn
<1>2. IInv /\ CallsAreCoherent /\ ReceiveWithin(1) /\ <<MainStep>>_vars
          => ~Stuck' \/ pc = "receive" \/ ReceiveWithin(0)'
  BY TurnsOn DEF Next
<1>3. IInv /\ CallsAreCoherent /\ ReceiveWithin(2) /\ [Next]_vars
          => ~Stuck' \/ pc = "receive" \/ ReceiveWithin(2)'
  BY TurnsOn
<1>4. IInv /\ CallsAreCoherent /\ ReceiveWithin(2) /\ <<MainStep>>_vars
          => ~Stuck' \/ pc = "receive" \/ ReceiveWithin(1)'
  BY TurnsOn DEF Next
<1>5. IInv /\ CallsAreCoherent /\ ReceiveWithin(3) /\ [Next]_vars
          => ~Stuck' \/ pc = "receive" \/ ReceiveWithin(3)'
  BY TurnsOn
<1>6. IInv /\ CallsAreCoherent /\ ReceiveWithin(3) /\ <<MainStep>>_vars
          => ~Stuck' \/ pc = "receive" \/ ReceiveWithin(2)'
  BY TurnsOn DEF Next
<1>7. IInv /\ CallsAreCoherent /\ ReceiveWithin(4) /\ [Next]_vars
          => ~Stuck' \/ pc = "receive" \/ ReceiveWithin(4)'
  BY TurnsOn
<1>8. IInv /\ CallsAreCoherent /\ ReceiveWithin(4) /\ <<MainStep>>_vars
          => ~Stuck' \/ pc = "receive" \/ ReceiveWithin(3)'
  BY TurnsOn DEF Next
<1>9. IInv /\ CallsAreCoherent /\ ReceiveWithin(5) /\ [Next]_vars
          => ~Stuck' \/ pc = "receive" \/ ReceiveWithin(5)'
  BY TurnsOn
<1>10. IInv /\ CallsAreCoherent /\ ReceiveWithin(5) /\ <<MainStep>>_vars
          => ~Stuck' \/ pc = "receive" \/ ReceiveWithin(4)'
  BY TurnsOn DEF Next
<1>11. IInv /\ CallsAreCoherent /\ ReceiveWithin(6) /\ [Next]_vars
          => ~Stuck' \/ pc = "receive" \/ ReceiveWithin(6)'
  BY TurnsOn
<1>12. IInv /\ CallsAreCoherent /\ ReceiveWithin(6) /\ <<MainStep>>_vars
          => ~Stuck' \/ pc = "receive" \/ ReceiveWithin(5)'
  BY TurnsOn DEF Next
<1>13. IInv /\ CallsAreCoherent /\ ReceiveWithin(7) /\ [Next]_vars
          => ~Stuck' \/ pc = "receive" \/ ReceiveWithin(7)'
  BY TurnsOn
<1>14. IInv /\ CallsAreCoherent /\ ReceiveWithin(7) /\ <<MainStep>>_vars
          => ~Stuck' \/ pc = "receive" \/ ReceiveWithin(6)'
  BY TurnsOn DEF Next
<1>15. ReceiveWithin(0) => pc = "receive"
  BY DEF ReceiveWithin, ToReceive
<1>16. Stuck => ReceiveWithin(7)
  BY DEF ReceiveWithin, ToReceive
<1>17. QED
  BY <1>1, <1>2, <1>3, <1>4, <1>5, <1>6, <1>7, <1>8, <1>9, <1>10, <1>11, <1>12, <1>13, <1>14,
     <1>15, <1>16, Inductive, Coherent, PTL
  DEF FairSpec, Fairness, Spec, NobodyWaits, MainGoesOn

(* The App has come to rest: it is READY, or a recovery will make it so.     *)
Rests  == Stuck /\ app \in {"READY", "FAULTED"}
InCal  == Stuck /\ app = "CALIBRATION"
InRamp == Stuck /\ app = "RAMP_TO_ZERO"
AtStop == InRamp /\ pc = "rampStop"

(* A calibration or a speed stop under FAULT ends in READY, and an App at    *)
(* rest stays there.                                                       *)
LEMMA RestStep ==
  ASSUME ~DebugSource, IInv, CallsAreCoherent, [Next]_vars, Stuck'
  PROVE  /\ Rests => Rests'
         /\ InCal => InCal' \/ Rests'
         /\ InCal /\ UpdateCalibrated => Rests'
         /\ InRamp => InRamp' \/ Rests'
         /\ InRamp /\ UpdateDwelt => AtStop'
         /\ AtStop => AtStop' \/ Rests'
         /\ AtStop /\ MainStep => Rests'
<1> USE DEF Rests, InCal, InRamp, AtStop
<1>1. Stuck /\ MainStep => app' = app \/ (app \in {"CALIBRATION", "RAMP_TO_ZERO"} /\ app' = "READY")
  BY StuckStep DEF Keeps
<1>2. Stuck /\ ~MainStep => app' = app /\ pc' = pc
  BY StuckApart
<1>3. AtStop /\ MainStep => app' = "READY"
  BY StuckStep DEF Keeps
<1>4. UpdateCalibrated => app' = "READY"
  BY DEF UpdateCalibrated
<1>5. InRamp /\ UpdateDwelt => app' = "RAMP_TO_ZERO" /\ pc' = "rampStop"
  BY DEF UpdateDwelt, Step
<1>6. QED
  BY <1>1, <1>2, <1>3, <1>4, <1>5

(* Under FAULT nothing runs, so the App rests or comes to rest.             *)
LEMMA NothingRuns ==
  ASSUME ~DebugSource, IInv, CallsAreCoherent, Stuck
  PROVE  Rests \/ InCal \/ InRamp
<1>1. app \notin Running
  BY DEF Stuck, IInv, TypeOK, RunningIsOwned, CallsAreCoherent, RecoveryIsPending, OwnsDrive,
         Enabled
<1>2. QED BY <1>1 DEF IInv, TypeOK, AppStates, Running, Rests, InCal, InRamp

(* So it comes to rest, while FAULT lasts.                                  *)
LEMMA AppRests ==
  ASSUME ~DebugSource
  PROVE  FairSpec /\ []NobodyWaits => (Stuck ~> ~Stuck \/ Rests)
<1>1. IInv /\ CallsAreCoherent /\ Rests /\ [Next]_vars => ~Stuck' \/ Rests'
  BY RestStep
<1>2. IInv /\ CallsAreCoherent /\ InCal /\ [Next]_vars => ~Stuck' \/ InCal' \/ Rests'
  BY RestStep
<1>3. IInv /\ CallsAreCoherent /\ InCal /\ <<UpdateCalibrated>>_vars => ~Stuck' \/ Rests'
  BY RestStep DEF Next, MainStep
<1>4. IInv /\ CallsAreCoherent /\ InRamp /\ [Next]_vars => ~Stuck' \/ InRamp' \/ Rests'
  BY RestStep
<1>5. IInv /\ CallsAreCoherent /\ InRamp /\ <<UpdateDwelt>>_vars => ~Stuck' \/ AtStop'
  BY RestStep DEF Next, MainStep
<1>6. IInv /\ CallsAreCoherent /\ AtStop /\ [Next]_vars => ~Stuck' \/ AtStop' \/ Rests'
  BY RestStep
<1>7. IInv /\ CallsAreCoherent /\ AtStop /\ <<MainStep>>_vars => ~Stuck' \/ Rests'
  BY RestStep DEF Next
<1>8. IInv /\ CallsAreCoherent /\ Stuck => Rests \/ InCal \/ InRamp
  BY NothingRuns
<1>9. InCal => Stuck /\ latched = {} /\ app = "CALIBRATION"
  BY DEF InCal, Stuck
<1>10. InRamp => Stuck /\ latched = {} /\ app = "RAMP_TO_ZERO"
  BY DEF InRamp, Stuck
<1>11. AtStop => InRamp
  BY DEF AtStop
<1>12. QED
  BY <1>1, <1>2, <1>3, <1>4, <1>5, <1>6, <1>7, <1>8, <1>9, <1>10, <1>11, UpdateComes,
     Inductive, Coherent, PTL
  DEF FairSpec, Fairness, Spec, NobodyWaits, MainGoesOn, CalibrationGoesOn, DwellGoesOn

(* How many steps of main, at most, a call of process() still takes to leave *)
(* FAULT, with the App at rest.                                            *)
ExitDistance ==
  IF pc = "recoverSet" THEN 1 ELSE
  IF pc = "recover" /\ app = "FAULTED" THEN 2 ELSE
  IF pc = "exit" THEN 3 ELSE
  IF pc = "look" THEN 4 ELSE 5

ExitWithin(n) == Rests /\ ExitDistance <= n

(* A call that finds the App at rest gets ever nearer.                      *)
LEMMA ExitNears ==
  ASSUME ~DebugSource, NEW n \in 1..4, IInv, CallsAreCoherent, [Next]_vars, Stuck'
  PROVE  /\ ExitWithin(n) => ExitWithin(n)'
         /\ ExitWithin(n) /\ MainStep => ExitWithin(n - 1)'
         /\ Rests /\ ReceiveAny => ExitWithin(4)'
<1>1. Rests => Rests' BY RestStep
<1>2. ASSUME Rests, MainStep, ExitDistance <= 4 PROVE ExitDistance' < ExitDistance
  <2>1. Keeps BY <1>2, StuckStep DEF Rests
  <2>2. \/ pc = "look" /\ pc' = "exit"
        \/ pc = "exit" /\ pc' = "recover" /\ app' = "FAULTED"
        \/ pc = "recover" /\ app = "FAULTED" /\ pc' = "recoverSet"
    BY <1>2, <2>1 DEF Keeps, Turn, Rests, ExitDistance
  <2>3. QED BY <2>2 DEF ExitDistance
<1>3. Rests /\ ~MainStep => ExitDistance' = ExitDistance
  BY StuckApart DEF Rests, ExitDistance
<1>4. ReceiveAny => pc' = "look"
  BY DEF ReceiveAny, Receive, Step
<1>5. ExitDistance \in Nat /\ ExitDistance' \in Nat
  BY DEF ExitDistance
<1>6. pc' = "look" => ExitDistance' = 4
  BY DEF ExitDistance
<1>7. QED BY <1>1, <1>2, <1>3, <1>4, <1>5, <1>6 DEF ExitWithin

(* Once no fault remains latched FAULT is always left again: the calls come, *)
(* the App comes to rest, and a call that finds it so gets the drive out.    *)
THEOREM FaultIsLeft ==
  ASSUME ~DebugSource
  PROVE  FairSpec /\ []NobodyWaits => FaultEnds
<1>1. IInv /\ CallsAreCoherent /\ ExitWithin(1) /\ [Next]_vars => ~Stuck' \/ ExitWithin(1)'
  BY ExitNears
<1>2. IInv /\ CallsAreCoherent /\ ExitWithin(1) /\ <<MainStep>>_vars
         => ~Stuck' \/ ExitWithin(0)'
  BY ExitNears DEF Next
<1>3. IInv /\ CallsAreCoherent /\ ExitWithin(2) /\ [Next]_vars => ~Stuck' \/ ExitWithin(2)'
  BY ExitNears
<1>4. IInv /\ CallsAreCoherent /\ ExitWithin(2) /\ <<MainStep>>_vars
         => ~Stuck' \/ ExitWithin(1)'
  BY ExitNears DEF Next
<1>5. IInv /\ CallsAreCoherent /\ ExitWithin(3) /\ [Next]_vars => ~Stuck' \/ ExitWithin(3)'
  BY ExitNears
<1>6. IInv /\ CallsAreCoherent /\ ExitWithin(3) /\ <<MainStep>>_vars
         => ~Stuck' \/ ExitWithin(2)'
  BY ExitNears DEF Next
<1>7. IInv /\ CallsAreCoherent /\ ExitWithin(4) /\ [Next]_vars => ~Stuck' \/ ExitWithin(4)'
  BY ExitNears
<1>8. IInv /\ CallsAreCoherent /\ ExitWithin(4) /\ <<MainStep>>_vars
         => ~Stuck' \/ ExitWithin(3)'
  BY ExitNears DEF Next
<1>9. ~ExitWithin(0)
  BY DEF ExitWithin, ExitDistance
<1>10. IInv /\ CallsAreCoherent /\ Rests /\ [Next]_vars => ~Stuck' \/ Rests'
  BY RestStep
<1>11. IInv /\ CallsAreCoherent /\ Rests /\ <<ReceiveAny>>_vars => ~Stuck' \/ ExitWithin(4)'
  BY ExitNears DEF Next, MainStep, Process
<1>12. Rests => Stuck
  BY DEF Rests
<1>13. Stuck => InterruptIsFaster
  BY DEF Stuck, InterruptIsFaster
<1>14. Stuck <=> (latched = {} /\ ~overspeed /\ ~rpdo) /\ ~(drive # "FAULT")
  BY DEF Stuck
<1>15. QED
  BY <1>1, <1>2, <1>3, <1>4, <1>5, <1>6, <1>7, <1>8, <1>9, <1>10, <1>11, <1>12, <1>13,
     <1>14, ReceiveComes, AppRests, Inductive, Coherent, PTL
  DEF FairSpec, Fairness, Spec, NobodyWaits, MainGoesOn, ReceiveGoesOn, FaultEnds

=============================================================================
