------------------------ MODULE ParameterStoreProofs ------------------------
(***************************************************************************)
(* For every set of parameters and every width of the generation counter:  *)
(* the inductive invariant of the parameter storage, and the proof that it *)
(* implements DurableParameters; that what is active is what runs and can  *)
(* be started from; and that an apply that was held back is served.        *)
(***************************************************************************)
EXTENDS ParameterStore, TLAPS

(* Every step keeps the types.                                             *)
LEMMA TypeStep ==
  ASSUME TypeOK, [Next]_vars PROVE TypeOK'
<1> USE SetsAssumption, HalfAssumption DEF TypeOK, Goto, Target, ramVars,
      mainVars, Kinds, Generations, Empty, Records, Record, Pcs, ErasePcs,
      SavePcs, Next32, Latest, Good
<1>1. CASE Boot
  <2>1. Latest \in {"none", "A", "B"}
    BY DEF Latest
  <2>2. /\ (IF Latest = "none" THEN Defaults ELSE slot[Latest].set) \in Sets
        /\ (IF Latest = "none" THEN 0 ELSE slot[Latest].generation) \in Generations
    BY SetsAssumption, HalfAssumption DEF Latest, Good, TypeOK, Records, Empty, Generations
  <2>3. /\ safe' \in BOOLEAN /\ is_safe_state' \in BOOLEAN /\ sampling' \in BOOLEAN
        /\ slot' = slot /\ requests' = {}
    BY <1>1, Zenon DEF Boot
  <2>4. working' \in Sets /\ active' \in Sets /\ controller' \in Sets /\ pc' \in Pcs
    BY <1>1, <2>2, SMT DEF Boot, TypeOK, Pcs
  <2>5. active_slot' \in {"none", "A", "B"} /\ active_generation' \in Generations
    BY <1>1, <2>1, <2>2, Zenon DEF Boot
  <2>6. QED
    BY <2>3, <2>4, <2>5, Zenon DEF TypeOK
<1>2. CASE LookSafe
  BY <1>2 DEF LookSafe
<1>3. CASE LookPending
  BY <1>3 DEF LookPending
<1>4. CASE StopSampling
  BY <1>4 DEF StopSampling
<1>5. CASE RestartSampling
  BY <1>5 DEF RestartSampling
<1>6. CASE NothingToDo
  BY <1>6 DEF NothingToDo
<1>7. CASE Load
  BY <1>7 DEF Load, Dispatch
<1>8. CASE LoadDefaults
  BY <1>8 DEF LoadDefaults, Dispatch
<1>9. CASE Apply
  BY <1>9 DEF Apply, Dispatch
<1>10. CASE ApplyCall
  BY <1>10 DEF ApplyCall
<1>11. CASE ApplyCopy
  BY <1>11 DEF ApplyCopy
<1>12. CASE Save
  BY <1>12 DEF Save, Dispatch
<1>13. CASE SaveErase
  BY <1>13 DEF SaveErase, Flash
<1>14. CASE SaveBody
  BY <1>14 DEF SaveBody, Flash
<1>15. CASE SaveMarker
  BY <1>15 DEF SaveMarker, Flash
<1>16. CASE Saved
  BY <1>16 DEF Saved
<1>17. CASE Erase
  BY <1>17 DEF Erase, Dispatch
<1>18. CASE EraseA
  BY <1>18 DEF EraseA, Flash
<1>19. CASE EraseB
  BY <1>19 DEF EraseB, Flash
<1>20. CASE Erased
  BY <1>20 DEF Erased
<1>21. CASE PowerLoss
  BY <1>21 DEF PowerLoss
<1>22. CASE DebuggerEdits
  BY <1>22 DEF DebuggerEdits, MailboxOpen
<1>23. CASE DebuggerRequests
  BY <1>23 DEF DebuggerRequests, MailboxOpen
<1>24. CASE DriveMoves
  BY <1>24 DEF DriveMoves
<1>25. CASE UNCHANGED vars
  BY <1>25 DEF vars
<1>26. QED
  BY <1>1, <1>2, <1>3, <1>4, <1>5, <1>6, <1>7, <1>8, <1>9, <1>10, <1>11, <1>12,
      <1>13, <1>14, <1>15, <1>16, <1>17, <1>18, <1>19, <1>20, <1>21, <1>22,
      <1>23, <1>24, <1>25 DEF Next, Main

(* What drive_parameter_record_select_latest() finds in slots that are in   *)
(* order: the unreported save if there is one, else the manager's own record, *)
(* else whatever is left.                                                  *)
LEMMA LatestIsRight ==
  ASSUME IInv
  PROVE  /\ Latest \in {"none", "A", "B"}
         /\ Latest = "none" => ~slot["A"].marker /\ ~slot["B"].marker
         /\ Latest # "none" => slot[Latest].marker
         /\ IsAttempt => Latest = Target
         /\ ~IsAttempt /\ Confirmed # NoSet => Latest = active_slot
         /\ Latest = "none" \/ Latest = Target \/ Latest = active_slot
<1> USE SetsAssumption, HalfAssumption DEF IInv, MarkedIsValid, Neighbours,
      Progress, TypeOK, Goto, Target, ramVars, mainVars, Kinds, Generations,
      Empty, Records, Record, Pcs, ErasePcs, SavePcs, Next32
<1>1. \A s \in {"A", "B"} : Good(s) <=> slot[s].marker
  BY DEF Good
<1>2. \A g \in Generations : Newer(Next32(g), g) /\ ~Newer(g, Next32(g))
  BY DEF Newer
<1>3. \A s \in {"A", "B"} : slot[s].generation \in Generations
  OBVIOUS
<1>4. QED
  BY <1>1, <1>2, <1>3 DEF Latest, IsAttempt, Confirmed

(* Every step keeps the slots in order.                                    *)
LEMMA InvariantStep ==
  ASSUME IInv, TypeOK', [Next]_vars PROVE MarkedIsValid' /\ Neighbours' /\ Progress'
<1> USE SetsAssumption, HalfAssumption DEF IInv, MarkedIsValid, Neighbours,
      Progress, TypeOK, Goto, Target, ramVars, mainVars, Kinds, Generations,
      Empty, Records, Record, Pcs, ErasePcs, SavePcs, Next32
<1>1. CASE Boot
  BY <1>1, LatestIsRight DEF Boot
<1>2. CASE LookSafe
  BY <1>2 DEF LookSafe
<1>3. CASE LookPending
  BY <1>3 DEF LookPending
<1>4. CASE StopSampling
  BY <1>4 DEF StopSampling
<1>5. CASE RestartSampling
  BY <1>5 DEF RestartSampling
<1>6. CASE NothingToDo
  BY <1>6 DEF NothingToDo
<1>7. CASE Load
  BY <1>7 DEF Load, Dispatch, Latest, Good, Newer
<1>8. CASE LoadDefaults
  BY <1>8 DEF LoadDefaults, Dispatch
<1>9. CASE Apply
  BY <1>9 DEF Apply, Dispatch
<1>10. CASE ApplyCall
  BY <1>10 DEF ApplyCall
<1>11. CASE ApplyCopy
  BY <1>11 DEF ApplyCopy
<1>12. CASE Save
  BY <1>12 DEF Save, Dispatch
<1>13. CASE SaveErase
  BY <1>13 DEF SaveErase, Flash
<1>14. CASE SaveBody
  BY <1>14 DEF SaveBody, Flash
<1>15. CASE SaveMarker
  BY <1>15 DEF SaveMarker, Flash
<1>16. CASE Saved
  BY <1>16 DEF Saved
<1>17. CASE Erase
  BY <1>17 DEF Erase, Dispatch
<1>18. CASE EraseA
  BY <1>18 DEF EraseA, Flash
<1>19. CASE EraseB
  BY <1>19 DEF EraseB, Flash
<1>20. CASE Erased
  BY <1>20 DEF Erased
<1>21. CASE PowerLoss
  BY <1>21 DEF PowerLoss
<1>22. CASE DebuggerEdits
  BY <1>22 DEF DebuggerEdits, MailboxOpen
<1>23. CASE DebuggerRequests
  BY <1>23 DEF DebuggerRequests, MailboxOpen
<1>24. CASE DriveMoves
  BY <1>24 DEF DriveMoves
<1>25. CASE UNCHANGED vars
  BY <1>25 DEF vars
<1>26. QED
  BY <1>1, <1>2, <1>3, <1>4, <1>5, <1>6, <1>7, <1>8, <1>9, <1>10, <1>11, <1>12,
      <1>13, <1>14, <1>15, <1>16, <1>17, <1>18, <1>19, <1>20, <1>21, <1>22,
      <1>23, <1>24, <1>25 DEF Next, Main

(* The storage is always in order.                                         *)
THEOREM Inductive == Spec => []IInv
<1>1. Init => IInv
  <2> SUFFICES ASSUME Init PROVE IInv
    OBVIOUS
  <2>1. safe \in BOOLEAN /\ is_safe_state \in BOOLEAN /\ sampling \in BOOLEAN
    BY Zenon DEF Init
  <2>2. slot \in [{"A", "B"} -> Records \cup {Empty}]
    BY DEF Init
  <2>3. TypeOK
    BY <2>1, <2>2, SetsAssumption, HalfAssumption, SMT DEF Init, TypeOK, Generations, Kinds, Pcs
  <2>4. \A s \in {"A", "B"} : ~slot[s].marker
    BY DEF Init, Empty
  <2>5. QED
    BY <2>3, <2>4
    DEF Init, IInv, MarkedIsValid, Neighbours, Progress, SavePcs, Target
<1>2. IInv /\ [Next]_vars => IInv'
  BY TypeStep, InvariantStep DEF IInv
<1>3. QED
  BY <1>1, <1>2, PTL DEF Spec

(* Every variable keeps its type.                                          *)
THEOREM TypeCorrect == Spec => []TypeOK
<1>1. IInv => TypeOK BY DEF IInv
<1>2. QED BY <1>1, Inductive, PTL

(* Every step is a step or a stutter of DurableParameters.                 *)
LEMMA RefinementStep ==
  ASSUME IInv, IInv', [Next]_vars PROVE [Durable!Next]_(Durable!dvars)
<1> USE SetsAssumption, HalfAssumption DEF IInv, MarkedIsValid, Neighbours,
      Progress, TypeOK, Goto, Target, ramVars, mainVars, Kinds, Generations,
      Empty, Records, Record, Pcs, ErasePcs, SavePcs, Next32, Durable!Next,
      Durable!dvars, Durable!Begin, Durable!Write, Durable!Confirm,
      Durable!FallBack, Durable!StartErase, Durable!EraseConfirmed,
      Durable!EraseOther, Durable!EndErase, Confirmed, IsAttempt, IsOlder
<1>1. CASE Boot
  BY <1>1, LatestIsRight DEF Boot
<1>2. CASE LookSafe
  BY <1>2 DEF LookSafe
<1>3. CASE LookPending
  BY <1>3 DEF LookPending
<1>4. CASE StopSampling
  BY <1>4 DEF StopSampling
<1>5. CASE RestartSampling
  BY <1>5 DEF RestartSampling
<1>6. CASE NothingToDo
  BY <1>6 DEF NothingToDo
<1>7. CASE Load
  BY <1>7 DEF Load, Dispatch, Latest, Good, Newer
<1>8. CASE LoadDefaults
  BY <1>8 DEF LoadDefaults, Dispatch
<1>9. CASE Apply
  BY <1>9 DEF Apply, Dispatch
<1>10. CASE ApplyCall
  BY <1>10 DEF ApplyCall
<1>11. CASE ApplyCopy
  BY <1>11 DEF ApplyCopy
<1>12. CASE Save
  BY <1>12 DEF Save, Dispatch
<1>13. CASE SaveErase
  BY <1>13 DEF SaveErase, Flash
<1>14. CASE SaveBody
  BY <1>14 DEF SaveBody, Flash
<1>15. CASE SaveMarker
  BY <1>15 DEF SaveMarker, Flash
<1>16. CASE Saved
  BY <1>16 DEF Saved
<1>17. CASE Erase
  BY <1>17 DEF Erase, Dispatch
<1>18. CASE EraseA
  BY <1>18 DEF EraseA, Flash
<1>19. CASE EraseB
  BY <1>19 DEF EraseB, Flash
<1>20. CASE Erased
  BY <1>20 DEF Erased
<1>21. CASE PowerLoss
  BY <1>21 DEF PowerLoss
<1>22. CASE DebuggerEdits
  BY <1>22 DEF DebuggerEdits, MailboxOpen
<1>23. CASE DebuggerRequests
  BY <1>23 DEF DebuggerRequests, MailboxOpen
<1>24. CASE DriveMoves
  BY <1>24 DEF DriveMoves
<1>25. CASE UNCHANGED vars
  BY <1>25 DEF vars
<1>26. QED
  BY <1>1, <1>2, <1>3, <1>4, <1>5, <1>6, <1>7, <1>8, <1>9, <1>10, <1>11, <1>12,
      <1>13, <1>14, <1>15, <1>16, <1>17, <1>18, <1>19, <1>20, <1>21, <1>22,
      <1>23, <1>24, <1>25 DEF Next, Main

(* The two slots implement DurableParameters, power loss included.         *)
THEOREM Durability == Spec => DurableSpec
<1>1. Init => Durable!Init
  BY SetsAssumption
  DEF Init, Durable!Init, Confirmed, IsAttempt, IsOlder, Target, Empty, ErasePcs
<1>2. IInv /\ IInv' /\ [Next]_vars => [Durable!Next]_(Durable!dvars)
  BY RefinementStep
<1>3. QED
  BY <1>1, <1>2, Inductive, PTL DEF Spec, DurableSpec, Durable!Spec

-----------------------------------------------------------------------------
(* With a debugger that writes between two turns of main only.             *)

(* What a window has under way: the request main looked at is still the one *)
(* that is served, and the set that was applied the one that is copied.    *)
TurnIsWhole ==
  /\ active \in Usable /\ controller \in Usable
  /\ pc = "applyCopy" => working = controller
  /\ pc = "process" /\ is_safe_state /\ requests \cap Maintenance # {} => ~sampling
  /\ BootableRecords /\ ActiveIsApplied /\ MaintenanceIsQuiet

(* Every step keeps a turn whole.                                          *)
LEMMA TurnStep ==
  ASSUME Undisturbed, TypeOK, TurnIsWhole, [Next]_vars PROVE TurnIsWhole'
<1> USE SetsAssumption DEF TurnIsWhole, BootableRecords, ActiveIsApplied, MaintenanceIsQuiet,
      TypeOK, Goto, Target, ramVars, mainVars, Maintenance, ErasePcs, SavePcs, Empty, Record
<1>1. CASE Boot
  BY <1>1 DEF Boot, Latest, Good
<1>2. CASE LookSafe
  BY <1>2 DEF LookSafe
<1>3. CASE LookPending
  BY <1>3 DEF LookPending
<1>4. CASE StopSampling
  BY <1>4 DEF StopSampling
<1>5. CASE RestartSampling
  BY <1>5 DEF RestartSampling
<1>6. CASE NothingToDo
  BY <1>6 DEF NothingToDo
<1>7. CASE Load
  BY <1>7 DEF Load, Dispatch, Latest, Good
<1>8. CASE LoadDefaults
  BY <1>8 DEF LoadDefaults, Dispatch
<1>9. CASE Apply
  BY <1>9 DEF Apply, Dispatch
<1>10. CASE ApplyCall
  BY <1>10 DEF ApplyCall
<1>11. CASE ApplyCopy
  BY <1>11 DEF ApplyCopy
<1>12. CASE Save
  BY <1>12 DEF Save, Dispatch
<1>13. CASE SaveErase
  BY <1>13 DEF SaveErase, Flash
<1>14. CASE SaveBody
  BY <1>14 DEF SaveBody, Flash
<1>15. CASE SaveMarker
  BY <1>15 DEF SaveMarker, Flash
<1>16. CASE Saved
  BY <1>16 DEF Saved
<1>17. CASE Erase
  BY <1>17 DEF Erase, Dispatch
<1>18. CASE EraseA
  BY <1>18 DEF EraseA, Flash
<1>19. CASE EraseB
  BY <1>19 DEF EraseB, Flash
<1>20. CASE Erased
  BY <1>20 DEF Erased
<1>21. CASE PowerLoss
  BY <1>21 DEF PowerLoss
<1>22. CASE DebuggerEdits
  BY <1>22 DEF DebuggerEdits, MailboxOpen
<1>23. CASE DebuggerRequests
  BY <1>23 DEF DebuggerRequests, MailboxOpen
<1>24. CASE DriveMoves
  BY <1>24 DEF DriveMoves
<1>25. CASE UNCHANGED vars
  BY <1>25 DEF vars
<1>26. QED
  BY <1>1, <1>2, <1>3, <1>4, <1>5, <1>6, <1>7, <1>8, <1>9, <1>10, <1>11, <1>12,
      <1>13, <1>14, <1>15, <1>16, <1>17, <1>18, <1>19, <1>20, <1>21, <1>22, <1>23, <1>24, <1>25 DEF Next, Main

(* A turn is whole in every reachable state.                               *)
LEMMA TurnsAreWhole == ASSUME Undisturbed PROVE Spec => []TurnIsWhole
<1>1. Init => TurnIsWhole
  BY SetsAssumption
  DEF Init, TurnIsWhole, BootableRecords, ActiveIsApplied, MaintenanceIsQuiet, Empty,
      ErasePcs, SavePcs, Maintenance
<1>2. TypeOK /\ TurnIsWhole /\ [Next]_vars => TurnIsWhole'
  BY TurnStep
<1>3. QED
  BY <1>1, <1>2, TypeCorrect, PTL DEF Spec

(* No save leaves a record that motor_control_init() refuses at the start.  *)
THEOREM RecordsBoot == ASSUME Undisturbed PROVE Spec => []BootableRecords
<1>1. TurnIsWhole => BootableRecords BY DEF TurnIsWhole
<1>2. QED BY <1>1, TurnsAreWhole, PTL

(* What is reported as active is what the controller runs with.            *)
THEOREM ActiveApplied == ASSUME Undisturbed PROVE Spec => []ActiveIsApplied
<1>1. TurnIsWhole => ActiveIsApplied BY DEF TurnIsWhole
<1>2. QED BY <1>1, TurnsAreWhole, PTL

(* Flash and controller are touched with the ADC trigger stopped.          *)
THEOREM QuietMaintenance == ASSUME Undisturbed PROVE Spec => []MaintenanceIsQuiet
<1>1. TurnIsWhole => MaintenanceIsQuiet BY DEF TurnIsWhole
<1>2. QED BY <1>1, TurnsAreWhole, PTL

(* All of it together: what the run checks, for every set of parameters and  *)
(* every generation modulus.                                               *)
THEOREM StoreIsSafe == ASSUME Undisturbed PROVE Spec => []Safety
<1>1. IInv /\ BootableRecords /\ ActiveIsApplied /\ MaintenanceIsQuiet => Safety
  BY DEF Safety
<1>2. QED BY <1>1, Inductive, RecordsBoot, ActiveApplied, QuietMaintenance, PTL

-----------------------------------------------------------------------------
(* What is asked for is served.                                            *)

(* Nothing that goes before is asked for, and the drive stays READY if that  *)
(* matters.                                                                *)
Calm(k) == (k \in Maintenance => safe) /\ requests \cap Before[k] = {}

(* The request waits, and main turns.                                      *)
Waits(k) == k \in requests /\ pc \notin {"halted", "boot"}

Relieved(k) == ~(Calm(k) /\ Waits(k))

(* This turn of main can serve it.                                         *)
Ready(k) == k \in Maintenance => is_safe_state

(* How many steps of main, at most, until it is served: a turn that can     *)
(* serve it does, any other ends and is followed by one.                    *)
Distance(k) ==
  IF pc = "process" /\ Ready(k) THEN 1 ELSE
  IF pc = "stop" /\ Ready(k) THEN 2 ELSE
  IF pc = "window" /\ Ready(k) THEN 3 ELSE
  IF pc = "idle" THEN 4 ELSE
  IF pc = "close" THEN 5 ELSE
  IF pc \in {"saved", "erased", "applyCopy", "process"} THEN 6 ELSE
  IF pc \in {"saveMarker", "eraseB", "applyCall", "stop"} THEN 7 ELSE
  IF pc \in {"saveBody", "eraseA", "window"} THEN 8 ELSE 9

Within(k, n) == ~Relieved(k) /\ Distance(k) <= n

(* Every step of main moves it.                                            *)
LEMMA MainMoves == ASSUME Main PROVE pc' # pc
<1> USE DEF Goto, Dispatch, Flash
<1>1. Boot => pc' # pc BY DEF Boot
<1>2. LookSafe \/ LookPending => pc' # pc BY DEF LookSafe, LookPending
<1>3. StopSampling \/ RestartSampling => pc' # pc BY DEF StopSampling, RestartSampling
<1>4. NothingToDo \/ Load \/ LoadDefaults => pc' # pc BY DEF NothingToDo, Load, LoadDefaults
<1>5. Apply \/ Save \/ Erase => pc' # pc BY DEF Apply, Save, Erase
<1>6. ApplyCall \/ ApplyCopy \/ Saved \/ Erased => pc' # pc
  BY DEF ApplyCall, ApplyCopy, Saved, Erased
<1>7. SaveErase \/ SaveBody \/ SaveMarker => pc' # pc BY DEF SaveErase, SaveBody, SaveMarker
<1>8. EraseA \/ EraseB => pc' # pc BY DEF EraseA, EraseB
<1>9. QED BY <1>1, <1>2, <1>3, <1>4, <1>5, <1>6, <1>7, <1>8, Zenon DEF Main

(* While the request waits, main comes nearer to it, others leave main where  *)
(* it stands, or the wait is over.                                         *)
LEMMA WaitStep ==
  ASSUME NEW k \in Kinds, ~Relieved(k), [Next]_vars
  PROVE  Relieved(k)' \/ UNCHANGED <<pc, is_safe_state>> \/ Distance(k)' < Distance(k)
<1> USE DEF Distance, Ready, Before, Kinds, Maintenance, Goto, mainVars
<1>1. CASE Boot
  BY <1>1 DEF Boot, Relieved, Calm, Waits
<1>2. CASE LookSafe
  BY <1>2 DEF LookSafe, Relieved, Calm, Waits
<1>3. CASE LookPending
  BY <1>3 DEF LookPending, Relieved, Calm, Waits
<1>4. CASE StopSampling
  BY <1>4 DEF StopSampling, Relieved, Calm, Waits
<1>5. CASE RestartSampling
  BY <1>5 DEF RestartSampling, Relieved, Waits
<1>6. CASE NothingToDo
  BY <1>6 DEF NothingToDo, Relieved, Waits
<1>7. CASE Load \/ LoadDefaults \/ Save \/ Erase
  BY <1>7 DEF Load, LoadDefaults, Save, Erase, Dispatch, Relieved, Calm, Waits
<1>8. CASE Apply
  BY <1>8 DEF Apply, Dispatch, Relieved, Calm, Waits
<1>9. CASE ApplyCall
  BY <1>9 DEF ApplyCall
<1>10. CASE ApplyCopy
  BY <1>10 DEF ApplyCopy
<1>11. CASE SaveErase
  BY <1>11 DEF SaveErase, Flash
<1>12. CASE SaveBody
  BY <1>12 DEF SaveBody, Flash
<1>13. CASE SaveMarker
  BY <1>13 DEF SaveMarker, Flash
<1>14. CASE Saved
  BY <1>14 DEF Saved
<1>15. CASE EraseA
  BY <1>15 DEF EraseA, Flash
<1>16. CASE EraseB
  BY <1>16 DEF EraseB, Flash
<1>17. CASE Erased
  BY <1>17 DEF Erased
<1>18. CASE PowerLoss
  BY <1>18 DEF PowerLoss, Relieved, Calm, Waits
<1>19. CASE DebuggerEdits \/ DebuggerRequests
  BY <1>19 DEF DebuggerEdits, DebuggerRequests
<1>20. CASE DriveMoves
  BY <1>20 DEF DriveMoves
<1>21. CASE UNCHANGED vars
  BY <1>21 DEF vars
<1>22. QED
  BY <1>1, <1>2, <1>3, <1>4, <1>5, <1>6, <1>7, <1>8, <1>9, <1>10, <1>11, <1>12,
     <1>13, <1>14, <1>15, <1>16, <1>17, <1>18, <1>19, <1>20, <1>21 DEF Next, Main

(* Within(k, n) lasts until the request is served or the calm ends, and a    *)
(* step of main lessens it.                                                *)
LEMMA ServedSooner ==
  ASSUME NEW k \in Kinds, NEW n \in 1..9
  PROVE  /\ Within(k, n) /\ [Next]_vars => Relieved(k)' \/ Within(k, n)'
         /\ Within(k, n) /\ <<Main>>_vars => Relieved(k)' \/ Within(k, n - 1)'
<1>1. ASSUME Within(k, n), [Next]_vars PROVE Relieved(k)' \/ Within(k, n)'
  <2>1. UNCHANGED <<pc, is_safe_state>> => Distance(k)' = Distance(k)
    BY DEF Distance, Ready
  <2>2. QED BY <1>1, <2>1, WaitStep DEF Within, Distance
<1>2. ASSUME Within(k, n), Main PROVE Relieved(k)' \/ Within(k, n - 1)'
  BY <1>2, WaitStep, MainMoves DEF Within, Distance, Next
<1>3. QED BY <1>1, <1>2

(* So a request that waits in the calm is served.                           *)
LEMMA RequestServed ==
  ASSUME NEW k \in Kinds
  PROVE  FairSpec /\ []MainGoesOn => RequestIsServed(k)
<1>1. Within(k, 1) /\ [Next]_vars => Relieved(k)' \/ Within(k, 1)'
  BY ServedSooner
<1>2. Within(k, 1) /\ <<Main>>_vars => Relieved(k)' \/ Within(k, 0)'
  BY ServedSooner
<1>3. Within(k, 2) /\ [Next]_vars => Relieved(k)' \/ Within(k, 2)'
  BY ServedSooner
<1>4. Within(k, 2) /\ <<Main>>_vars => Relieved(k)' \/ Within(k, 1)'
  BY ServedSooner
<1>5. Within(k, 3) /\ [Next]_vars => Relieved(k)' \/ Within(k, 3)'
  BY ServedSooner
<1>6. Within(k, 3) /\ <<Main>>_vars => Relieved(k)' \/ Within(k, 2)'
  BY ServedSooner
<1>7. Within(k, 4) /\ [Next]_vars => Relieved(k)' \/ Within(k, 4)'
  BY ServedSooner
<1>8. Within(k, 4) /\ <<Main>>_vars => Relieved(k)' \/ Within(k, 3)'
  BY ServedSooner
<1>9. Within(k, 5) /\ [Next]_vars => Relieved(k)' \/ Within(k, 5)'
  BY ServedSooner
<1>10. Within(k, 5) /\ <<Main>>_vars => Relieved(k)' \/ Within(k, 4)'
  BY ServedSooner
<1>11. Within(k, 6) /\ [Next]_vars => Relieved(k)' \/ Within(k, 6)'
  BY ServedSooner
<1>12. Within(k, 6) /\ <<Main>>_vars => Relieved(k)' \/ Within(k, 5)'
  BY ServedSooner
<1>13. Within(k, 7) /\ [Next]_vars => Relieved(k)' \/ Within(k, 7)'
  BY ServedSooner
<1>14. Within(k, 7) /\ <<Main>>_vars => Relieved(k)' \/ Within(k, 6)'
  BY ServedSooner
<1>15. Within(k, 8) /\ [Next]_vars => Relieved(k)' \/ Within(k, 8)'
  BY ServedSooner
<1>16. Within(k, 8) /\ <<Main>>_vars => Relieved(k)' \/ Within(k, 7)'
  BY ServedSooner
<1>17. Within(k, 9) /\ [Next]_vars => Relieved(k)' \/ Within(k, 9)'
  BY ServedSooner
<1>18. Within(k, 9) /\ <<Main>>_vars => Relieved(k)' \/ Within(k, 8)'
  BY ServedSooner
<1>19. ~Within(k, 0)
  BY DEF Within, Distance
<1>20. Relieved(k) \/ Within(k, 9)
  BY DEF Within, Distance
<1>21. ~Relieved(k) => pc # "halted"
  BY DEF Relieved, Waits
<1>22. Relieved(k) => \/ ~((k \in Maintenance => safe) /\ requests \cap Before[k] = {})
                      \/ k \notin requests \/ pc \in {"halted", "boot"}
  BY DEF Relieved, Waits, Calm
<1>23. QED
  BY <1>1, <1>2, <1>3, <1>4, <1>5, <1>6, <1>7, <1>8, <1>9, <1>10, <1>11,
     <1>12, <1>13, <1>14, <1>15, <1>16, <1>17, <1>18, <1>19, <1>20, <1>21, <1>22, PTL
  DEF FairSpec, Spec, RequestIsServed, MainGoesOn

(* Every request is served: main goes on, and no turn that can serve it      *)
(* passes it over (drive_parameter_manager_process).                       *)
THEOREM RequestsServed == FairSpec /\ []MainGoesOn => \A k \in Kinds : RequestIsServed(k)
BY RequestServed

(* An apply, a save or an erase that was held back is served once the drive  *)
(* stays READY.                                                            *)
THEOREM HeldRequestsServed == FairSpec /\ []MainGoesOn => HeldRequestsAreServed
<1>1. \A k \in Maintenance : k \in Kinds
  BY DEF Maintenance, Kinds
<1>2. QED
  BY <1>1, RequestsServed DEF HeldRequestsAreServed

=============================================================================
