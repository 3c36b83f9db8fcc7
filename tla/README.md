# Verification of the PMSM motor drive firmware

TLA+ models of the STM32G474 firmware in `src/` (field-oriented control of a
permanent magnet motor behind a CANopen CiA 402 interface), TLC configurations
that check them on small instances, and TLAPS proofs of the invariants for every
value of the constants. Paths below are relative to `src/`.

## 1. The system

### Execution contexts

What may preempt what is fixed by the NVIC priorities (`Core/Src/stm32g4xx_hal_msp.c`,
`Core/Inc/stm32g4xx_hal_conf.h:184`). Interrupts are masked in three places only: around
a Flash call, around one reading of the Hall lines, and, from priority 2 down, in
the CANopen stack's critical sections (`Core/Platform/canopen_node_target.h:119`). None
of them keeps the ADC interrupt out of the App's state.

| context | priority | period | runs |
|---|---|---|---|
| ADC end of sequence | 0 | 40 kHz, while the HRTIM counter runs | fast loop of the App: measurements, faults, current control |
| TIM2 Hall interface | 1 | per Hall edge, or 100 ms time-out | Hall driver: feedback record |
| FDCAN2 | 2 | per frame | CANopen receive callbacks |
| SysTick | 15 | 1 kHz | App scheduler tick: speed loop, calibration and stop timers |
| main loop | lowest | about 1 kHz | `app_drive_update`, parameter requests, debug commands, CANopen service |

The ADC interrupt runs to completion with respect to everything else, so in the
models each of its paths is one action; SysTick and main are cut into one action
per access to shared state.

### Components

**Drive lifecycle** (`Core/App/app.c`). State: `drive_state` (CALIBRATION, READY,
CURRENT_RUNNING, SPEED_RUNNING, RAMP_TO_ZERO, FAULTED), control `mode`, published
current and speed commands, the calibration and stop timers, the fault clear
request. Operations: start and stop of current and speed control, set command,
request clear, recover, update (main), scheduler tick (SysTick), fast loop (ADC).
Hard: three contexts write the same words; a fault may be latched between any two
steps of a start or stop. Correct when: outputs never outlive a fault unnoticed,
never precede the calibration, start from zero references, stop only after the
ramp and the dwell; the calibration and every stop end.

**Command router** (`Core/App/drive_command.c`). Stateless dispatch to the
lifecycle by `drive_state`; a rejected command must change nothing.

**PWM driver** (`Core/Platform/pwm_driver.c`). State: `is_enabled`, the HRTIM
outputs. Enable and disable set the flag after the HAL call, and the HAL calls
refuse (HAL_BUSY) when they interrupt one another. Hard: the fault path of the
interrupt relies on the flag.

**Fault manager** (`Core/App/fault_manager.c`). State: latched mask, active
conditions with hysteresis, the first-fault record. Written from main, the tick
and the ADC interrupt without a lock, although `fault_manager.h:130-132` asks
for serialised updates. Correct when: a latched fault stays until a clear, whatever
updates overlap; while they do not, every cause and the first one are kept; and a
clear comes only when every quantity is back below its clear threshold.

**Current sensor and offset calibration** (`Core/Platform/current_sensor.c`).
State: the calibration state (compare-and-swap between completion and abort),
sums, offsets.

**Drive parameters** (`Core/App/drive_parameter_manager.c`,
`Core/Config/drive_parameters.c`, `Core/Platform/flash_storage_driver.c`,
`main_process_drive_parameters` in `Core/Src/main.c`). State: two Flash slots with
generation counters and commit markers, the working and active sets, request
counters written by a debugger. Operations: load, defaults, apply, save, erase.
Hard: power loss between Flash calls, failing calls, wrap of the generation, a
debugger that writes while the manager reads. Correct when: a start finds the set
saved last or the one being saved, and what is saved can be started from.

**CANopen CiA 402 service** (`Core/App/canopen_service.c`). State: CiA 402 drive
state, overspeed and RPDO time-out latches, pending recovery, previous reset bit,
object dictionary mirror. One call per millisecond from main. Hard: it drives the
lifecycle through the router while the interrupt stops it, a debugger commands
it, and the master switches modes. Correct when: what it tells the master is
what the motor does.

**Debug command source and observer** (`Core/App/drive_debug_command_source.c`,
`drive_debug_observer.c`). A second source of router commands; a read-only view.

**Hall driver, decoder, estimator** (`Core/Platform/hall_driver.c`,
`Core/Control/hall_decoder.c`, `hall_estimator.c`). State: the feedback record
(double-buffered between TIM2 and ADC), the interval reference, sector and
direction, the interpolated angle. Operations: capture, time-out, decode, estimate.
Hard: an edge and a time-out in one interrupt, an edge between two register reads, a
lost edge, a feedback that is consumed twice or skipped. Correct when: an edge rate
that is called valid is the time between two adjacent edges, the decoder comes back
to the rotor's sector by itself, and no good rotor makes it fail, which would trip
the drive (`app.c:2370`).

**Control** (`Core/Control/motor_control.c`, `foc.c`, `speed_controller.c`,
`Core/Algorithm/*`). Floating-point control laws in the fast loop and the tick. State
that other contexts meet: mode, the current reference with the limiter of each axis,
the speed limiter, the double buffers of the targets, the limits. Operations: prepare
and publish a target (main, tick), move the reference (ADC), reset, apply new limits.
Hard: main copies a target field by field under the interrupt; the circle bends the way
of a reference whose axes have rates of their own; limits change between runs. Correct
when: the reference keeps the limits in force, each axis keeps its rate and does not
move away from its target, and a target that can be reached is reached.

**Sensorless observer** (`Core/Control/eemf_observer.c`, `pll.c`). A shadow
observer; its output is recorded and not used.

**ADC, voltage, CORDIC, cycle counter drivers** (`Core/Platform`). Register access
and conversions.

**FDCAN driver and CANopen adapter** (`Core/Platform/fdcan_driver.c`,
`canopen_fdcan_adapter.c`). State: the hardware transmit FIFO, the `bufferFull` flags
and `CANtxCount`, all used by main; the FIFO is freed by the bus. Operations: send,
flush the backlog. Hard: a buffer that is sent while it waits in the backlog stays
there, frames overtake one another, the bus frees room in the middle of a flush.
Correct when: the count is the number of waiting buffers, an emergency or an SDO answer
goes out exactly once and in order, no message goes back to an older version, the flush takes
the lowest index first.

**CANopen node** (CANopenNode's emergency producer, NMT slave, heartbeat and RPDO, as
`canopen_service_process()` calls them). State: NMT state and command, error register,
emergency ring, RPDO buffers with their new-flags, time-outs. Third-party, but the drive is
reached through it alone. Hard: the FDCAN interrupt writes commands and RPDOs at
any step of main; a fault of the App closes the loop from the service over the error register
to the NMT state and back to the RPDOs. Correct when: a control word and its target come
from one frame, no frame of an earlier NMT session is applied, an error stops the
RPDOs, a lost emergency is told, and every NMT state is told while there is a heartbeat producer time.

**Object dictionary, HAL, CMSIS, CubeMX code, host tests, legacy code.** Generated,
third-party or not built; modelled only as what the code above sees of them.

### How they interact

Calls go down from main: service and debug source, router, lifecycle, PWM driver
and fault manager. Interrupts share memory with main: single words (drive state,
mode, latched mask, calibration state, clear request) and double buffers
(commands, speed feedback, Hall feedback). No component sends messages to
another; the queues are the CAN transmit backlog and the ring of emergencies.

## 2. The modules

| module | models | kind |
|---|---|---|
| `DriveLifecycle` | lifecycle, router, PWM driver, calibration, main loop, tick, ADC interrupt | specification and properties |
| `DriveInvariant` | | its inductive invariant `IInv`, in named parts, `Safety`, refinement mapping |
| `DriveLifecycleProofs` | | theorems |
| `AppContract` | what the App promises those who command it | abstract specification |
| `DurableParameters` | what the parameter storage promises | abstract specification |
| `ParameterStore` | mailbox, manager, maintenance window, Flash slots | specification, refinement mapping, invariant |
| `ParameterStoreProofs` | | theorems |
| `Cia402` | the service, the part of the App it drives, a debug source, the ADC interrupt | specification, properties, invariant, refinement mapping |
| `Cia402Proofs` | | theorems |
| `HallChain` | rotor, TIM2, Hall interrupt, decoder, estimator | specification, properties, invariant |
| `HallChainProofs` | | theorems |
| `FaultSession` | what the fault manager promises | abstract specification |
| `FaultMask` | fault manager under main, tick and ADC interrupt | specification, refinement mapping, invariant |
| `FaultMaskProofs` | | theorems |
| `ReferencePath` | targets, double buffers, limiters and limits of the current reference | specification, properties, invariant |
| `ReferencePathProofs` | | theorems |
| `CanTransmit` | transmit buffers, backlog, FIFO, bus | specification and properties |
| `CanTransmitProofs` | | theorems |
| `CanNode` | one turn of the CANopen node under the FDCAN and ADC interrupts | specification and properties |
| `CanNodeProofs` | | theorems |
| `Descent` | what it means that no natural number falls for ever | hypothesis of theorems |
| `MCDrive`, `MCParameters`, `MCCia402`, `MCHall`, `MCReference`, `MCCanNode` | | instances for TLC |
| `MCFaultTransmit` | | `FaultMask` and `CanTransmit` in one instance |

`FaultMask` and `CanTransmit` share no variable; `MCFaultTransmit` explores each with the other at
rest (`part`), so that one run serves both. `CanNode` shares none with `CanTransmit` and is checked apart. Where a module bundles state invariants, the bundle is called
`Safety` (`TxSafety`, `NodeSafety`) and its parts keep their names: the run checks the
bundle, the theorems prove the parts and the bundle. `NobodyWaits` (`MainGoesOn`,
`TxGoesOn`) says which steps are possible where, with ENABLED; it is what the liveness
theorems take from the runs (section 4).

### DriveLifecycle

`pc` is the program point of the main loop, `tick` that of the SysTick handler;
a main step is enabled only while `tick = "idle"`, because SysTick runs on top of
main. The ADC interrupt may come before any step of either. Every store to a
shared word is a step of its own, and a check of shared words is separated from
the store that relies on it wherever the interrupt could come in between:
`StartChecks`, `StartMode`, ..., `StartOutputs`, `EnableFlag`, `Recheck`,
`PublishCommand`, `SetRunning` are the fourteen points of
`app_drive_start_current/speed`; `StopMode` to `StopReady` those of a stop;
`DisableMode` to `DisableFlag` those of `app_disable_for_fault` in main. The same
function in interrupt context is the one operator `IsrDisable`; it fails to turn
the outputs off (`DisableBusy`) when main holds the HAL handle lock, and skips them when
`is_enabled` is not set yet.

Abstractions: the latched mask is one bit; references are small numbers of
which only zero is special, and the speed ramp moves one unit a tick (`Towards`);
a speed feedback is invalid, stopped (Hall time-out), slow or fast. The open-loop
mode is left out, as nothing in the firmware starts it, and so is a speed controller that fails in
the tick (`app.c:1439-1445`): the latch and the stop that follow are in `FaultMask`. `ApplyParameters` stands for a
maintenance window that applies a set; how a window is opened and what else
happens in one is the subject of `ParameterStore`.

`DisciplinedClear` says how a fault clear is asked for: as the last command of a turn, and while none is
pending. This is how the firmware asks: its one source of clears is the CiA 402 service
(`canopen_service.c:396`; the debug source has none), of which `ClearsAreDisciplined` proves it. The drive
need not be FAULTED yet, for the fault may have met an operation of main that stored its own state afterwards.
With FALSE a clear may come at any moment a fault is latched, as `drive_command.h` allows.

### AppContract

The lifecycle as a caller of `app.h` meets it, in five variables: the state, whether the
offset is calibrated, whether a reference is not zero, whether a fault is latched and a
clear asked for. A drive starts from READY and calibrated; a speed stop goes by way of the ramp;
a latch is released only by a clear asked for under it, with zero references, and leaves the drive
FAULTED until the recovery. `Overtaken` is what the missing locks leave of it: while a
fault is latched, an operation that was under way may store its state over FAULTED, until
the next cycle.

Both `DriveLifecycle` (mapping in `DriveInvariant`) and the App inside `Cia402` implement it,
so that the service is not checked against an App of its own invention. The lifecycle needs
`DisciplinedClear` for it, which the service gives (`ClearsAreDisciplined`): it asks for a clear only under
the latch it has seen, goes from there to its report and to the next turn, and by the next call the interrupt
has served the request (`InterruptIsFaster`). So each side is proved under what the other is
proved to keep; that the two modules then fit together, turn by turn, is read off and not proved.

### ParameterStore and DurableParameters

One action per Flash call (each may fail with or without its effect), one per
read of the mailbox, and `PowerLoss` at any moment. A parameter set is a value
that the range check accepts or not (`Valid`) and that `motor_control_init()`
accepts or not (`Usable`); a slot holds a record with marker, generation and set,
or is `Empty`, which stands for every content that `drive_parameter_record_decode()`
rejects. Generations count modulo `2 * Half`.

`DurableParameters` says what this is for in terms of a confirmed set, an
attempt under way and an older record: a start finds the attempt if it is there,
else the confirmed set, else the older. The mapping is stated at `Durable` in
`ParameterStore`.

`Undisturbed` restricts the debugger to write between two turns of main. The run `parameters` and the
proofs of `ActiveIsApplied` and `MaintenanceIsQuiet` assume it and say nothing of a debugger that writes in the
middle of a turn, which breaks both (section 5).

### Cia402

The call `canopen_service_process()` and the `app_drive_update()` and debug source
calls before it, cut at each access to what the interrupt shares: `update`,
`rampStop`, `debug`, `receive`, `look`, `stop`, ..., `report`. `Moves` is the table of
the state machine. The App is reduced to its state, its latched faults (`trip` and
`other`, told apart by the error code), its clear request and whether its
references are zero; what an operation of the App does under interrupts is what
`DriveLifecycle` allows of it.

`InterruptIsFaster`: the interrupt serves a stored clear request before the next
call of the service looks again (40 kHz against 1 kHz). `DebugSource` adds or
removes the debug command source.

### HallChain

The plant is part of the model: the lines change (`RotorMoves` to a neighbouring sector
in either direction, `LineBreaks` and `LineMended`), the counter counts (`Count`), and both may
come before any step of the TIM2 interrupt. Its steps are the accesses to the timer:
`EnterCapture` (the HAL handler samples the flags), `ReadCapture` (CCR1 and the flags),
`ReadState` (the lines, read with interrupts masked), `Capture` (classification and
publication), `ClearUpdate` and `Timeout`. `FastLoop` is the ADC interrupt, with every outcome
of the decoder and what the estimator makes of it; it too may come before any step.
The HAL serves the capture before the update flag of the same entry, although the update is
the older of the two: `capture_with_pending_timeout` is there for that.

TIM2 counts to 999999 at 10 MHz, a time-out of 100 ms; here it counts to `Period - 1`.
`since` and `span` are true times which no code sees; a speed is the interval it was
computed from. Of the capture counters, the number of records the decoder has not seen is
kept, and 2 stands for more, which the code treats alike. `lost` marks an edge that falls between
the first reading of the lines and the start of the timer; `clean` marks a history
in which the rotor moved by single sectors, the chain had consumed each edge before the
next, and none fell on the tick at which the counter is 0 (the driver refuses a capture of
0 ticks, and in a FOC mode that refusal trips the drive).

### FaultMask and FaultSession

`held` is the set of causes in the mask, `first` the cause of the first-fault record,
`active` the conditions with hysteresis, `latest` the level of each measured quantity
("low", "trip", and the band between them entered from below or above: "rising", "falling"). `fault_manager_latch()` in main (`CURRENT_SENSOR`, the
calibration time-out) and in the tick is the read with the comparison (`LatchRead`), the record of a
first fault (`LatchCapture`) and the store (`LatchStore`), which may use either the mask read or a second
read (`LatchReadAgain`); the ADC interrupt preempts both and is one action per path:
`CalibrationCycle` and `MeasuredCycle`, each with the fault check, the stop and the clear, and `AdcStop`. `updates` remembers whether two updates have overlapped.

`FaultSession` says what the header promises: a session opens with a first cause, collects
causes and ends by a clear only. The refinement is stated for a history whose
updates were serialised and says nothing of an overlap; what an overlap leaves is stated by `FaultStays` alone.

### ReferencePath

`slot` and `active` are the two double buffers (current commands of main, speed control
of the tick), `reference` and `limiter` those of `motor_control`, on an integer grid. `Target` is
what the interrupt reads. `WriteD`, `WriteQ`, `PublishTarget` are the three steps of a publication
by main; `Prepared` is what becomes of a request under the limits: clamped to the range of
each axis, then to the circle. `UpdateReference` moves each axis by its rate
(`Towards`), stops at the last grid point inside the circle (`LimitStep`) and puts the
limiters back there. The lifecycle is that of `DriveLifecycle`, reduced to what decides who
may write which buffer when.

### CanTransmit

A buffer of the stack is one of `EMCY`, `TPDO`, `SDO`, `HEARTBEAT`, in the order of their indices;
`data` is the number of the version it holds, `full` the set of waiting buffers, `count` `CANtxCount`,
`fifo` the hardware FIFO, `shown` the last version on the bus. A turn of main is the flush
(`FlushSkip`, `FlushSend`, `FlushRefused`, one buffer a step) and then one step per sender;
`Transmit` is the bus, at any step. Emergencies and answers look at `bufferFull` before they write
(`MaySend`); heartbeat and TPDO do not.

### CanNode

`pc` is the point of main in `canopen_service_process()`: emergencies, heartbeat, NMT (`take`,
`clear`), the SDO server (`sdo`), the RPDO pass (`rpdo`, `check`, `word`, `target`), the time-out `watch` and
the `service`; a reset command takes `clearReset` and `sdoReset` and ends the turn. The FDCAN
interrupt (`CO_NMT_receive`, `CO_PDO_receive`) and the ADC interrupt (`AppFault`) come before any of them. A frame is
one word, with the reset bit or without; a pass copies it into the two objects of the OD in two steps and looks at the
new-flag again after the second. `producer` is the heartbeat producer time, object 0x1017, which a
master may set to 0 and back by SDO (`WriteProducerTime`): "off", "on", or "due" while the heartbeat is
sent at once because the write has reset the timer. The App is reduced to one fault, which a reset edge may release; `Cia402` has the
state machine.

## 3. The runs

| run | bounds | shows |
|---|---|---|
| `drive` | references {0,1} and {0,2}, 2 samples, time-out 2, dwell 1, 1 command a turn, clears as the service asks for them (`DisciplinedClear`) | `Safety` (the invariant `IInv`, calibration before outputs, READY means off, parameters applied alone; `Held`, and state, mode and outputs agree), start from zero, stop after the dwell, a released latch restarts nothing, `AppContract` is implemented; `NobodyWaits` (main always has a step once no tick is on top of it, the tick its next one, the interrupt and the rotor theirs); the calibration ends, a fault turns the outputs off, a stop ends |
| `drive_stale_clear` | as `drive`, 2 commands a turn, any clear | violation: see section 5 |
| `drive_reset` | all bounds 1 | violation: see section 5 |
| `parameters` | 4 sets (default, tuned, range-checked but unusable, invalid), generations modulo 4, debugger between turns | `Safety` (`IInv`, bootable records, active is applied, quiet maintenance), refinement of `DurableParameters`, `MainGoesOn`, an apply, a save or an erase that was held back is served |
| `cia402_safety` | two supported modes and an unsupported one, a debug source | `Safety` (`IInv`, `CallsAreCoherent`, enabled means running, started means owned), `AppContract` is implemented, others keep running, acknowledged exits, the report settles |
| `cia402_live` | one mode, no debug source | `NobodyWaits` (each part of the call, and the interrupt, has a step where the proof relies on it), FAULT ends |
| `hall_safety` | 4 sectors up to rotation, period 3, latency 1, 2 edges ahead of the chain, lines that break | `Safety` (`IInv`: rates are measured, time-outs real; `ChainIsCoherent`; the sector settles, a standstill the decoder took over is one of the driver, the estimator follows), the speed is what the rotor did, clean edges never trip |
| `hall_live` | as above, 1 edge ahead | `NobodyWaits` (count, interrupt and fast loop can go on), a standstill is seen as a valid speed of zero |
| `fault_transmit` | the mask: one measured phase, one cause each of main and tick, both also of the interrupt; the transmit path: FIFO of 2, versions to 2 | of the mask: `IInv`, refinement of `FaultSession` while serialised, a fault stays in any case, a clear is calm; of the transmit path: `TxSafety` (count, the flush takes the lowest index first, each emergency and answer once), `TxGoesOn` (main is never stuck on a full FIFO), `BusOrder` (no message goes back), the latest arrives |
| `reference_path` | a wide circle with uneven rates and a narrow one, requests (0,0), (7,-6), (10,0), speed 0 and 6 | `IInv` (targets and reference in the limits), `NobodyWaits` (a reference away from its target can move unless the circle is in the way, `OpenWay`), moves are bounded, a target that stays is reached where the circle is not in the way |
| `reference_arrives` | equal rates, targets (8,6) and (10,0) | violation: see section 5 |
| `can_node` | 2 emergency slots, 1 trouble, all four NMT commands, producer time on and off | `NodeSafety` (the ring, a loss is told; `RpdosAreSound`: whole frames, no old ones, errors stop RPDOs), states are told while there is a producer time |

Why the bounds are enough. In the lifecycle only zero and non-zero references
are told apart, but for the speed ramp, where 2 makes it take more than one tick;
two samples make the time-out meet a calibration that is under way, about to
complete and complete; every turn allows a new command, and two in a turn
(`drive_stale_clear`) let one be followed by another before the next update. Generations modulo 4 is the
least modulus in which newer and older differ, and every long enough run wraps. The service counts
nothing, so its model has no bound. Of the six Hall sectors the code asks only which
follows which, and four already have a neighbour on each side and a sector that is none.
A period of 3 ticks has a tick at the wrap, one after it and one that is neither, and is
the least above twice the latency, which the firmware meets by orders of magnitude (a
priority 1 interrupt against 100 ms). `Burst` is the number of edges that may come before the
chain has consumed the first; 2 makes an edge meet the serving of another and gives the
decoder a missed capture. In the fault manager one cause per writer suffices, for the
store of a writer treats all bits alike, and both being causes of the interrupt too lets them meet
in every order. The two sets of limits make every move bend at the circle, meet a range and
change under a stored target. A FIFO of two has a place that is free while another is taken; two versions
let a message be overwritten while its predecessor waits, and after that every
behaviour repeats with other numbers; two slots of the emergency ring are full with
one loss and empty again. `MaxVersion` caps `data` in the guards of the senders, and
`MaxTroubles` the bus-offs of a behaviour. All state spaces are explored completely.

### Fairness

- `DriveLifecycle`: the tick is weakly fair, for SysTick comes whatever happens.
  Main is strongly fair: it is disabled while a tick is on top of it, and no load of
  the tick keeps it from running for ever. That ADC interrupts come
  (`WF_vars(FastLoop)`) is no part of the specification but a premise of `StopEnds`, the one
  property that needs it: `CalibrationEnds` is shown without it, for the 1 kHz
  time-out is there for an ADC that delivers nothing, and so is `FaultTurnsPwmOff`, for main
  finds what the interrupt left on. That a rotor which is not driven
  runs down (`WF_vars(RotorSlows)`) is the other premise of `StopEnds`.
- `ParameterStore`: main goes on (`WF_vars(Main)`). Power loss and the debugger have
  no fairness.
- `Cia402`: main and the interrupt go on; a master does not ask for a reset in
  every call (strong fairness of `ReceiveAny`, which a reset request would
  otherwise shut out); a calibration and a dwell that can end do end, which is what
  `drive` shows of them.
- `HallChain`: the counter counts, a raised interrupt is served and the ADC interrupt comes
  (weak fairness of each). The rotor owes nothing: that it stands still is the premise
  of `StandstillIsSeen`.

- `ReferencePath`: the ADC interrupt comes (`Control`), the tick and main finish a publication
  they have begun; nobody has to send a command.
- `CanTransmit`: main goes on (`TxMain`). That the bus empties the FIFO before a flush again and
  again is the premise `BusKeepsUp` of `LatestArrives`: on a bus that is busier, the flush
  takes the lowest index first and a heartbeat may wait for ever.

## 4. What is proved

For all values of the constants, under the assumptions named in the modules
(`CommandsAssumption`, `BoundsAssumption`, `SetsAssumption`, `HalfAssumption`, ...):

- **Drive lifecycle.** `IInv` is inductive (`Inductive`), and from it follow
  `TypeOK`, `FaultBoundsOutputs`, `CalibrationBeforeOutputs`, `ReadyIsOff`,
  `ApplyIsExclusive`, and the action properties `StartsFromZero` and
  `SpeedStopsAfterDwell`. None of these is inductive by itself: that outputs are
  on only under a RUNNING state says nothing of a start that is half done. `IInv`
  therefore says, for every program point of main, what the shared words hold
  whatever the interrupt and the tick did since (`FlagFollowsOutputs`,
  `OutputsAreAccountedFor`, `ModeIsAccountedFor`, `StartIsCold`, ...): the interrupt
  only ever moves towards off, and the tick only follows the mode.
  These proofs do not assume `DisciplinedClear`. Under it, `Held` is preserved too: a request waits only
  while main is between two operations or disables the drive itself (`ClearIsGuarded`), so that an
  operation that sees the latch free at its end has seen no fault at all, and what a start or a stop has reached is still there
  (`ControlIsHeld`). From it `RunningIsControlled`, `ClearedOnlyWhenOff`,
  `FaultedLeavesByRecovery`, and that the lifecycle implements `AppContract` (`KeepsContract`).
- **Parameter storage.** `IInv` (the two records are neighbours in the order of
  generations, the manager stands on a record that is there, the one being written
  is its successor) is inductive, and `Durability` proves that the
  two-slot protocol implements `DurableParameters` for every even modulus from 4
  on, hence for the 32-bit counter. With a debugger that writes between turns (`Undisturbed`) a turn of main
  is whole (`TurnIsWhole`): the set that is applied is the one that is copied, and the request
  served the one that was looked at. From it `BootableRecords`, `ActiveIsApplied`, `MaintenanceIsQuiet`.
- **CiA 402 service.** `IInv` ties the state of the service, its latches and the
  App's lifecycle together at every point of the call; from it `EnabledIsRunning`,
  `StartedIsOwned` and the action property `AcknowledgedExit`. `CallsAreCoherent` adds what a call
  has decided and a fault has not overtaken: a recovery is of a drive nobody took up
  (`OthersKeepRunning`), an error code runs ahead of its state by one call (`ReportSettles`), an operation
  under way is the one it was called for, of a calibrated drive (`KeepsContract`). From `IInv` too
  `ClearsAreDisciplined`, the assumption the lifecycle's theorems make.
- **Hall chain.** `IInv` is inductive (`Invariance`), for every number of sectors, period,
  burst and every latency below half a period; from it `TypeOK`, `RateIsMeasured`,
  `TimeoutIsReal` and `SectorSettles`. That a published rate is the true interval needs to be
  known of the count from the edge to its publication (`ReferenceIsGood`), for which
  an edge has to be served before the counter wraps again (`EdgesAreServedInTime`) and an update
  flag at a capture has to be the one the interrupt saw on entry
  (`UpdatesAreAccountedFor`); `SectorsAreAccountedFor` says where a difference between rotor,
  driver and decoder is still being worked off. The bound on the latency is needed: with a
  period of twice the latency TLC finds an edge that waits over two interrupts, and
  whose count is called valid after a wrap. `ChainIsCoherent` follows an edge beyond the driver: a
  clean one is alone in the chain until the decoder has it (`CleanEdgesDecode`), carries its own interval
  (`SpeedIsTrue`), and decoder and estimator keep no observation past a failure (`EstimatorFollows`).

- **Fault manager.** `IInv` (`Invariance`) says what a preempted latch holds in its registers and
  that the active mask follows the levels; from it `ActiveIsHeld`, `FaultStays`
  (for overlapping updates too), `ClearedIsCalm`, and the refinement of `FaultSession` as long as
  the updates are serialised, for all sets of causes.
- **Reference path.** `IInv`: what main and the tick have under way is prepared in the limits in
  force, the limiters stand at the reference, no limits change under a mode. It contains
  `TargetInLimits` and `ReferenceInLimits`, which are not inductive without the rest, and gives
  `MovesAreBounded`, for all integer limits, rates and requests. Where a target that stays is not reached, the
  rectangle between it and the reference leaves the circle (`OpenTargetReached`). Zero is always in the open
  (`ZeroReached`), and so is every target of the speed controller, which has no d
  (`SpeedTargetReached`, from the invariant `SpeedOnQ`), and every target at all where no current command
  has a d (`TorqueTargetReached`, from `AllOnQ`), as none of CANopen has (`canopen_service.c`): what finding 3
  of section 5 shows takes a command of the debug source.
- **CAN transmit.** `CountIsFull` from the types; that a flush has passed no waiting buffer (`FlushPassesNone`) gives
  `FlushOrder`; that versions rise from the bus over the FIFO to the stack
  `BusOrder`; that they do so without a gap `EachOnce`. For every size of the FIFO.
- **CAN node.** `NodeSafety`, `WholeFrame` with `OldFramesAreDropped` (one invariant over the
  half-done pass), `ErrorsStopRpdos` (what each point between register and pass knows of
  the register) and the action property `StatesAreTold`, for any number of slots. The latter is conditional on a
  producer time, as the code is (`CO_NMT_Heartbeat.c:188`): its invariant `ToldInv` says that a producer which is "on"
  has told the state of the last turn, which a write of 0x1017 takes back until the next heartbeat.

Each proof has one step per action. Every safety invariant and every action property the runs
check is proved, but for the ENABLED invariants below.

### Liveness

Every liveness property of a passing run is a theorem too, for every value of the constants. The
prover has no rules for ENABLED and no induction over a behaviour, so each theorem names
what it takes instead:

- **What can be done is done.** Fairness speaks of steps that are enabled. That a step
  is enabled where the argument needs it is the premise `[]NobodyWaits` (`[]MainGoesOn`,
  `[]TxGoesOn`), a state predicate made of implications `... => ENABLED <<A>>_vars`. The runs check it as
  an invariant of its own, so the premise is not taken on trust but shown on the small instances; its
  mutants are the deadlocks a change of the code could bring (a refused call that is waited for,
  an unseen counter, a publication only under a mode).
- **No natural number falls for ever.** `NaturalsEnd(n, vars)` of `Descent` is true of every behaviour
  and every expression n; it stands in a theorem wherever a count brings about the end. The theorem
  proves that the count stays natural, never rises and falls with every fair step. The counts are those of the
  code: what is left of the calibration time-out, the speed ramp and what is left of the dwell, the
  ticks before the counter of TIM2 wraps, the distance of the reference from its target, the versions
  that are still to be written.

| theorem | the argument |
|---|---|
| `FaultOff` | a fault that leaves the outputs on has met main in a start or a stop; main is then at most six steps (`OffDistance`) from its own check or stop, none of which waits for anybody but the tick. No cycle of the ADC is needed |
| `CalibrationIsBounded` | the tick counts up to the time-out; then main finds it raised, and the compare-and-swap leaves COMPLETE or FAILED, which the next turn acts on |
| `StopIsBounded` | six stages in order (`Waits`): the limiter is at zero, the tick has seen it, the rotor has left its speed, it stands, the feedback says so, the dwell is counted; no step takes a stage back, and main then finds the stop confirmed |
| `RequestsServed`, `HeldRequestsServed` | for each kind of request `Distance` gives every point of main a rank that each of its steps lowers; no turn that can serve the request passes it over |
| `FaultIsLeft` | a calibration or a stop the App is in ends, and the App comes to rest; a call that finds it so has four steps (`ExitDistance`) to the recovery or past a READY drive. Without a debug source, which may start the drive anew under FAULT |
| `StandstillSeen` | once no edge comes the interrupt serves what is raised, the counter comes to its wrap, the driver publishes the time-out for good, and two cycles of the fast loop decode it |
| `OpenTargetReached` | a start that has met a fault is ended by its recheck; from then on each cycle that changes anything brings the reference nearer to its target, what is left of the rectangle stays in the circle, and nothing takes the reference away |
| `LatestIsShown` | the versions run out (`Untold`); then three turns that begin with an empty FIFO bring out emergency and TPDO, the answer, the heartbeat, each for good |

`LatestIsShown` needs `FifoSize >= 2`. With one element the turn of main sends a lower buffer first and
the heartbeat waits for ever; TLC shows it with `FifoSize = 1`. The FDCAN of this MCU has three, and the
assumption on the constant allows 1 because the adapter does. The theorems of the lifecycle keep
`DisciplinedClear`: a stale clear request releases a latch before the outputs are off. In `CalDistance` and
`StopDistance` a clear costs main two steps of its turn and ends it, so that not even a source that asks for
one in every turn keeps a calibration or a stop from its end.

What stays with TLC: the ENABLED invariants themselves, and the properties of the violation runs.
That no arithmetic beyond integers enters is an abstraction of the models, named in each.

## 5. What disagrees with the code

Shown by a run:

1. **A stale clear request** (`drive_stale_clear`). `app_request_fault_clear()` looks
   at the latch, then stores the request; if an earlier request was served in
   between, the new one waits for the next fault and releases it at once. A start
   that is under way then sees no fault at its recheck and stores RUNNING over
   FAULTED, with the control mode disabled. One clear at a time, the last
   command of its turn (`DisciplinedClear`), excludes it; the service keeps to that as long as the ADC interrupt
   serves a request within the millisecond before its next call (`InterruptIsFaster`).
2. **No way to zero a reference in FAULTED** (`drive_reset`). A fault under a non-zero
   reference can be cleared only after the reference is zero, and no operation of the
   router zeroes one in FAULTED.
3. **A reachable target that is never reached** (`reference_arrives`). With equal rates a
   reference on the circle, (8,6) A, whose target lies further along d inside the limits,
   (10,0) A, is cut back to where it stands in every cycle (`motor_control.c:218`). It takes a command with
   a d (section 4, `TorqueTargetReached`).

Met while modelling, without a run of their own:

- **An edit in the middle of an apply.** Range check, apply and copy to the active set read the memory the debugger
  writes three times (`drive_parameter_manager.c:117-119`): the active set is then not the one the controller runs
  with (`drive_parameter_manager.h:37`). With `Undisturbed = FALSE` in `MCParametersStore.cfg` TLC shows it at
  `ActiveIsApplied`.
- **A request beside the maintenance window.** The decision to open a window reads the request counters apart from the
  choice of the request (`main.c:226`): one raised in between is served with the ADC trigger running
  (`docs/flash_parameter_storage.md:6-7`). With `Undisturbed = FALSE` TLC shows it at `MaintenanceIsQuiet`.
- **A sender passes the backlog.** When the bus frees a place after a refused flush, `CO_CANsend()` puts a
  waiting heartbeat or TPDO into the FIFO past a waiting emergency or answer, and leaves it marked, so that it goes
  out again with the next flush (`canopen_fdcan_adapter.c:254-263`); `CO_driver.h:245-246` says of several full buffers that the
  lower index is sent first. No property of `CanTransmit` claims that: `FlushPassesNone` is what the adapter does keep, and
  `EachOnce` holds of emergencies and answers because these look at `bufferFull` first. The header's rule, stated on what is
  appended to the FIFO, is

      [][\A b \in full : Len(fifo') > Len(fifo) /\ fifo'[Len(fifo')].buffer = b
           => \A a \in full : a >= b]_txVars

  and as a PROPERTY with the constants of `MCFaultTransmit.cfg` TLC finds it violated: a TPDO goes past an emergency that waits.
- **Stop dwell.** The tick takes the speed from its first snapshot of the feedback and the validity
  from a second (`app.c:1774`): a feedback that turns valid in between starts the dwell at a
  high speed. `DwellStartsSlow` as a PROPERTY with the constants of `MCDriveStale.cfg` shows it.
- **Quick stop** changes the state of the service and the reference, and does not execute the
  STOP command that `docs/canopen_cia402.md:53-54` names (`canopen_service.c:491`).
- **Serialised faults.** `fault_manager.h:130-132` asks for updates in one context; the calibration time-out
  of main (`app.c:1117`) and the tick (`app.c:1440`) latch under the ADC interrupt. A cause may be
  lost or recorded as the first one wrongly, the fault itself is not (`FaultStays`).
- **A failed calibration** is never started again (`app.c:144`): READY is out of reach until a reset.
- **Double buffers** (`app.c:402`): a reader that is preempted by two publications reads a slot that
  is being written; only the time a copy takes, against the period of the writer, excludes it.
- **A capture of 0 ticks** (`hall_driver.c:309`) is refused, and in a FOC mode that trips the drive;
  an edge before the timer starts (`hall_driver.c:213`) leaves the first sector stale until the next.
- **RPDO time-out.** It precedes other faults in `fault_error_code()` (`canopen_service.c:237`) and withdraws
  the emergency another fault has open.
- **Fault reset by RPDO.** `CO_EM_GENERIC_SOFTWARE_ERROR` takes the node out of OPERATIONAL in the next
  turn, and every NMT start is undone in the same call: a reset edge in the control word of RPDO1 is
  never seen, only one written by SDO is (`docs/canopen_cia402.md:61-63`).
- **An NMT command** that arrives between the switch and the clear of the command
  (`CO_NMT_Heartbeat.c:208`, `:220`) is lost.
- **NMT reset** ends that one call of the service before the state machine (`canopen_service.c:747`); nobody executes
  it, and an enabled drive runs on.
- **`firstCANtxMessage`** is never cleared, so that `CO_CAN_ERRTX_OVERFLOW` is never reported
  (`canopen_fdcan_adapter.c:126`, `:255`, against `CO_driver.h:288`).
- **Start of the FDCAN.** A frame between `HAL_FDCAN_Start` and `is_started` stays in the FIFO until the
  next one (`fdcan_driver.c:96-102`), and a bus-off has no recovery.

## 6. Not modelled

The control arithmetic (PI, transforms, SVPWM, filters, observers): floating-point data flow
within one cycle, out of TLC's reach beyond small grids. Encodings (CRC, object
dictionary layout, unit conversions). The open-loop mode, which nothing starts. SDO transfers,
LSS and the configuration of PDOs. The sums of the offset calibration. Register set-up and
everything generated by CubeMX. HAL, CMSIS and CANopenNode make up nine tenths of the
repository's lines; of them only what the models above meet is mapped. Of the firmware's own code
(about 14 700 lines under `Core/` without the stack and the generated dictionary) the
definitions stand for about 30 %.

## 7. Plan

What is there was built in the order of what a failure would cost: the lifecycle, the
parameter storage, the service on top of the lifecycle, the Hall chain below it, the fault
manager, the reference path, CAN. What comes next, in this order:

1. **OffsetCalibration** (`current_sensor.c`): the compare-and-swap between completion and
   abort, with the sums read while the interrupt adds to them.
2. **Double buffers** (`app.c:371-463`): one module for the pattern that five pairs of buffers share; a
   reader that is interrupted by two publications is the case to settle.
3. **Arithmetic on small grids**: anti-windup of the PI controller, the
   common-mode shift and the limits of the SVPWM, against reference definitions.

No property of a passing run is left without its theorem, but for the ENABLED invariants.
