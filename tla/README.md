# CLAMIR: a TLA+ model of the laser-cladding controller

`clamir-linux-common` is the part of the CLAMIR camera that runs on Linux. It
watches the melt pool of a laser-cladding process through an infrared camera,
computes the width of the pool for every image, and sets the laser's power so
that the width stays at its reference. The FPGA that acquires the images and
drives the outputs is reached through memory-mapped registers; an operator
reaches the same registers through 32-bit commands, which arrive as calls of the
D-Bus method `command_processor_legacy` (the program that bridges them from the
network is not in this repository).

This directory models that program in TLA+, checks the models with TLC on small
instances, and proves the main invariants with TLAPS for every value of the
constants. The models are translated from the code; the one document of
behaviour the repository has, `TODO.md`, is used only as something to compare
with. Paths below are relative to the repository.

## 1. The system

| component | state | operations | interacts with |
|---|---|---|---|
| **Process loop** `src/drivers/process_core.cpp` (`nit_process_core_run`) | the automaton (`estadoAutomata`, `mode`, tracks, delays), the nap (`measurement_NAP`, `cont_calibration`), the regulator (`integral`, `potencia_t0`), the alarm | one iteration per image: latch registers, sleep until the image, handle it | every register; the FPGA's frame and metadata |
| **Registers of the process core** (same file) | shared memory of 48 words | `process_core_unsafe_set/get` | written by commands while the loop runs |
| **Command router** `src/clamir_service.cpp` | the table of routes | `command_processor_legacy`: decode, find, read or write; one thread dispatches all calls | all drivers, and the loop through their registers |
| **Sensor calibration** (same file and `src/drivers/scc_core.cpp`) | shutter, offset update, `opmode`, `calibration_mode`, `calibration_bypass`, two images | `sensor_calibrate`, `background_remove`, `nit_scc_core_calibrate` | shares the shutter with the loop's nap |
| **Service start, configuration files** (`clamir_service.cpp/.hpp`) | one XML file per driver | `initialize` (load, or save and load), `save_all`, the save command | the drivers' configurations |
| **Drivers** `control_unit`, `arm`, `mb`, `gen`, `mom`, `roi`, `pwm`, `scc`, `bpc_table`, `framebuffer` | a mapping, `is_open`, a configuration | open, close, get, set, load, save | `/dev/mem` |
| **Thread pool and signal** `core/thread_pool.hpp`, `core/signal.hpp` | queue, `_stop`, workers | submit, worker loop, shutdown; emit | used by applications of the library |
| **Timers, workers, synchronous signal** `components/timer.hpp`, `utils/*.hpp` | listeners, a mutex, running flags | connect, emit, start, stop | pollable workers |
| **Control mathematics** `math/control.hpp`, `components/filter.hpp` | gains, limits, integral | `pid_controller`, filters | tested, not used by the loop |

What is hard in it:

* **Concurrency without locks.** Commands write the registers the loop reads, at
  any moment, word by word; the calibration commands move the same shutter as
  the loop's nap. Nothing is synchronised except by the order of the stores. A
  request that is read and then cleared, and a time kept in two words, are
  exposed to every order of them.
* **Tables written apart.** The routes, the handlers, the field tables and the
  loop's macros name the same registers independently of each other.
* **Counters against counters.** A nap runs two counters and a calibration count
  in step and compares one of them for equality; the end of a process counts
  images with a post-increment; delays, tracks, preheating and alarms count too,
  one of them in 16 bits.
* **What a closed shutter looks like.** In a nap the laser seems to go off and to
  come back, which the automaton could take for a track, for the end of a
  process, or for a width to regulate.
* **Stale state.** A process aborted by a change of `MODE`, an alarm disabled
  while it is shown, a width frozen by a nap.
* **Numeric edges.** Limits that cross, an empty power range, `ki` of zero, a
  negative duty cast to unsigned.
* **Restarts.** Configuration files are truncated and rewritten, never synced;
  they are saved under one name by the save command and loaded under another by
  the start; the registers outlive the process that wrote them.
* **Threads.** The pool's workers decide to sleep under a mutex that `shutdown`
  does not take; an emission walks a list that others change.

`PROJECT.json` lists the hazards at their lines with the properties that cover
them.

## 2. The modules

| module | models | properties |
|---|---|---|
| `ProcessStates` | the numbers of the automaton's states | |
| `Autoshutter` | the nap: requests, `siesta` branch, offset update, timer and temperature triggers; the commands' writes of the shutter and the offset update | 7 |
| `ProcessAutomaton` | mode changes, laser detection, tracks, delays, preheating, reference, end of process | 6 |
| `PowerControl` | PID, integral and slew limits, clamp, PWM duty | 5 |
| `WidthBuffer` | the circular buffer of widths and their average | 1 |
| `WidthAlarm` | the countdown, the alarm and its output | 2 |
| `WidthPath` | the two composed: from the image's width to the alarm | 1 |
| `ProcessCore` | one iteration of the loop, composed of the autoshutter, the automaton, the regulator and the alarm | 5 |
| `SensorCalibration` | the calibration commands of two threads, and what the save command reads of them, beside the loop's nap | 6 |
| `RegisterMap` | the tables of the source: routes, field tables, the loop's macros, constant answers | |
| `RegisterStore` | the abstract command interface: a store of parameters | |
| `CommandRouter` | decoding, handlers and accessors, register access by register access, beside the loop's; it implements `RegisterStore` | 4 |
| `ServiceStart` | start of the service, its configuration files, save commands, crashes and power cuts | 3 |
| `ThreadPool` | workers, `submit`, `shutdown`, spurious wake-ups | 2 |
| `Signal` | `core::signal` on the pool: connect, disconnect, emit; it implements `CallBoard` | 2 |
| `CallBoard` | the abstract asynchronous signal: a board of posted calls | |

`X` is the component, `MCX` with `X.cfg` its instance for TLC, and `XProofs` its
theorems; `MCRegulation` is the instance of both `PowerControl` and `WidthPath`; `RegulationProofs` holds those about the regulator and about the width's
path to the alarm, `ThreadPoolProofs` those about the pool and the signal.

### The iteration of the loop

The loop is split into four components because each has variables of its own
and meets the others in a few values only. An iteration has two halves with a
sleep between them, and commands may write any register before, between and
after:

* `CoreRead` is process_core.cpp:784-847: the loop copies the registers of which
  it keeps a copy, and follows a new `MODE` at once.
* `CoreFrame` is process_core.cpp:853-1309: laser detection, nap or awake
  branch, the automaton, the power, the alarm and the triggers, in this order.
  It conjoins `Frame` (automaton), `AutoshutterFrame`, `PowerFrame` and
  `AlarmFrame`; the values they exchange are its parameters (is this a nap frame,
  will the loop still be asleep after it, which state does the automaton reach).
* `Command` is a write of a register by a handler of clamir_service.cpp, the shutter
  and the offset update included (`ShutterCommand`).

The loop never looks where the shutter is. The calibration commands
(clamir_service.cpp:101, 115, 868, 877) and route 0x0505 move it between any two
frames, and through a shutter that a command has closed the loop measures, and with
the external laser regulates, on darkness. What it promises is therefore about
the shutter it has closed itself: `mover` remembers who wrote the shutter last, and
`NeverMeasureInTheDark`, `NeverRegulatesInTheDark`, `OffsetUpdateInTheDark` and
`OpensAfterCalibration` speak of the loop's own. `LoopsCount`, the half of `NapTimeline`
about the counters, holds whatever commands do. `Autoshutter` leaves the order of the
commands' writes open; `SensorCalibration` has it, and `CommandsAreClients` proves that
its commands are such clients.

`ImplementsParts` says that the composition implements each component as
specified alone: the components' specifications are the abstraction, and each
property of a component therefore holds of the loop. `LoopKeepsTheShutter`,
`LoopKeepsTheAutomaton`, `LoopKeepsThePower` and `LoopKeepsTheAlarm` state which.

### The state, variable by variable

The names in the modules are the code's where TLA+ allows. The others:
`napping` is `DIGITAL_OUT_3`, `calibration` is `cont_calibration`, `since` is
`cnt_last_autoshutter`, `trackLength` is `track_length`, `stop` is
`contadorFramesStop`, `samples` is `contadorFramesMidiendo`, `power` is
`potencia_t0` (equal to `potencia_t1` between frames), `reference` says where
`width_ref` comes from (`set`, a mean of real samples, or of none), and
`alarmCount` is `cnt_aux_alarm`. History variables, which only properties
read, are `dark`, `booted`, `quiet`, `lastFrame`, `badRun`, `reloaded`,
`offSeen`, `lostSignal`, `mover` and `unwritten`.

### The commands of the calibration

In `SensorCalibration` a command is a sequence of instructions, one register
write each, translated line by line from `sensor_calibrate`,
`background_remove` and `nit_scc_core_calibrate`. The clients are two threads, the
dispatcher, which runs the commands one after the other, and the application,
which can call `nit_scc_core_calibrate` (no route does). Each has a program
counter. The commands' sleeps (seconds) are longer than frames
(milliseconds), so any number of frames and of other clients' instructions can
fall between two of them. The registers of the scc core belong to the FPGA,
which clears `calibration_mode` when its tables are updated (external).

Opening the drivers writes none of the scc registers, so the model begins with any
(`unwritten` are those that are still as the last run left them): a run that crashed in
a calibration leaves `opmode` in calibrate until a command of this run writes it.
`sensor_calibrate` ends its bypass unless the configuration has one, and a save pulls
the bypass from the FPGA into the configuration (clamir_service.hpp:99): a save while an
application calibrates, or after such a crash, makes a passing bypass the configured
one. `BypassAccounted` says that this is all that can happen to it. `ImagesAreHonest`
excepts a shutter that somebody else has written since the command did: nothing in the
code prevents that, and an image taken then is of the wrong light.

### The width's path

`Average` is process_core.cpp:893-909: the new width goes to the next entry of the
buffer, and the first `circ_buffer_size` entries are averaged. The size is read anew
for every image, so entries beyond a smaller size wait there until it grows. In
`WidthPath` both the buffer and the alarm read their registers at the top of an
iteration; a nap leaves the buffer alone and the alarm looks at the average of
before.

### The commands and their registers

`RegisterMap` holds four tables copied out of four places of the source: the route
of each command with the parameter its handler serves, the words of the accessors
(one field table per core), the words of the loop's macros, and the constants some
reads answer. `RouterAssumption`, which TLC evaluates on them, says that no two
parameters share a word and that the loop means the same words as the accessors.

In `CommandRouter` a call is received, makes its register accesses one at a time,
and returns. Each action is one access: `Store`, `Load`, `StoreHigh` then `StoreLow`
for the two words of `time_track`, `LoadHigh` then `LoadLow`. Calls of an unknown
route, of a core that was not opened (`Openings` are the sets a start that fails can
leave), of a read-only parameter, or of one with a weak accessor only, return the
value they carried (`Ignore`). The loop has the accesses of its own that meet those
of a command half way: test, take and clear of `SET_REF_WIDTH`, and the two reads of
the length of a track. Others' stores (`OtherStore`) are the loop's outputs and the
sensor's temperatures.

`RegisterStore` is what an operator may rely on: each call reads or writes one
parameter at one moment. `Held`, `Live` and `CallSeen` are the refinement mapping. A
write of `time_track` happens, in the mapping, with its upper half; only the
dispatcher can tell, because it is the only one to run commands. The loop is no
client of the store, and sees the halves: `TrackLengthHonest` says
exactly when: if a command that changes the upper half falls between the two reads.

What the model says of the code, beside its properties:

* parameters without an accessor of their own (0503, 0507, 0508, 050B, 050C, 0520 and
  0522) and reads of the save command (0523) echo what the call carried;
* no call reaches the route 04A5: bit 7 of a call is its read flag, so the word 04A5
  arrives as a read of 0425, which is the same register;
* the serial number is read as 0x0031, the last two bytes of its text (the default
  one; the configuration or `bpcc.sys` may replace it);
* 040E and 041A to 041C hand the driver of mb to accessors of arm, which is undefined.

### Starts, files and crashes

`ServiceStart` follows `clamir_service::initialize` file by file: it opens the
drivers, and then for each configuration file tries to load it; when that
fails it saves the file from the registers (`OpenFile` truncates it, `CloseFile`
ends the write) and goes on. `clamir_service_dbus::initialize` ignores the
result, so a start that fails halfway serves commands all the same (`Degrade`).
Commands write registers and save files at any time, under other names than
those a start loads (`BootName`, `SaveName`).

`Crash` ends the process anywhere and leaves the registers as they are, for
they belong to the FPGA; what the process keeps in anonymous memory
(`Volatile`) is lost. `PowerCut` also resets the FPGA, and may tear any file, as
nothing is synced. The history variable `lost` says that a write of a start was
refused, or lost when its stream was closed; the code does not notice the
latter, and the properties assume neither happened.

`UnsavedIsForgotten` is what a start owes to a crash: the shutter is open, and a
setting has its factory value or the one last saved, never one a command wrote and
nobody saved. It holds of the code as it is, and asks the same of one that restores
what was saved.

What the model says of the code, beside its properties:

* because the names differ, the file a start loads keeps what the first start
  wrote: what an operator saves is never loaded, which `SavedSettingsReachStart`
  shows (it would hold if the two functions agreed on the names). It is also the only
  reason why a shutter saved in the middle of a nap is not restored closed, on which
  the initial state `shutter = 0` of `Autoshutter` rests: a repair has to leave
  the shutter (`Momentary`) out of the file;
* a torn file of a driver heals at the next start, but the service's own file
  makes every later start fail before it opens anything;
* the scc core is an exception: it is loaded straight into the configuration in
  memory, and what a torn file leaves half read is saved as the new file;
* the duty of the PWM is saved and not restored: until the first frame the
  power of the last run stays in the register.

### The thread pool

A worker of `ThreadPool` is at one of six points: `check` (`while (!_stop)`), `lock`
(it wants the mutex to test the predicate of `wait`), `gap` (the predicate was
false and it has not slept yet, with the mutex held), `asleep`, `run`, `ended`.
Of these only the gap holds the mutex from one step to the next, so `MutexFree` is
an empty gap. `submit` needs the mutex, `SetStop` and `NotifyAll` do not. A
notify_all that comes while a worker is in the gap wakes everyone else, and
that worker sleeps for good: `missed` records it, `ShutdownEnds` holds of the
other shutdowns, and `ShutdownMissesOnlyTheGap` proves that nothing else goes
wrong.

`Signal` runs on it. `Emit` takes the signal's mutex, `SubmitSlot` submits one task
per slot and `EmissionEnds` lets the mutex go; `Connect`, `Disconnect` and
`DisconnectAll` need it free (`SignalFree`). A task owns a copy of its slot, so it runs
even if the slot is disconnected while it waits.

`CallBoard` is what a program may rely on: an emission posts a call for each slot, all
at one moment; threads begin the calls in the order in which they were posted, each
once; after the board begins to close a thread begins one more at most, and when it is
closed nothing runs. `Board` is the refinement mapping: `Waiting` is the queue followed
by the calls the emission has still to submit (so the moment of a post is `Emit`, and
`SubmitSlot` changes nothing), `Phase` comes from `_stop` and the return of the join,
and `Willing` are, after `_stop`, the workers that had passed `while (!_stop)` before
it.

### Abstractions

* Doubles are integers, and the gains act on them with integer arithmetic. What
  the properties ask (order, bounds, signs) does not depend on the fraction,
  except that the integral limit and the duty round towards zero.
* The measured width is any value: how the moments of an image make a width
  (`calculate_width`) is left out. The average is an integer quotient, and exact in
  the instance. The error handed to the regulator is any value.
* In `ProcessAutomaton` and `ProcessCore`, `TIME_TRACK_HIGH/LOW` are one register,
  already in frames, the read-then-clear of `SET_REF_WIDTH` is one step, and `W` is
  any value; `CommandRouter` and `WidthPath` have them in full. `MODE`, which the loop
  reads twice in a row, is read once; the read-then-clear of `AUTO_SHUTTER` is one
  step.
* A session of `CommandRouter` is the set of requests that are sent, in any order and
  any number of times; a background removal is one interval (`Calibrate`, its steps
  are in `SensorCalibration`).
* Left out of the frame: LEDs, metadata words, syslog, the sensors'
  temperatures t1 and t2, the image semaphore, `PID_ERROR`, the writes of
  `CHANGE_OP_MODE`.
* The environment assumption of `ProcessCore`: through a closed shutter the
  camera sees `DarkMoment`; the instance takes one below both laser thresholds.
* An operator's direct write of the shutter (route 0x0505) is left out of
  `SensorCalibration`: what it closes is the operator's to open.
* Opening a driver succeeds in `ServiceStart`. A file is absent, torn or whole and
  holds the registers of its driver; the XML between them is left out. A power cut
  tears one file at a time.
* A pool is shut down once, has at least one worker (`hardware_concurrency()` may
  be 0, and no task would run). A task is the call of one slot by one emission, and
  `MaxEmissions` bounds these. A task ends by returning
  or by throwing, which is the same to its worker. A slot is connected at most once at
  a time.
* Counters the code lets grow saturate at named bounds: `MaxSince`, `MaxTrack`,
  `MaxSamples`, `MaxQuiet`, `MaxRun`, and `dark` at `NAP_DURATION`. Each bound is
  above what its counter is compared with, which the assumptions state.

## 3. The runs

| run | module | what it shows | states |
|---|---|---|---|
| `autoshutter` | `MCAutoshutter` | the nap's timeline, with commands moving the shutter; no measurement through a shutter the loop closed, no early offset update; naps end; the periodic autoshutter keeps firing | 102 240 |
| `regulation` | `MCRegulation` | limits, slew, anti-windup and duty under registers that change between frames; nothing older than the window is averaged; the countdown is exact, only persistent faults raise the output, and they do | 52 297 |
| `router` | `MCCommandRouter` | every route of the source: the commands are a store of parameters; a requested reference is kept and taken; a track's length is put together from two commands exactly where one that changes the upper half falls between the two reads | 21 035 |
| `automaton` | `MCProcessAutomaton` | MANUAL and mode 2 agree; processes start fresh, end patiently, and do end | 361 392 |
| `core` | `MCProcessCore` | the composition implements its parts; with commands moving the shutter, a nap neither makes the loop regulate in the dark, nor counts as a track, nor ends a process | 383 776 |
| `calibration` | `MCSensorCalibration` | nobody leaves the shutter closed, the sensor in calibration or its correction bypassed; images are taken in the right light unless somebody else moved the shutter in between; the shutter opens again | 60 976 |
| `start` | `MCServiceStart` | what nobody saved outlives no run, and the shutter is open after a start; torn files heal | 1 164 374 |
| `pool` | `MCThreadPool` | full width; signal and pool implement `CallBoard`, and each call is made; a shutdown ends unless it came in a worker's gap | 42 225 |
| `end_of_process` | `MCProcessAutomaton` | *violated*: `END_OF_PROCESS` images without signal do not end a process, two more are needed (comment at process_core.cpp:48) | |
| `tracks_awake` | `MCProcessCore` | *violated*: with the external laser input, tracks are counted during a nap (`TODO.md:61`) | |
| `calibration_wait` | `MCSensorCalibration` | *violated*: `nit_scc_core_calibrate` enables processing before the calibration is complete (comment at scc_core.cpp:1224) | |
| `saved_settings` | `MCServiceStart` | *violated*: a start restores what the last save holds (the aim of `TODO.md:22-25`); `save_all` and `initialize` name different files | |

**Bounds.** The instances keep every comparison that the code makes on both
sides. The nap of `MCAutoshutter` has six frames around a calibration count of
four, so that each phase of the code's 750 around 651 has its frames and the
loop sleeps on after the shutter has opened; timer targets fall inside and
beyond the nap; one client stands for all commands, as only who moved last matters.
`MCProcessCore` takes the shortest nap that sleeps through its opening and an `END_OF_PROCESS` of exactly the nap less two, where
`NapSparesProcess` is tight. `MCProcessAutomaton` has moments below, between and
above the two laser thresholds and a process of two tracks measured on the last.
`MCRegulation` has a buffer of three entries with `BUFF_SIZE` below, inside and
beyond it, averages in the band and on each side of it, and a counter of four values
with an `ALARM_TIME` that wraps; and five register files of the regulator: nominal,
crossed limits, no integral part and no slew, limits below the range, and an empty
range. The two share no variable, so a behaviour runs one of them
(`running`) while the other stays at its start.
`MCSensorCalibration` has the two threads, so that two calibrations, or a save and a
calibration, and a nap overlap. `MCCommandRouter` takes each route of the tables in a
session of its own, with two values to write and a read, after each start that can fail; besides, sessions
that set the reference width (two values, a request, its withdrawal) and the time of a
track. Registers keep 16 bits of a value; `WORD`, `UNIT` and `TICKS` are small, so that
the values 1 and 3 fall on both sides of what the lower word of the time holds.
`MCServiceStart` has one driver of each kind the start treats differently.
`MCThreadPool` has two workers, so that one may run while the other sleeps or is on
its way, and two emissions to two slots: up to four tasks.
What is proved (section 4) does not depend on these numbers.

**Fairness.** The loop runs until shutdown, so its read and frame are weakly
fair, and so is each of its register accesses in `CommandRouter` (`LoopStep`). A
command that has begun runs to its end, so `Execute` is weakly fair in
`SensorCalibration`. In `ThreadPool` threads are scheduled and tasks end (weak
fairness), and who keeps asking for the mutex is given it at some time (strong
fairness of `Take` or `Leave`, as others take it in between); the same holds of the
thread that emits in `Signal`. Spurious wake-ups and the shutdown are not fair.
Nothing obliges an operator or a client to act, so writes, requests, new commands
and emissions are not fair. `PeriodicNapsRecur`, `AbandonedProcessEnds`,
`PersistentFaultAlarms` and `RequestServed` state what more they assume of
the environment in their hypotheses.

Deadlock is checked in every run but `pool`, which stops after a shutdown.

**Mutants.** Definitions named `X_Slip` restate a definition `X` with a
plausible slip (a dropped guard, a missing reset, an order swapped). With `X`
replaced by the slip, the property `PROJECT.json` pairs it with is violated: each
property can be broken by the code going wrong.

## 4. The proofs

TLAPS checks every theorem below for all values of the constants that satisfy
the modules' assumptions.

| module | inductive invariant | theorems |
|---|---|---|
| `AutoshutterProofs` | `AutoshutterTypeOK /\ NapTimeline` | type correctness, `NapTimeline`, `NeverMeasureInTheDark`, `OffsetUpdateInTheDark`, `OpensAfterCalibration` |
| `RegulationProofs` | `PowerTypeOK` with the last frame's facts | type correctness, `OutputWithinLimits`, `SlewBounded`, `IntegralBounded`, `DutyOnScale` |
| (same, of `WidthPath`) | `AlarmTypeOK /\ CountdownExact` | `CountdownExact`, `OutputRaisedByFault` |
| (same, of its buffer) | `BufferInv` | `WindowHoldsTheLast`: what is averaged are the last widths, each once; `WindowAverage`: the width is their average |
| `ProcessAutomatonProofs` | `AutomatonInv` | type correctness, `ManualIffMode`, `NothingCarriedOver`, `ProcessEndsPatiently`, `ReferenceIsMeasured` |
| `ProcessCoreProofs` | `CoreInv`: the four invariants and what the automaton remembers of the dark | `ImplementsParts`, and with it the parts' properties; `NeverRegulatesInTheDark`, `NapMakesNoTrack`, `NapSparesProcess` |
| `SensorCalibrationProofs` | `CalibrationInv`: `NapCount`, `ShutterAccounted`, `OpmodeAccounted`, `BypassAccounted` | type correctness, `ShutterAccounted`, `OpmodeAccounted`, `BypassAccounted`; with `MoverTells`, `ImagesAreHonest`; the commands are clients of `Autoshutter` |
| `ServiceStartProofs` | `ServiceInv`: `FirstContents`, `WholeOrFresh`, `StartProgress`, `Served` | type correctness, `StartHeals`, `UnsavedIsForgotten` |
| `CommandRouterProofs` | `RouterInv`: types, `CallInv`, `RequestInv`, `TrackInv` | `RequestKept`, `TrackLengthHonest`, `ImplementsRegisterStore`; `RequestServed`, if a running loop can go on |
| `ThreadPoolProofs` | `PoolInv`: `GapSeesNothing`, `FullParallelism`, `OnlyTheGapMisses` | type correctness, `FullParallelism`, `OnlyTheGapMisses`; after a shutdown that missed nobody `EveryWorkerEnds`, if workers can go on |
| (same, of `Signal`) | `BoardInv`: types, `EachCallKept`, no slot twice | the signal feeds the pool (`SignalSpec => PoolSpec`), `EachCallKept`, `ImplementsCallBoard` |
| (same, of `CallBoard`) | `OnceInv` | `EachCallOnce`, `ClosedIsQuiet`, which the signal inherits (`CallsRunOnce`) |

How the arguments go:

* **Nap.** "The loop measures with the shutter open" is not inductive: it
  depends on the shutter having opened in time. `NapTimeline` ties the two naps
  and the calibration count together by their difference, and the shutter and the
  number of dark frames to the count; the assumption used is that a nap
  outlives its calibration (750 > 651), which is what makes the last frames of a nap
  light. A command's write of the shutter ends what is said of it until the loop moves
  it again, and touches no counter.
* **Power.** The bounds follow from the frame's last steps (limit, clamp) and from
  two lemmas on integer division.
* **Automaton.** `NothingCarriedOver` speaks of the steps that begin to preheat and to
  measure: IDLE forgets the counts of the process before, and `CleanStart` keeps them at
  zero through PREHEATING, until the first measuring frame. `ProcessEndsPatiently` needs `stop <= quiet` in CONTROL: the frames
  that count towards the end are frames that did not regulate.
  `ReferenceIsMeasured` needs that a pulsed process at or past its first
  reference track has summed a sample.
* **Core.** A nap that closes the shutter makes the automaton see the laser off;
  the invariant says what it then remembers: if the laser was not seen off
  but by a nap (before an open shutter, or one that a command has moved), `stop` is at most the dark frames so far, so
  an `END_OF_PROCESS` no less than the nap's frames less two outlasts it.
* **Calibration.** Each program that writes *closed* to the shutter writes it again
  before its last instruction (`GivesBack`, shown for each program and for their
  concatenation); the calibrating `opmode` and the bypass likewise, the bypass unless
  it is configured. So whoever wrote the closed shutter is still at work; an
  instruction of another client or a frame of the loop either leaves that alone or
  writes the shutter itself. Of the images: each program that takes one has written
  the shutter before it and not since (`Honest`, again for each program and for their
  concatenation), and `MoverTells` says that the last writer finds the shutter as it
  left it.
* **The width's window.** The entries have ages: `BufferInv` says that one no older than
  the last change of the size is the width of that age. A new width goes to the place
  whose age would pass the size, and every other entry grows one older (`AgeGrows`).
  When the size shrinks below the position, the first width after it goes to place 0,
  where the count of widths since the change begins too. That gives the widths; the
  code adds them by place and `WindowAverage` by age. The last step is therefore that a
  sum does not depend on the order in which it is taken, nor on the places it is taken
  over: `SumIs` shows that the recursion of the library is a table of partial sums,
  `SumFromAny` that any index may be taken away first, and `SumMoved` takes the sum
  along the bijection from place to age. As the library's induction theorems need an
  operator, each induction looks at a least number or a smallest set in the set of
  counterexamples (`LeastNumber`, `SmallestSet`).
* **The loop's parts.** `ImplementsParts` gives each part its initial states and its
  steps, without the fairness of the part on its own. From those `ProcessCoreProofs`
  has the part's invariant, and the step lemmas of the part's module (`OffsetStep`,
  `EndStep`, ...) give its properties.
* **Starts.** The files a start loads hold what a start wrote, whole, or are torn or
  missing (`FirstContents`, `WholeOrFresh`); `StartProgress` says of each file the
  start has passed that it is whole and its registers are those of the file. Once
  the start is through, this covers all files (`Served`).
* **Commands.** `RequestInv` says for each point of the loop what a pending request
  looks like in the register, `TrackInv` for each point of the loop and of the
  dispatcher which of the two halves are of which time, and that they are the
  quotient and the remainder of one product. The refinement has one lemma per
  kind of access: what it does to `Held` is a step of the store, or nothing.
* **Requests are served.** `RequestIsServed` follows the loop from the point where a
  request finds it to the next test, take and end of that take; each point leads to the
  next by the weak fairness of the loop's steps. `WaitsThrough` shows that meanwhile a
  command can only change the value, withdraw the request or come too late, and all
  three end the wait. The hypothesis `LoopGoesOn` says that a loop with all drivers open
  can take a step, which the prover cannot see: at every point one disjunct of
  `LoopStep` asks for that point and for no more (at the test, for the opened drivers).
* **Signal.** Each step of the signal is a step of the pool or leaves it alone, so the
  pool's theorems hold of it. A slot's call moves from the emission's list to the
  queue, to a worker's hand, to `done`; `EachCallKept` is inductive with the types.
  `Emit` is the post of a board, `Take` the beginning of a call and `Run` its end; what
  is left is that `Waiting` stays as it is when a call moves from the list into the
  queue. A call cannot be posted twice because an emission has its own number and a
  list has no slot twice.
* **Pool.** A worker in the gap saw an empty queue and holds the mutex, so the
  queue is still empty when it sleeps; from then on each task that `submit` adds
  brings a sleeping worker to the mutex, and each worker that takes one leaves it.
* **Shutdown.** When the notify of a shutdown missed nobody, no worker sleeps or is
  about to (`AllWoken`), the mutex is never held from one step to the next, and each
  worker goes from its task to the test of `_stop` to its end: `EveryWorkerEnds`, for
  each of any number of workers, from the fairness of that worker alone. `WorkersGoOn`
  is the hypothesis on `ENABLED`: at each of these points the worker's action asks for
  nothing more. `ShutdownEnds` adds that then all of them have ended at one time and
  the join returns, which is an induction over the set of workers in temporal logic.

The type invariants of `ProcessAutomaton`, `SensorCalibration`, `ServiceStart` and
`ThreadPool` are proved and not run.

Model-checked only: the liveness properties `NapEnds`, `PeriodicNapsRecur`,
`PersistentFaultAlarms`, `AbandonedProcessEnds`, `ShutterReopens`, `SlotsCalled` and
`ShutdownEnds`. Each counts something down (frames, a program's instructions, a
queue, workers), and an induction inside a leads-to is out of this prover's reach.
`RequestServed` and the end of each worker need no count, and are proved from fairness
up to the two hypotheses on `ENABLED` above. Every invariant, action property and
refinement that a passing run checks is proved.

## 5. What is not modelled, and the plan

The plan orders the parts by how much can go wrong in them:

1. *(done)* the process loop, its composition, and the calibration commands;
2. *(done)* `ServiceStart`: `initialize`, the drivers' load and save, `save_all`, the
   save command, with crashes between the truncation and the end of a write;
3. *(done)* `ThreadPool` and `Signal`, and their refinement of `CallBoard`;
4. *(done)* `CommandRouter` over the tables of `RegisterMap`, and its refinement of
   `RegisterStore`;
5. *(done)* `WidthBuffer` and its composition with the alarm;
6. *(done)* the proofs of what these modules promise, the liveness properties that count
   apart.

Not modelled, and why:

* **The life cycle of the drivers' mappings.** `initialize` opens each driver once
  and nothing in the repository closes one, so a model would have one order of
  steps. Reading shows what a caller of `close` would meet: `arm_core_close` leaves
  `is_open` and the pointer as they were, the guard of `mb_core_close` is inverted,
  `mb` opens without looking whether it is open, and none of the drivers compares
  `mmap` with `MAP_FAILED`.
* **The routes of arm** (040E, 041A to 041C): undefined behaviour with no set of
  outcomes to choose from.
* **Timers, workers and the synchronous signal** (`components/timer.hpp`,
  `utils/*.hpp`): nothing here starts a timer, runs a worker or appends a listener.
  The callers that decide whether their locking is sound are in applications.
* **Control mathematics** (`math/control.hpp`, `components/filter.hpp`): the loop does
  not use it; its own regulator is `PowerControl`.
* **The stub evaluators and the table files of scc, the bad-pixel table**: files read
  into memory, or code nothing calls.
* **`calculate_width`**: floating-point geometry (a square root that may be of a
  negative number, hence NaN, which every comparison of the alarm takes for false);
  the models take its result as an input.
* **`clamir_service::run`** does not run the loop (the call is commented out): the loop
  is a thread of an application that links the library, which the models assume.
* The framebuffer (it draws a moving ball), the LED core, the wrappers of devices,
  the octave and python scripts, the build files, the examples, and the FPGA itself.
