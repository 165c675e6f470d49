# AltOS: models and proofs

TLA+ models, model-checking runs and TLAPS proofs of AltOS, the firmware of the
Altus Metrum flight computers, launch controllers and ground stations. Paths below
are relative to the repository; `kernel/`, `drivers/`, `stm/` mean `src/src/kernel`
and so on.

Contents: [the system](#the-system), [the modules](#the-modules),
[the runs](#the-runs), [fairness](#fairness), [the proofs](#the-proofs),
[findings](#findings), [what is not modelled](#what-is-not-modelled),
[the plan](#the-plan).

## The system

Every board runs the same kernel with a fixed set of tasks chosen by its product
file. Tasks are cooperative: a task runs until it calls `ao_sleep`, `ao_sleep_for`,
`ao_yield` or something that does (a mutex, a delay, a transfer). Interrupt handlers
run between any two instructions at which interrupts are open, write small pieces of
shared state and wake tasks. There is no memory allocation; what crashes is a board
losing power, and what it remembers is in its log and configuration memory.

| Component | State it keeps | Operations | Works with | What is hard | What makes it correct |
|---|---|---|---|---|---|
| **Scheduler** `kernel/ao_task.c`, `stm/ao_timer.c` | run, sleep and alarm queues, task table, tick counter | yield, sleep, timed sleep, wake-up, add, exit, tick | everything | interrupts between two critical sections; a tick counter that wraps; a task on two queues | no task is lost; alarms on time and in order; runnable tasks run |
| **Mutexes** `kernel/ao_mutex.c` | the owner's id | get, try, put | scheduler | the test and the sleep against the wake-up of put | one owner; nobody sleeps on a free mutex |
| **TeleFire pad box** `drivers/ao_pad.c` | armed channels and since when, orders to fire, pins, switch | commands by radio, igniter, monitor, console | launch controller | three tasks on the same bytes; two time limits for one arming | arming ends; pins go off with the pulse |
| **Launch controller** `drivers/ao_lco*.c` | box and pad shown, selections, armed, firing, drag race, what it knows of the boxes | knobs, switches, query, arm, fire | pad boxes by radio, events | lost packets, late answers, selections left over from earlier launches | only what the operator selected and armed is armed or fired |
| **Flight computer** `kernel/ao_flight.c` | flight state, boost and launch times, motor count, landing interval, average acceleration | one turn per sample | samples, igniter, pyro, log | lockout, re-boost and apogee in one branch; bounds kept per interval | landing only at rest, and then surely; burns are counted |
| **Igniter** `kernel/ao_ignite.c` | request, fired, status of two charges; mode and delay | task woken by the flight state; console | flight computer | changes of state missed during pulses and delays | charges fire in their states, apart, never on the ground |
| **Pyro channels** `kernel/ao_pyro.c` | per channel configuration, delay, fired, inhibited | check every 100 ms; console | flight computer | requirements that fail and return; checks stop during a pulse | a channel doubted in its delay never fires; one that holds fires |
| **Log and storage** `kernel/ao_log*.c`, `ao_storage.c` | slots, positions, flight number, erase marks | scan, start, write, stop, erase | flight computer, tracker, configuration | power failing between two writes; wrapping flight numbers; a record shared by tasks | a flight never overwrites another; numbers do not go back |
| **Configuration** `kernel/ao_config.c` | a block of settings and its stored copy | get, put, each setting's command | log (marks share the block) | erase, then write | old or new settings after a power failure |
| **Packet link** `drivers/ao_packet*.c` | sequence and acknowledgement numbers, one packet each way | master polls, slave answers, SYN, close | radio, console | loss, duplicates, restart, closing while tasks sleep | bytes arrive once and in order |
| **Block cache** `drivers/ao_bufio.c` | buffers, use counts, ages | get, put, flush | SD card, FAT | wrapping ages, failed reads and writes, eviction | a sector has the value last put into it, and a flush brings it to the card |
| **Events and buttons** `drivers/ao_event.c`, `ao_button.c`, `ao_quadrature.c` | a ring of 64 events | put from interrupts, get | launch controller | a full ring drops | events in order |
| **Tracker** `kernel/ao_tracker.c` | running, log started, ring of positions | each GPS report; erase | GPS, log | flags read outside the mutex; erase during a report | logs while moving; erasing the current flight starts another |
| **Samples and filter** `kernel/ao_data.c`, `ao_sample.c`, `ao_kalman.c` | ring of samples, ground averages, filter | interrupt writes, flight task reads | flight computer, log | a ring without overrun check | numerical |
| **Telemetry, APRS** `kernel/ao_telemetry.c`, `drivers/ao_aprs.c` | three next times | send what is due | radio | 16-bit differences of times | each on its interval |
| **Monitor** `kernel/ao_monitor.c` | ring of packets | receive, print, blink | radio | ring without overrun check | packets in order |
| **Radio, codec, signing** `drivers/ao_cc1*.c`, `kernel/ao_fec_*.c`, `ao_radio_cmac.c` | chip state, one buffer | send, receive with timeout | all links | timeouts, aborts | a packet accepted is one that was sent |
| **Console and serial** `kernel/ao_stdio.c`, `stm/ao_serial_stm.c`, USB, Bluetooth | byte fifos | getchar, putchar, interrupt | commands | fifo against interrupt | no byte lost or repeated |
| **File system on SD cards** `drivers/ao_fat.c`, `ao_log_fat.c` | two copies of the table, a directory, open files, the entries they share | open, create, write, read, seek, sync, close | block cache, log task, console | two tasks on one file; sectors reach the card in any order; a full card | what `check_fs` of the code's own test says; what is flushed stays |
| **GPS**, **companion**, **two-pad controller**, **other flight programs**, **sensor, memory and display drivers**, **ports and boards**, **host programs** | see `PROJECT.json` | | | | |

How they interact in a flight: an interrupt or sensor task fills the ring of samples
and wakes the flight task; the flight task runs the filter, moves `ao_flight_state`
and wakes its address, on which the igniter, the pyro task, the log, the companion
and the reporter sleep. In a launch: events of knobs and switches wake the
controller's input task, which changes the selection and wakes its monitor task,
which queries, arms and fires boxes by signed radio packets; in a box the listener
writes `ao_pad_ignite` and wakes the igniter, and the monitor, woken by every sample
of the converter, ends the arming.

## The modules

```
AltosList ── AltosTask ── AltosMutex ──(implements)── AltosLock

AltosPadCommand ─┬─ AltosPad ─┬─ AltosTelefire     AltosFlight ─┬─ AltosIgnite
                 └─ AltosLco ─┘                                 └─ AltosPyro

AltosStorage ── AltosConfig ── AltosLog ── AltosTracker

AltosPacket ──(implements)── AltosStream         AltosFat ──(uses)── AltosBlocks
                                                 AltosBufio ──(implements)──┘
```

The proofs are in modules of their own:

| Proofs | About | Use |
|---|---|---|
| `AltosTaskProofs` | `AltosTask`, `AltosList`, `AltosMutex`, `AltosLock` | |
| `AltosTelefireProofs` | `AltosPad`, `AltosLco`, `AltosTelefire` | |
| `AltosFlightProofs` | `AltosFlight`, `AltosIgnite`, `AltosPyro` | |
| `AltosLogProofs` | `AltosLog`, `AltosTracker`, with storage and configuration | |
| `AltosPacketProofs` | `AltosPacket`, `AltosStream` | |
| `AltosBufioProofs` | `AltosBufio`, `AltosBlocks` | |
| `AltosFatProofs` | `AltosFat`: its types, changes and chains | |
| `AltosCardProofs` | `AltosFat`: what is on the card | `AltosFatProofs` |

`MC*` modules give constants that a `.cfg` cannot write (boot orders, boards, channel
configurations). Three of them put two models side by side of which one runs in each
behaviour, so that one run answers the questions about both: `MCAltosParts` (a pad box
or a controller, with `alone`), `MCAltosBoard` (a flight with the igniter or with pyro channels,
with `fires`) and `MCAltosCard` (an SD card as files or as sectors, with `level`). Operators marked "a mistake" in a comment are wrong variants of the
definition that follows them, kept to show that the properties are able to fail;
no action uses them.

### Kernel

`AltosList` has the list operations on sequences. `AltosTask` is the scheduler. A step
is what runs between two points where interrupts are open, so `Tick`
(`stm_systick_isr` with `ao_task_alarm`) and `IrqWakeup` (any handler that wakes a
channel) come at exactly those points, including the gap between the critical sections
of `ao_sleep_for` and the gap between queueing a task and switching away from it.
`pc` says where in the kernel a task stands:

| `pc` | the task is |
|---|---|
| `user` | in its own code, or in `ao_yield` called from there |
| `armed` | in `ao_sleep_for`, alarm set, not yet queued |
| `queued` | in `ao_sleep`, queued, about to switch |
| `switched` | in `ao_yield` below `ao_sleep` |
| `woken` | back in `ao_sleep_for`, about to clear the alarm |
| `off` | not in the table |

Choices: the hashed sleep queues are kept per channel, because `ao_wakeup` skips the
other channels of a bucket. A task is its structure and its `task_id` at once. Each task
has its own saved interrupt mask, as `ao_switch`'s save area does. A full task table
and the panics on misuse are guards. A program may do anything the kernel's interface
lets it: sleep on any channel inside or outside a critical section, wake any,
exit, add tasks. `left` counts down what a timed sleep still has to wait; it is read
by properties only. At most `WindowTicks` ticks come between the two critical
sections at the start of `ao_sleep_for`. That is the code's own
assumption: it adds one tick to the timeout for it, and the gap is a few instructions.
A tick is 10 ms.

`AltosMutex` puts mutexes on `AltosTask`: a mutex is a channel and an owner. `MutexGet`
is the test and take, `MutexWait` the test that fails and the sleep, `MutexRetry` the loop
after a wake-up, `MutexPut` the release with its wake-up. `held` is what each program
was told it owns; a program puts back only what it owns and does not exit with a
mutex (the code panics on the first). Programs wake and sleep on other channels as they like.
`AltosLock` is the abstract promise: one owner, kept until put back, and a free mutex
with waiters is taken again.

### Launch system

`AltosPad` is a set of boxes. Its actions are the listener's handling of each command
(`Receive`), the igniter's loop in three parts (`Igniter`), the monitor's sample (`Sample`), one turn
of the console's fire loop (`Manual`), the radio test's suspension (`Disable`), the arming switch
and a restart with another clock. `TwoPorts` selects between the two ways boards are
wired. `arm_age` is the time since `ao_pad_arm_time`; ticks in commands are compared
in `ShortMod`, with the skew between the clocks of box and controller.

`AltosLco` is the controller with its panel: `Input` (knobs, switches, fire and drag
buttons), `MonitorStep` (query, update, arm loop, fire), `DragMode` (the timed drag-race
button) and `LcoTick`. The panel reads boxes and channels through what it was answered
(`ao_lco_channels`, `ao_lco_valid`, `ao_lco_tick_offset`).

`AltosTelefire` composes them over a radio: what the controller sends is put in the
air for each box and is heard or lost by each on its own before time passes; a late
answer of another box is taken for the one awaited, as the code does. `consent_age`
is, per channel, how long ago the operator had it selected and armed, or the box
obeyed a FIRE with it.

Time: a unit is long compared to a task's turn and a packet, so ready tasks run before
a tick, and the monitor has a sample in every unit.

### Flight

`AltosFlight` is the flight task of a board with an accelerometer and a barometer, one
action `FlightSample` per turn of its loop. Sensors and filter are inputs: each turn
picks the outcomes of the comparisons the code makes, in any combination the
code could see. The average acceleration of a coast is how many samples it is away from 20 m/s²
(`AvgTime`): the average is of integers and stops within 2 m/s² of its input, so
"surely" means samples over 22. `rest` and `thrust` are read by properties
only: samples in a row at rest under the main parachute, and over the threshold in
coast. `launch_age` and `ao_motor_number` stop at their bounds.

`AltosIgnite` adds the igniter: woken by a change of state it plans its tests in the
order of the code, then goes through delay, pulse and charge time with the flight going
on; a change of state meanwhile does not wake it. The console fires
only on the ground (startup, idle, invalid). `AltosPyro` adds the pyro task: asleep
until a state matters, then a check of all channels every `Period`, pulses one after
another, and its end when no channel waits. What a channel requires is its
configuration: nothing, an air start with a delay, or a height trigger, with a state
range; whether the heights and speeds it names hold now is chosen at every sample.

### Log, configuration, tracker

`AltosStorage` is the flash: positions of one record each, erased by blocks. Writing
over what is not erased, and power failing in a write or an erase, leave `Torn`. An erase
goes through its blocks backwards, one a step, and may give up. `AltosConfig` is the saved
configuration, of which the models need the size of a log, and the erase marks that share its
memory; saving is up to four writes (`PutErase`, `PutConfig`, `PutMark`, `PutClear`) between which power
may fail. `AltosLog` has the log task of a flight computer (the scan at boot in three steps,
the flight record, samples, landing) and the console (delete, zap, save, size of a log).
`AltosTracker` adds boards that have one log to which each boot appends: the bisection for its
end, the tracker's loop with its mutex, and deletion of the log while it grows. `PowerCycle` is enabled in every
state. Ghosts: `newest` (the highest number a flight was logged with), `forgot` (marks were lost in a
save, or a command came before the end of the scan), `layouts` (the log sizes with
which the flash was written) and `beheaded` (the first record of a tracker's log may be
lost). Each names a case in which the code does not keep its promise, listed under
[the findings](#findings); the properties hold in all others.

### Packet link

`AltosPacket` is both ends of packet mode. A transmission and its reception are one action
(`MasterSends`, `SlaveSends`) or end in vain, which is a loss or a listener that is not there;
nothing is in the air between turns, so that packets are lost and repeated but not reordered. The master
polls, sleeps and is woken; a user closes and opens it; either end may lose power. A byte is its number in the
stream of its writer. `AltosStream` is the promise: bytes of each direction are read
in order, each once, and only a set-up (`SetUp`) or a restart may cost some.

### SD card

`AltosBlocks` is a store of sectors with, for each, the values that the card may have of
it if power fails now: every value since the last flush. `AltosBufio` is the cache: `ao_bufio_get` in
steps (hit, or miss, write of the old block, read of the new one), put and flush, with each
access to the card a step that may fail. Its promise is `AltosBlocks`, with the cached or stored
value as `mem`, the values since the last flush as `may` and the refused sectors as `failed`.

`AltosFat` is the file system over the promise of the cache: FAT16 with two copies of
the table, the directory, the clusters, and in memory the open files, the shared `ao_file_dirent`s, `next_free`
and `filesystem_full`. Each call is one step, because the lock of the file system is held
through it; power failing within a call is covered by `may`, which has every value
of every sector since the last flush in any combination. Two tasks use it: the log (a new file for
each day that the GPS tells, or the end of an old one; write and flush) and the console (`D` reads a file,
`W` creates and writes one). What is written is its file and place. `wrote` and `kept` remember
what each file must have, now and after a power failure. `broken` stops the properties in two cases in which the code
itself damages the card (see [the findings](#findings)).

## The runs

| Run | Question | Bounds, and why they are enough |
|---|---|---|
| `AltosTask_queues` | `NoTaskLost`, `AlarmSet`, `TimeoutPending`, `AlarmQueueOrder`, `AlarmOnTime` | Three tasks (one running, one waking or exiting, one asleep or due), one channel, timeouts 1 and 2, a counter of 8: every alarm is set before and after a wrap, two alarms can be equal or in either order, the alarm that would be 0 occurs. `ShortMod` = `TickMod`: no timeout in the code comes near the 2^15 ticks at which the cast of the comparison would matter; the theorems have a counter that is wider than it. |
| `AltosMutex_lock` | `MutualExclusion`, `NoSleeperOnFreeMutex`, `ImplementsLock`, `RunnableRuns`, `TimedSleepReturns` | Two tasks, which is what the race needs: the owner that puts the mutex back can take it again before the woken waiter runs. One more channel for interrupts and timed sleeps, a counter that wraps. More tasks are the theorems' subject. |
| `AltosTelefire_parts` | `ArmExpires`, `PinsReleased`, `OneRocket` | A box: two of its channels and one bit it does not have; arm time 2 below fire limit 4, so that a FIRE comes when only one of the limits has passed; a clock within the slack and one out of it. A controller: two boxes of one pad each, which is where a second rocket can come from, with drag races on. |
| `AltosPad_oneport` | finding 1 | One channel. |
| `AltosLco_button` | finding 2 | One box. |
| `AltosTelefire_launch` | `ArmedByConsent`, `PinsByConsent` | One box, two channels (a selection can be changed while the other channel is still armed), arm time 1 below fire limit 3. FIRE names no box, so that one box hears all that another would. |
| `AltosTelefire_live` | `SafeIsSafe`, `ArmArms` | One box, one channel, one restart with the other clock; arm time 0, fire limit 1: the limits only set how long the end takes, and `AltosTelefire_parts` has them larger. |
| `AltosFlight_reboost` | finding 3 | A lockout longer than a boost and an average of two samples. |
| `AltosBoard_flight` | `LandedAtRest`, `Lands`, `LockedOut`, `NoPulseOnGround`, `ChargesApart`, `BoardChargesFire`, `PyroHeld`, `PyrosInFlight`, `PyroFires` | Igniter: all four modes; apogee delays of none, as long as the pulse and longer; an interval longer than a pulse and a charge time, as in the code (10 s). The lockout of 4 outlasts the shortest boost and coast, so that it is met in coast. Pyro channels: two, which are two air starts with a delay, an air start and a height trigger, or a height trigger alone: a pulse of one is where the other is not checked. A sample has only what the state at hand looks at (`Looked`): the rest is handled the same way. |
| `AltosLog_power` | `PartialEraseListed`, `FlightsDistinct`, `FlightFirst`, `RecordsKept`, `NumbersGrow`, `TrackKept` | Three boards: flight computers with two blocks, with the configuration in the flash or in an EEPROM, and a tracker with three, logs of one block or more, two erase marks, so that they run out, four flight numbers. A block has one record. Power fails in any state. The theorems have every number of each. |
| `AltosCard_power` | `CheckFs`, `FilesTrue`, `FlushedKept`, `FullIsFull`, `ImplementsBlocks` | Files: two clusters of one write, a directory of one entry or two, two days of which one is also a name that is typed: two files that grow into one another's freed clusters, a full card and a full directory. Sectors: two buffers, two sectors and two tasks, so that a buffer can be evicted while the other is held. |
| `AltosPacket_link` | `ImplementsStream`, `Delivered` | Three bytes each way in packets of two, sequence numbers that wrap at three, of which two are ever told apart, and one close or power failure. The theorem has every size. |

What the properties say is written above each of them. In short:

- **Kernel.** `NoTaskLost`: a task of the table is on exactly the queue that the code
  looking for it walks, whenever an interrupt wakes it. `AlarmOnTime`: an alarm goes
  off on its tick, also across the wrap, and an alarm that would be 0 one tick late.
  `NoSleeperOnFreeMutex`: the classical lost wake-up.
- **Launch.** `ArmExpires`: an arming ends after the arm time and one sample although
  FIRE is obeyed for 20 s. `OneRocket`: outside a drag race one pad is selected,
  whatever was selected before. `ArmedByConsent`, `PinsByConsent`: over a lossy radio,
  nothing is armed and no pin goes on without the operator's arming within the arm
  time. `SafeIsSafe`: switch off, boxes fall silent. `ArmArms`: switch on, the box
  shown is armed again and again, through losses and a restart.
- **Flight.** `LandedAtRest` and `Lands`: no landing without a whole interval at rest, and
  no rest without a landing. `BoardChargesFire`: a charge whose state came while the igniter was busy
  is still fired. `ChargesApart`: the battery has its charge time between two charges.
  `LockedOut`: no apogee charge in the lockout. `PyroHeld`: a channel whose requirements
  failed at a check of its delay does not fire. `PyroFires`: one whose requirements hold
  for good does, although other channels' pulses suspend the checks.
- **Log.** `RecordsKept`: while all that is in the flash was written in slots of the size in use, a record
  is lost only to an erase that was asked for, of its slot; after a boot with another size records are lost (findings).
  `PartialEraseListed`: a slot whose erase was cut short still shows. `FlightsDistinct`,
  `NumbersGrow`: flights have numbers of their own (in a flash of one size of logs), above those of erased flights too (unless the configuration that has the marks was lost). `FlightFirst`,
  `TrackKept`: a tracker's log begins with its number and keeps its positions, although it is deleted
  and listed while it grows (the last position is left out, and what comes after the first record may have been lost: findings).
- **Packet link.** `ImplementsStream`: nothing twice, out of order or left out, but for what a
  set-up or a restart costs. `Delivered`: it does not hang, however often it is closed.
- **SD card.** `CheckFs`: the checks of the code's own test hold between any two calls. That they hold of a card after a power
  failure is assumed: the model goes on with those cards that pass them, and with no others.
  `FilesTrue`: what was written is read, and what open files remember is so. `FlushedKept`: what was
  flushed survives a power failure, whatever sectors of later calls reach the card. `FullIsFull`: only a full card
  counts as full, as long as no write needs two clusters or more. `ImplementsBlocks`: the cache is the store that the file system takes it for.

Every property of a passing run was also seen to fail when one definition of the model
is replaced by a plausible mistake (`mutants` in `PROJECT.json`).

No run disables the check for deadlock: the tick, or a power failure, always comes.
The type invariants of modules with a proof module are proved; `LcoTypeOK` and `TrackerTypeOK`,
which say what values the others' variables have, are in no run (`tlc` confirms them as further
`INVARIANT`s of `AltosTelefire_parts.cfg` and `AltosLog_power.cfg`).

## Fairness

- *Kernel*: `WF(KernelStep)` and `WF(IdleDispatch)`, the processor executes what it is in;
  `SF(Yield)`, the system is cooperative and a task that could not run for ever yields (the
  watchdog and `check-stack` discipline of the code); `SF` of leaving a critical section, which the code
  always does; `SF(Tick)`, the timer runs whenever interrupts are open.
- *Mutexes*: the same, and a task running in the wait loop passes the test. No fairness
  between waiters: the code has none, a waiter may starve, and `AltosLock` promises only
  that some task gets the mutex. There is nothing about two mutexes taken in opposite orders: that is the program's.
- *Launch*: the tasks of controller and box run; time passes; `SF(Deliver)` and `SF(Answer)` of the
  box asked, since a radio that loses every packet arms nothing. `SafeIsSafe` does not depend on
  any delivery. Operators owe nothing.
- *Flight*: `WF` of each task when ready and of time. Sensors owe nothing:
  `Lands` and `PyroFires` speak of what holds for good. `BoardSpec` has the fairness of `IgniteSpec` and `PyroSpec`.
- *Packet link*: `WF` of the tasks, of the master's timeout and of readers; `SF(MasterSends)` and
  `SF(SlaveSends)`, since a radio that loses every packet delivers nothing.
- *Log, SD card*: none. Their properties are of safety: a board may lose power at any time for ever.

## The proofs

| Theorem | For every | Says |
|---|---|---|
| `SchedulerInv`, `SchedulerLosesNoTask`, `SchedulerAlarmSet` | set of tasks and channels, timeouts, counter widths | `[]Inv`, `[]NoTaskLost`, `[]AlarmSet` |
| `ClockInv`, `QueueKeepsOrder`, `NoTimeoutLost`, `AlarmsGoOffOnTime` | the same, when `TimeoutsFit` | `[]TimeInv`, `[]AlarmQueueOrder`, `[]TimeoutPending`, `[]AlarmOnTime` |
| `MutexesExclude`, `MutexesLoseNoWaiter`, `MutexesLoseNoTask` | the same, set of mutexes | `[]MutualExclusion`, `[]NoSleeperOnFreeMutex`, `[]NoTaskLost` of programs with mutexes |
| `MutexesStepAsLock` | the same | the safety part of the refinement of `AltosLock` |
| `PadTypes`, `ArmingExpires` | boxes, channels, times, clocks | `[]PadTypeOK`, `[]ArmExpires` |
| `TwoPortPinsReleased` | the same, when `TwoPorts` | `[]PinsReleased`: finding 1 is of the one-port branch only |
| `OneRocketOnly` | boxes, pads, knobs and answers, with drag races | `[]OneRocket` |
| `ArmedOnlyByConsent` | boxes, channels, times, clocks and losses, without drag races (`HasDrag = FALSE`) | `[]ArmedByConsent`, `PinsByConsent` |
| `OnlyByConsent` | the same with drag races, while `KeepsSelection` | the same |
| `FlightTypes`, `LandsOnlyAtRest` | limits | `[]FlightTypeOK`, `LandedAtRest` |
| `ReBoostWithoutLockout` | limits, when `Lockout = 0` | `[]ReBoostSeen`: finding 3 is of the lockout only |
| `IgniterTypes`, `NoPulsesOnGround`, `ApogeeLockedOut` | limits, delays, pulse and charge times | `[]IgniteTypeOK`, `[]NoPulseOnGround`, `[]LockedOut` |
| `MainWaits`, `MainWaitsShort` | the same, while `HandsOff`; without it when `FireTime = 1` | `ChargesApart` |
| `PyroTypes`, `DoubtedPyrosHeld`, `PyrosFireInFlight` | channels, configurations and times | `[]PyroTypeOK`, `[]PyroHeld`, `PyrosInFlight` |
| `PacketTypes`, `LinkStepsAsStream` | packet sizes, sequence numbers above 2, numbers of bytes and restarts | `[]PacketTypeOK`, `ImplementsStream` |
| `LogsInv`, `FreeSlotsAreFree`, `LogsKept` | memories, sizes of blocks, logs and marks | `[]LogInv`, `[]PartialEraseListed`, `RecordsKept`, both under `OneLayout` |
| `NumbersDiffer`, `NumbersRise` | the same | `[]FlightsDistinct`, `NumbersGrow` |
| `TrackersInv`, `TrackStartsWithFlight`, `TracksKept` | the same | `[]TrackerInv`, `[]FlightFirst`, `TrackKept` |
| `BuffersInv`, `CacheImplements` | sectors, values, buffers, callers | `[]BufInv`, `ImplementsBlocks` |
| `FatTypes`, `FullWhenFull` | clusters, sizes of sectors and of the directory, files, days, names | `[]FatTyped`, `[]FullIsFull` |
| `CardSound`, `FilesAreTrue`, `FlushedStays` | the same | `[]CheckFs`, `[]FilesTrue`, `[]FlushedKept` |

The assumptions are the named ones on the constants (`TaskAssumption`,
`MutexAssumption`, `PadAssumption`, `FlightAssumption` and so on). Four further conditions are part of the
theorems that need them: `TimeoutsFit`, `HasDrag = FALSE`, `KeepsSelection` and `HandsOff`. They are explained
below. With drag races and without `KeepsSelection`, TLC finds `ArmedByConsent` violated.

*Scheduler.* `NoTaskLost` is not inductive: whether a wake-up finds the running task
on a queue depends on where in the kernel it stands. `Inv` adds `Control`, which ties `pc`
to `wchan`, `goal` and the run queue. It needs that the insertion into the alarm queue adds
the task and loses none, and that removal removes only it, which is shown by
an induction over finite sets of positions done by hand (`SetInduction`). `NextInv` has one lemma per action.

*Alarms.* Ticks are compared as the code does, by the sign of a difference of 16 bits, which is an order only
among ticks that are near. `TimeoutsFit` says that they are: no timeout, with the tick that
`ao_sleep_for` adds, is half of `ShortMod` (in the code 327 s), none ends before the
code between the two critical sections does (`WindowTicks`), and the clock's range is a multiple of that of the
comparison. `TimeInv` then counts in `left`, which does not wrap: an alarm is as far from the clock as its task still
has to wait, or one tick more where it would be 0 (`Planned`); the queue is in the order of these
distances (`Sorted`); `ao_task_alarm_tick` is its first alarm (`FirstNext`); and a task between the two critical
sections is still to wait longer than it may stay there (`ArmedInTime`). `SignedApart` is the lemma about the
comparison: the cast of a difference of two remainders is the difference of the numbers.

*Mutexes.* `MutexInv` is `Inv`, the types, `MutualExclusion`, `NoSleeperOnFreeMutex`
and that the sleepers on a mutex are tasks in its wait loop. Every mutex step is a
scheduler step, so `Inv` carries over; what is left is what each step does to the queue of
a mutex: `MutexWait` adds to it only with the mutex owned, `MutexPut` empties
it in the same step. For the refinement each step is mapped to `Wait`, `Acquire`, `Release` or a stutter.

*Pads.* `ArmExpires` needs `SampledFresh`: time passes only after the monitor had its sample, and that leaves
no arming older than the arm time. `PinsReleased` is inductive when `TwoPorts`.

*Controller and launch system.* `OneRocket` is inductive with the types of the panel (`PanelInv`); that the lowest
channel of a box is one of its channels (`LeastOne`) is the only thing to show about data. `ArmedByConsent` needs a chain that
follows a consent through the system: what the controller arms, and what is on its way by radio, was consented to in this unit of time
(`FreshCommands`); a box is armed no longer than the consent is old, and told to fire only in its unit
(`BoxesFollow`). The chain breaks in one place: the loop that arms the boxes of a drag race
(`drivers/ao_lco_bits.c:485`) does not look at `ao_lco_armed` again, so that a pad which is
toggled into the race after the switch was set to safe, and before the loop comes to its box, is armed. `KeepsSelection`
excludes that and nothing else. Without drag races the selection is the arm switch's alone, `KeepsSelection` holds of itself, and
`ArmedOnlyByConsent` has no condition about behaviours; this is what `AltosTelefire_launch` checks.

*Flight.* `LandedAtRest` needs `RestCounted`: while the heights of an interval are within
bounds, the samples at rest and what is left of the interval make a whole one; the tick
and the sample that follows it take one from one side and give it to the other. `BoostEnds`
bounds the age of a boost. `ReBoostWithoutLockout` needs that the average rises with `thrust`.

*Igniter.* `NoPulseOnGround` allows pulses after the landing where the delays of the igniter are
longer than the interval, and needs a bound on how long it may go on. `InTime` gives it: under
the main parachute, the time at rest and what the igniter still has to do (`Left`: what is left of
its wait, and the charges not yet fired with their delays) are together no longer than all it
ever has to do. A tick takes from one and gives to the other; a landing needs a whole interval at rest.
`DrogueUnlocked` says that the lockout is over when the drogue charge is planned, and `Apart` that
a charge is fired by the task or by the console and not by both. `ChargesApart` needs that the igniter, whenever it is not in
its charge time, has none left to wait after an apogee charge (`Rested`). The console is the exception: a pulse it
began on the ground may in the model still last when the rocket, in as many samples, is through its boost. `HandsOff`
says that it does not: the pulse is 50 ms (`kernel/ao_ignite.c:63`), and no motor burns out so soon. With a
pulse of one sample, as in `AltosBoard_flight`, it is proved (`MainWaitsShort`); with two, TLC finds it broken.

*Pyro channels.* `PyroInv` adds that a doubt inhibits a channel that has not fired
(`DoubtsHold`) and that the task is awake only after the boost has begun (`Awake`).

*Packet link.* `LinkInv` says of each direction that the bytes in the reader's buffer, the
packet that is sent and the writer's buffer are runs of consecutive numbers that follow each other (`Ordered`),
where the packet may also be a copy of what was taken already; that each end acknowledges what
it took last; and that a slave that has heard nothing sends SYN, without which its
"accept anything" would take a packet twice. It was checked by TLC, with two restarts, before it was proved.
`LinkStepsAsStream` maps each action to a `Put`, `Get`, `SetUp`, `Restart` or a stutter.

*Logs.* `LogInv` says what power failures leave in slots: every slot is free to its end or starts with something
(`FreeToEnd`), because a log is written forwards and erased backwards; what an erase has come past is erased
(`ErasesBack`); and the log of a flight has written its slot up to its position and found the rest erased
(`WritesOn`). `RecordsKept` follows: a write goes to an erased position. All this is under `OneLayout`: what is in the flash was written
in slots of the size in use, without which a slot may start erased and go on with other logs (findings). `FlightsDistinct` needs that the number of a new log is
above those of all slots, from the scan to its first record (`Fresh`). `NumbersGrow` compares with flights that are erased,
so that it is about the marks: they rise in the order in which they are written (`MarksUp`), also while the configuration
they share their memory with is erased and written again (`MarksOK`), and the newest flight is below a mark or in
a slot of the size in use and of the size after the next boot (`Known`); an erase begins only with a mark above it (`NewestOK`).

*Tracker.* The end of the log is found by bisection of a memory in which an erase that was cut short may have left
records with nothing before them. `Findable` says that, however much of the log an erase has left, the
bisection ends beyond every record but one at the last position; `Reach` that it does so if the tracker
writes where it stands. Both are facts about the recursion of the bisection for every set of
written positions: its number of turns is a constant of the memory, but the function is
unfolded turn by turn in an induction by hand. With them `Placed` is an invariant: the log begins with its
number and the position is beyond all records, or it is empty. All this until `beheaded`, which
names the cases in which the code loses the first record.

*Cache.* `BufInv` has that no two buffers have the same block (`OneBuffer`), that the buffer being filled is nobody's
(`CallApart`), that a clean buffer has what the card has unless the card refused it (`CleanIsCard`), and that
every value the card or a buffer has is one since the last flush (`MayBe`). Eviction, reading and
writing back are stutters of `AltosBlocks` by these; `put` is a write, and the end of a full flush is its flush.

*File system.* A chain of clusters is a recursive function and the cache after some changes a fold: what each returns is
shown by induction over its length, by hand (`ChainIs`, `FoldFollows`), and what the changes of a call leave in the table from
that (`TableOK`, `ShrunkIs`, `GrownIs`). `FatTyped` is the types: every value of the table is a
cluster, the end or 0, every chain ends up where the model looks for it, and every `ao_file_dirent` in use is of an
open file. `FullIsFull` then is of the calls that free clusters (only `Shrunk` does, and forgets that it is full if it freed one)
and of the one that finds no room.

*What is on the card.* `CardKept` is inductive on top of these. Its first part, `Consistent`, is what
`check_fs` asks, said without counting (`Sound`; `CheckIs` shows that the two are the same: a chain has as many different
clusters as it is long exactly when it ends), that each open file is true of its entry and its place is one of its chain
(`OpenFiles`), and that no entry has two `ao_file_dirent` (`OneEach`; with two, one of them would
keep an old size). The second, `GhostsOK`, is what `wrote` and `kept` promise. Of what was written there is an entry
that has it (`Has`); what was flushed also has to be there in whatever the card may have. `FlushedKept`
itself is of stores put together of sectors of different ages, and is not inductive; `Settled`
asks it sector by sector: every value that the card may have of the directory has the name, the first
cluster and a size beyond the byte, every value of the table's sectors has the links up to it, every value of the data sector has the byte. A call keeps
that of a file it does not empty since the entry only grows, no link but the last is put, and data only goes to where it belongs in
its own chain (`KeepsFiles`, `DataKept`). That a chain taken from the free clusters
or given back to them stays apart from the others is `ResizeFits`. The last lemmas take the calls and the steps of the two
tasks one by one. In the two cases of `broken` the model goes no further, and the invariant keeps only what was
flushed, from which a start after a power failure begins again, with tables that pass `check_fs`
(`FatReboot`).

Only model-checked: liveness and everything under fairness (`RunnableRuns`,
`TimedSleepReturns`, `ImplementsLock` beyond its safety part, `SafeIsSafe`, `ArmArms`,
`Lands`, `BoardChargesFire`, `PyroFires`, `Delivered`), which the provers do not reach.

## Findings

1. **Pins of a one-port board stay on** (`AltosPad_oneport`). Where `AO_PAD_PORT_1` is not
   defined the igniter ends its pulse with `ao_gpio_set_bits` (`drivers/ao_pad.c:148`);
   the other branch clears (`:144`), and the debug line after it says "turn off pins".
2. **Fire button let go while disarmed** (`AltosLco_button`). The input task follows the
   button only while armed (`drivers/ao_lco.c:205`), so `ao_lco_firing` ("fire button
   pressed", `ao_lco.h:45`) can be left over and the next arming fires without the button.
3. **A motor that burns in the lockout is not seen** (`AltosFlight_reboost`).
   `kernel/ao_flight.c:324` leaves the coast branch before the re-boost check while the
   apogee lockout lasts; `src/doc/pyro-channels.inc:121` says that acceleration in coast brings the
   state back to boost, and the comment above the code speaks of apogee only. The motor count, on which
   after-motor channels depend, misses it too.

Observed while modelling, each from the code alone; the models keep these cases apart by the ghost or the guard named.

- *Flight*: a burn of more than 15 s is counted as a motor every 15 s (`ao_flight.c:274`); with a long apogee
  delay a charge may fire after landing was detected; a charge fired from the console in startup
  counts as fired for the flight; while a pyro pulse lasts the requirements of other channels are not
  checked.
- *Pad*: a tick difference of -32768 passes the test that it is small (`ao_pad.c:404`), because its absolute value in
  16 bits is negative; an order for other channels that comes during a pulse never reaches the pins (`ao_pad.c:139`).
- *Launch controller*: the loop that arms the boxes (`ao_lco_bits.c:485`) does not look at `ao_lco_armed` between boxes, so that a pad
  toggled into a drag race while it runs may be armed after the switch was set to safe (`KeepsSelection`).
- *Log*: saving the configuration on a tracker writes no mark, and the power may fail between the erase and the
  marks on a flight computer (`forgot`); on an EEPROM it may fail while older marks are cleared, and one of those then
  wins (`forgot`); a command that comes before the scan has ended marks a number of the scan
  (`forgot`); the size of a log can be set to less than a block, which is 0 (`SetLogSize` does not).
- *Log, flights written over* (`layouts`): `src/doc/flight-data-recording.inc:85` says that flight computers "will not overwrite existing
  flight data". `_ao_config_put` erases the configuration before it writes it (`kernel/ao_config.c:89`). If the power fails in
  between, the board boots with the default size of logs, and reads in its slots what was written in smaller ones. A slot
  looks free by its first record alone (`ao_log.c:348`). With two blocks, logs of one block and a default of two: a flight is in the second block, the log in
  the first was deleted, the save is cut short, and the next flight begins in the first and goes on over the second (TLC finds this, in 30 states, when
  `~board.tracker` takes the place of `OneLayout` in `RecordsKept`). A changed size while there are logs without a number, which `ao_config.c:670` does not
  count, comes to the same. `RecordsKept`, `FlightsDistinct` and `PartialEraseListed` hold while all that is in the flash was written in slots of the
  size in use (`OneLayout`).
- *Tracker*: the bisection never looks at the last position (`ao_log.c:296`), so that a restart writes over
  the last record of a log that is full, where `src/doc/telegps-using.inc:49` says that existing data is not overwritten (`TrackKept` leaves it out).
  A deletion while the tracker waits for the mutex, a zap of the whole memory and the deletion of a log without a
  number leave a log without its first record, as does a list that reads `ao_log_data`
  between the making and the writing of a record (`beheaded`).
- *Packet link*: after a power failure of either end an acknowledgement of 0 that is left over cancels the SYN
  (`ao_packet.c:133`) and the link hangs (`Delivered` excludes power failures). A master that repeats its SYN because the
  answers were lost discards the slave's data in flight, and after a restart of the slave a packet whose number
  happens to be 0 is acknowledged unread (`SetUp`, `Restart`), where `src/doc/altos.txt:1181` says "reliable". A session opened
  at once after another may add a task that is still queued (`ao_packet_master.c:128`, `:139`): `Open` waits for its end.
- *File system*: three defects of the calls themselves. The loop that takes clusters ends after the first
  (`ao_fat.c:393-408`), because `next_free` has just been moved to the place where the search ends: a request for
  two or more, which comes when the console empties a file that the log writes beyond its first cluster,
  gives a file whose size is beyond its chain, which `check_fs` of `test/ao_fat_test.c:303` rejects
  (`broken = "short"`). `_ao_fat_file_dirent_alloc(NULL)` (`ao_fat.c:624`) gives the first `ao_file_dirent`
  even if it is in use: a file that is created while another is open shares its entry (`broken = "mixed"`). And `filesystem_full`
  is set by a request for more clusters than are free, although there is room for a smaller one.
  Beside these: `ao_log_fat.c:84` compares the length that `ao_fat_write` returns with `AO_FAT_SUCCESS`, so that its `wrote` is
  never set; the flush goes by buffers, so that a cut may leave an entry that points to a cluster that is free in the
  table (`FatReboot` follows cards without damage only); a refused write of the card is not reported
  (`ao_bufio_write`; `failed`); a table sector that cannot be read counts as free clusters (`_ao_fat_entry_read`); the unused
  `ao_fat_unlink` would take its mutex twice; a directory that grows on FAT32 is not cleared; and
  `ao_sdcard_read_block` reports success without data when the card is idle at the last try.

## What is not modelled

`PROJECT.json` lists every component with its reason, and among the hazards those that
no property covers. Of the repository's 164 000 lines the greatest part is register
definitions, drivers, pin tables, fonts, the ground station and its libraries, of which there is nothing to say that
a model checker could find wrong; what is modelled is where tasks, interrupts, radios and power failures
meet. Within the modelled components:

- scheduler: stack switching and checking, profiling, the low-power states;
- pad box: beeps, LEDs, sirens and strobes, the contents of status replies, the logged data;
- launch controller: displays, battery, the search for boxes at start, pretend mode,
  `VALID_LAST`; the queue of events (the panel takes events one by one and none is lost);
  drag races in the composed runs;
- flight computer: calibration at startup beyond its outcome, variants with one sensor,
  telemetry and radio switching at state changes; igniter status reports; setting
  and showing pyro channels and converting old ones; how long the console's pyro pulse lasts;
- log: the formats of the log tasks of the other boards and the debugging commands of the storage; flight numbers
  do not wrap (`MaxNumber`); of the configuration every setting but the size of a log;
- packet link: the slave being stopped by the flight task, the adaptive polling rate, reordering (a radio channel has one packet at a time);
- SD card: FAT32, mounting and recognising a card, the SPI protocol; the file system on a card that fails (the cache has that);
  more buffers held at once than there are, which is a panic; the age of buffers, which wraps: any idle buffer may be evicted.

## The plan

Done, in the order of what matters most to a rocket and its operator: kernel, mutexes, launch system, flight
computer with igniter and pyro channels; log, configuration and tracker; packet link; SD card. What is left:

1. **Rings and events.** `AltosEvent` and one model of the rings that have no overrun check
   (samples, monitor), joined to a run of the devices that use them.
2. The controller with two pads, and the other flight programs, as instances of what is there.

Runs are joined where one state space answers two questions, and runs that differ from another by
bounds only are left out, to keep the whole check short enough to be run after every change.
