# Verification of the m2-electronics flight firmware

TLA+ models of the firmware of the M2 avionics, TLC configurations that check
them on small instances, and TLAPS proofs of their main properties. Paths are
relative to the root of the repository.

The electronics of the rocket are two flight computers (M2FC, one in the body
and one in the nose, the same firmware) and a radio board (M2R). Each is an STM32F4 that
runs ChibiOS. M2FC estimates the altitude, decides when to fire the parachutes,
logs every sample and tells the other boards its status. M2R receives GPS
positions and transmits them with the statuses of the two flight computers.

Contents: [inventory](#inventory), [modules](#modules),
[each model](#the-models), [runs](#runs), [proofs](#proofs),
[disagreements found](#disagreements-found), [limits](#limits),
[plan](#plan).

## Inventory

### The parts and how they interact

```
 sensors --EXTI--> driver threads --> state_estimation (mutex) --> mission --> pyro
                        |                    ^   trust_barometer |      shell --^
                        |                    +--------------------+
                        +--> datalogging (pool, mailbox) --> microsd
 every thread --> m2status (shared struct, no lock) --> heartbeat LED
                        |
                        +--> m2serial --(UART)--> the other boards --> m2status --> buzzer, radio
```

Each M2FC has about fifteen threads. ChibiOS always runs the ready thread of
highest priority; equals share the CPU round-robin (`CH_TIME_QUANTUM` 20). The
data logger is `HIGHPRIO`, the mission and the shell `NORMALPRIO`, the
heartbeat `LOWPRIO`. Both firmwares are built with `-O0`, so each access to a
shared variable that the source writes down is made, in that order.

| Part | State | Operations | What is hard | Correct when |
|---|---|---|---|---|
| Mission (`m2fc/firmware/mission.c`) | current state, launch and apogee times, ground height, barometer flag | ten state functions, called about every millisecond | transitions race a sensor against a timeout; two states block in a firing; the thread may run late | each charge once, in order, never on the pad, and in bounded time whatever the sensors say |
| Pyrotechnics (`pyro.c`) | output pins, "fired" flags, configured roles | `pyro_fire` from the mission and from the shell, continuity check | both callers can be inside at once, with no lock | no pin stays high; only the charge that is due is driven |
| Status (`m2status/m2status.c`) | one struct per board, the overall status of each | setter and roll-up from every thread and one interrupt; packets from other boards; LED | every access is unlocked; the roll-up starts by storing OK | no error is lost, the LED is green only if all was well when it was looked at |
| Data logger (`datalogging.c`, `microsd.c`) | memory pool, mailbox, cache, open file | log a packet; fetch, cache, write; re-mount and retry | exhausted pool, writes that fail half-way, power loss, full card | what was accepted reaches the card, in order, as far as the card and its driver say what became of it; no item leaks |
| State estimation (`state_estimation.c`) | Kalman filter, shared clock | new pressure, new acceleration, get state | mutex; the barometer flag is read before the lock; the clock wraps | no update is lost or split; at most one pressure of the transonic phase enters; a prediction covers the time since the last one |
| Sensor drivers (`adxl3x5.c`, `hmc5883l.c`, `l3g4200d.c`, `ms5611.c`, `analogue.c`) | semaphores and thread pointers, DMA buffers | interrupt wakes thread, thread reads and reports | missed edges, time-outs racing wake-ups, half-filled buffers | a driver is never stuck while it reports OK |
| Boot and configuration (`main.c`, `config.c`) | `conf`, `config_loaded`, `LocalStatus` | read card, check, start threads in order | waits for a card; priorities decide who is created and who runs; reports before `LocalStatus` is set are lost | everything is initialised before it is used, the watchdog is fed, the configuration that is flown does not change and was read to its end if it is said to be OK |
| M2Serial (`m2serial/`) | UART, mutex | escape and send, receive and resynchronise | loss inside a frame, checksum bytes that look like a frame start, a payload that is written while it is sent, the shell holding the mutex | what is sent arrives, in step again after a loss, and nothing else is delivered |
| M2Telem (`m2telem/`) | deframer | enframe, deframe | resynchronisation | a valid frame is always accepted |
| M2R GPS (`m2r/firmware/ublox.c`) | state of the UBX parser, payload buffer | byte-wise state machine, configuration sequence | over-long lengths, frames without a gap, resynchronisation | every undamaged frame is dispatched, none is made up |
| M2R radio (`radio.c`) | message buffer and indices | timer interrupt that plays it, thread that fills it | the interrupt makes the text from a struct that may be half copied; the index is of 8 bits | the index stays in the text; what a subsystem of the nose has settled on comes to be sent |
| M2R main, RockBLOCK | buzzer, satellite modem | sound the nose's status; write and sleep | stale and half-copied statuses | once the nose is well for good, the buzzer comes to sound it |
| Shell (`m2fc_shell.c`) | none | bench commands | `pyro` during a flight | see Pyrotechnics |
| Ground and host tools (`m2telem` dumps, LDPC decoder, SDR, log analysis) | files | batch programs | numerical | outside the models |

`PROJECT.json` lists the same parts with their sources, and under `hazards`
every behaviour found to be hard to test, at its line, with the properties that
watch it or the reason that none does yet.

## Modules

| Module | Contents | Code |
|---|---|---|
| `FlightPlan` | abstract specification: phases of a flight and the charges out in each | what `mission.c` promises |
| `Mission` | the mission thread with time | `m2fc/firmware/mission.c` |
| `Pyro` | overlapping firings | `pyro.c`, command in `m2fc_shell.c` |
| `FlightProofs` | of `Mission` and `Pyro`: invariants, time bounds, implementation of `FlightPlan` | |
| `Rollup` | a board's overall status, recomputed by many threads | `m2status.c` |
| `StatusRollup` | a flight computer's start, its reports (`Rollup`) and its LED | `m2status.c`, `main.c` |
| `Datalogging` | pool, mailbox, cache, card | `datalogging.c`, `microsd.c` |
| `DataloggingProofs` | invariants | |
| `M2Serial` | one direction of the link between boards | `m2serial/m2serial.c` |
| `M2SerialProofs` | of `M2Serial`: exactness, resynchronisation | |
| `StatusExchange` | the nose's status (`Rollup`) on its way to the radio board | `m2status.c`, `m2serial.c`, heartbeat in `m2r/firmware/main.c` |
| `Radio` | the interrupt that plays a text and makes the next | `m2r/firmware/radio.c` |
| `Downlink` | `StatusExchange` and `Radio` together | |
| `StatusProofs` | of `StatusRollup` and `Downlink`: invariants | |
| `Ublox` | GPS driver: configuration, UBX state machine | `m2r/firmware/ublox.c` |
| `UbloxProofs` | of `Ublox`: invariants, an action property | |
| `Wakeups` | interrupts, semaphores and time-outs of four sensor drivers | `adxl3x5.c`, `l3g4200d.c`, `hmc5883l.c` |
| `Kalman` | the altitude filter's updates in place | `state_estimation.c` |
| `MeasurementProofs` | of `Wakeups` and `Kalman`: invariants, exactness for all matrices | |
| `AtomicFilter` | abstract specification: updates that enter one at a time | what `kalman_lock` promises |
| `Estimator` | lock, barometer flag and clock of the filter, with all its users | `state_estimation.c`, `time_utils.c`, `ms5611.c`, `mission.c` |
| `EstimatorProofs` | invariants, implementation of `AtomicFilter` | |
| `Boot` | start of a flight computer | `main.c`, `config.c`, `microsd.c`, the start of each thread |
| `BootProofs` | of `Boot`: invariants | |
| `MC...` | values for TLC | |

Conventions. Names are those of the code where it has one. History variables,
marked "history", are written only and never guard an action. A definition
preceded by a comment that begins with "Fault:" is not part of any
specification: it is the faulty variant of the definition that follows it (a
dropped time-out, an item freed twice, a test one too late), kept to show which
mistake a property is sensitive to. `PROJECT.json` pairs each
checked property with a fault, under `mutants`; replacing the definition by it
makes TLC report that property.

## The models

### Mission and FlightPlan

An iteration of the thread is `Sample` (copy the estimate), one state function
(`DoPad` ... `DoLand`, each with the rest of the loop body), and `Wake`. The two
states that fire are split into the call and its return, `FireReturns`, because
`pyro_fire` blocks the thread while time passes. `DoLand` stands for the
functions of LAND and LANDED, which do the same.

`Tick` is the kernel's clock. It may not leave the thread more than `MaxLag`
ticks behind its wake-up (`FireLag` over a firing): other threads may delay the
mission but not starve it. All time bounds that are checked and proved are
functions of these two. The estimate is arbitrary within `Estimates` at each
sample: nothing is assumed of the sensors. `chTimeNow` is 32 bits of
milliseconds, which do not wrap in a flight.

`FlightPlan` knows only the phase and the charges that are out. The mapping
takes the phase from the position of the thread, so that firing a charge and
leaving the coast phase is one step of the plan.

### Pyro

Every `palSetPad`, `palClearPad` and sleep of `pyro_fire` is a step, so two
firings interleave pad by pad; each caller runs its own copy of the loop. The
shell's command is allowed at any moment. `Role` is the configuration;
`Pulses` is `conf.pyro_firetime / 20`, zero included.

### Rollup and StatusRollup

`Rollup` is the part of `m2status.c` that two models use. `StoreStatus` stores a subsystem's
status; `m2status_update_system_status` follows: reset the board's status to OK (`Reset`), then a
scan of the fields for UNKNOWN, WAIT and ERR in turn, each hit a store. Each access is a
step, guarded by the priorities: a thread makes a step only if no thread of
higher priority is in the middle of its report.

`StatusRollup` adds the start of a flight computer and its heartbeat. `boot` follows
`LocalStatus` and `LocalStatus->origin` from NULL to their board. The heartbeat copies the board's
status (`Look`), compares the copy and drives the LED (`Show`), and turns it off (`LedOff`); it has the
lowest priority, so any number of reports may come between two of these. The LED therefore shows what
was so when it looked: `since` notes who has reported after that, and `GreenMeansOk` speaks of the
others.

### Datalogging

A source allocates and fills an item (`Alloc`) and then posts it (`Post`), with
other sources in between. The logger outranks them all and was created first, so they run
only while it waits for a packet or the card (`LoggerWaits`). A failed write
leaves any part of the cache on the card. `PowerCycle` may strike between any
two steps; what has been committed survives it. FatFs and the
card are external: they appear through the results the code reacts to. When a
write comes up short on a full card `f_write` still returns FR_OK, and
`bytes_written` is ignored, so that part of the cache is lost; `short` marks this.

A successful `f_write` is not yet on the card for good: `f_sync` makes it so (`Store`), and
`microsd_write` ignores whether it did (`Buffer`). What was written since the last `f_sync` that
worked is `unsynced`; the next one commits it too, and a power loss or the loss of the
file object erases it, although the cache was dropped and the status says OK. `unconfirmed`
holds the packets of which this is so, and `NothingLost` excepts exactly these.

### M2Serial

The sender puts a frame byte by byte into the queue of the serial driver
(`Send`, then one `Put` per `sdPut`); the receiver is `recv_systemstatus` cut at
its `sdGet`s. `pc` names the read it waits in: the frame start, a byte of the
struct, the byte after an escape, the third flag of a shell request, the two
checksum bytes. Everything between two reads is one action (`AwaitStart`,
`GetByte`, `GetEscaped`, `GetThird`, `GetChecksumLow`, `GetChecksumHigh`). Opening
the shell is part of `GetThird`; its session is `ShellReads` and `ShellExits`, after
which the code goes on to store a flag as the first byte of the struct.
`Damage` loses or alters any byte that is on its way.

The struct is sent live. The code tests a byte, and if it is a flag or an escape, puts an
escape, which may block, and reads the byte again (`m2serial.c:66`-68). `changed` are the
places where another thread has written in between: such a byte is sent after an
escape whatever it is, and if it is 5E, as a raw flag. A payload is what was read last. A byte that needs no
escape is read twice with nothing in between: the sender has the highest priority and does not
wait there, and the one interrupt handler that writes a status writes a small number.

The CRC is not computed. It is taken before all this and the receiver ignores it, so it is
any pair of bytes. It is sent unescaped, so both bytes may look like a flag.

`clean` counts the frames begun since the last disturbance, where a frame with a
flag behind its first byte counts as one, be it in the checksum or in the payload: a receiver that has
lost its place may take it for a frame start, and one that is in step does not mind it
(`ExactUntilDamaged`). An escape there does no harm.

### StatusExchange, Radio and Downlink

`StatusExchange` is the struct of the nose from the threads that write it, through
`m2status_thread` that sends it, to `memcpy` on the radio board and the heartbeat that
looks at the copy. Any number of threads report and roll up, with every access a step of `Rollup`
(`ReportOnNose`, `UpdateOnNose`); those in `Periodic` never stop, as the mission and the estimator
never do. Of the struct two parts are sent, in the order of their bytes, the
overall status and that of the first subsystem, so that there is a place between them. A frame is
two reads of the live struct (`BeginNose`, `EndNose`), a copy two stores
(`RxFirst`, `RxRest`), and any of them may fall between the steps of another. `mtx` is the
nose's `uart_mtx`, which a shell on its port keeps until it ends. `Damage` loses a frame, or
alters its overall status, its subsystem's or its origin; the checksum makes no difference in the code.

What the overall status is worth depends on the roll-ups. While an error stands, every report of anybody
passes through OK, and a frame that falls into it carries it: the buzzer may sound ready, again and again,
and no property says otherwise. `SettledIsSent` is about the frames that no report cuts into
(`steady`), whatever the roll-ups did before. In the other direction, two roll-ups that race may leave the board
at an error that is gone, with all subsystems OK and no report under way, until somebody
reports again. `OkIsSounded`, that a nose that is well comes to be sounded so for good, therefore needs one thread that
goes on reporting: TLC refutes it with `Periodic` empty.

`Radio` is `radio_fm_timer` at the pace of bits. The text is what it says of the subsystem and
its length: `Summary` is `m2status_write_status_summary`, which names the subsystems that
are not OK. At the end of a text the interrupt makes the next one of the
copy as it is at that moment (`EndOfMessage`). The index has 8 bits, of which `Wrap` is the
number of values. `radio_thread` makes the first text and starts the timer, no more.

`Downlink` composes the two: they share `copy`, written by one and read by the other,
and each keeps the rest of the other's variables.

### Ublox

`Read` is one byte through `ublox_state_machine`, one operator per group of
`case`s. `payload` is the part of the buffer written so far, from which
`length_remaining` follows. `Length` keeps the code's order, by which the
state chosen for an over-long length is overwritten. A write or a copy past the
end of a buffer sets `overrun` and ends the model there, as what lies behind is
not known.

The module at the other end of the bus is external. It gives out its frames one after
the other, with or without filler bytes between them, and `Damaged` alters or loses a
byte or adds one. `intact` says how the frame on the bus has fared: begun while
the machine was idle (`apart`) or not (`crowded`), or damaged. `due` is the
message of a frame that has just ended undamaged. `ReadFails` is an I2C error, which
returns no byte and leaves the machine where it was.

### Wakeups

One thread per driver, each with the steps of its own source: start, identity
check, initialisation, read, wait. `Sample` is the device: it completes a sample and, if its line
rises by it and the interrupt is enabled, runs the handler (`BSemSignal`) at
once, wherever the thread is. `BSemWait` either takes the signal or goes to sleep;
the kernel's semaphore hands the signal to a sleeping thread directly, so the counter stays
0 then. `Timeout` is the kernel readying a thread whose 100 ticks have passed,
`Awake` the thread running again; between the two an interrupt may come, which
is what the magnetometer's handler tests for (`MagnoWakeup`).

The devices are external. Accelerometers and gyroscope keep their line up until
they are read, and may complete the next sample during the read (`TakeSample`),
in which case the line does not fall and no edge follows. `Init` is a power-up or a
restart of the board alone: devices may be running, with their interrupt enabled and a
sample unread. `missed` notes samples of which no interrupt will tell.

### Kalman

One call of a function at a time, since each holds `kalman_lock` while it uses
`x` and `p`. `GetState`, `NewPressure` and `UpdateAccel` are the parts up to the first
store into `p`; then each store is a step, in the order of the source
(`PredictElement`, `UpdateElement`), since the next ones use what it leaves. The
noise `Q` is added to each element separately and is one step. The reference is
computed beside it, as matrix products, from the values at the call.

A float is an integer number of `Unit`-ths. The run takes values for which neither this
nor the real arithmetic rounds; what the proofs assume of rounding is said [there](#proofs).

### Estimator and AtomicFilter

Every user of the filter (the mission, the barometer, any number of accelerometers) goes through
`Acquire`, `Load`, `StoreState`, `StoreCovariance`, `Release`. The filter is the set of updates
that are in it, each user's modulo two, so that an update built on an old copy is seen to erase
another. `Signal` hands the binary semaphore to the thread that has waited longest, as
ChibiOS does. `AtomicFilter` does an update in one step; the mapping shows it, from outside, at the moment
the covariance is stored.

The barometer looks at the flag (`CheckFlag`) and only then waits for the lock
(`BaroCalls`), while the mission writes the flag in each state function (`RunState`). Before
that it makes its transactions over the bus it shares with the magnetometer (`BusLock`,
`BusUnlock`). `Tick` is the cycle counter, which wraps about every 25.6 s;
`span` is how long it really was.

### Boot

`main` creates threads of which some have a higher priority and run at once, others when
`main` sleeps; `MayRun` is the rule. One step takes a thread from one place where it can block
to the next. Each thread is followed through its first iteration, after which it
sleeps and the later ones are like it. Transfers to the card block in ChibiOS's driver (external),
connecting to a card that is absent does not, hence the pause of `ConnectFails` and `Retry`.
One driver, `baro`, stands for those that are always created and use the bus with the mutex, one,
`gyro`, for those that the configuration may leave out. Of the configuration the number of
lines read is kept: `config_loaded` says that all were, and the verdict of `check_config` on
their values reaches nobody. `CardChanges` inserts or removes the card at any moment.
`early` notes what was used before it was initialised, `lost` the reports
made while `LocalStatus` was still null.

## Runs

| Run | Checks | Result |
|---|---|---|
| `mission` | `DeploymentOrder`, `BarometerTrust`, `DrogueByTimeout`, `MainByTimeout`, `ImplementsPlan`, `LaunchEndsLanded` | hold |
| `pyro` | `NoPadLeftHigh`, `ChargesInTurn` | hold |
| `status_rollup` | `NeverBetterThanWorst`, `GreenMeansOk`, `ErrorShows` | hold |
| `datalogging` | `TypeOK`, `PoolConserved`, `NothingLost`, `FilesInOrder`, `PoolRecovers` | hold |
| `m2serial` | `ExactUntilDamaged`, `ResyncsAfterOneFrame`, `FramesArrive` | hold |
| `downlink` | `SettledIsSent`, `NothingPastTheEnd`, `OkIsSounded`, `SettledIsHeard` | hold |
| `ublox` | `NoPhantoms`, `DispatchesIntactFrames`, `ReturnsToIdle` | hold |
| `wakeups` | `NoWakeupLost`, `ReadyListIntact`, `DriversKeepReading` | hold |
| `kalman` | `PredictionAsDocumented`, `AccelAsDocumented` | hold |
| `kalman_pressure` | `PressureAsDocumented` | violated |
| `estimator` | `ClockExact`, `AtMostOneStalePressure`, `ImplementsAtomicFilter`, `EveryCallReturns` | hold |
| `boot` | `InitBeforeUse`, `ConfigSettled`, `WatchdogIsFed`, `FliesWithoutLog`, `LostReportsAreMadeGood` | hold |

What each property says, and of which code, is in the comment before it.

Bounds, and why they are enough:

- *Mission*. Times of one to eight ticks in the order of the real ones
  (firing < main time < landing time). Estimates on both sides of every
  threshold, so each transition is taken by its sensor and by its timeout, and
  the main time also expires during the drogue's firing. `MaxLag` and `FireLag`
  of one tick reach every bound to within a tick. `LaunchBy` 4 keeps launches early enough
  that a whole flight fits before `MaxTime` 30, which liveness needs.
- *Pyro*. One channel of each role, two pulses (a first and a last one), two
  shell commands, so one can overlap each firing of the mission.
- *StatusRollup*. All four levels, two fields, two threads of equal priority and an interrupt handler
  above them: a scan that is overtaken before, at and after the field another thread
  stores, equals that take turns, and reports between the heartbeat's look and its LED. The hazards are
  about pairs of updates; the proofs cover any number (163,584 states).
- *Datalogging*. A pool of two, so it is exhausted while the card is busy; a
  cache of two, so it is full in mid-burst; two packets from each of two
  sources with the logger's own two; room for five packets, so the card fills;
  two faults, so a retry can fail again or meet a power loss, and an f_sync that failed be made up for by the
  next or be followed by a power loss (343,278 states).
- *M2Serial*. Flag, escape and the two bytes they become, each also as plain
  data; payloads of two bytes with either at either end, changed at any of their
  places while they are sent or not; checksums with and without them. Three frames, so one can be hit and two follow; two damaged
  bytes, so the recovery can be hit again, or a shell be opened by accident. Queues of two
  bytes: the receiver never sees more than the head, so length only adds delay (1,139,779 states).
- *Ublox*. Bytes of eight values and a buffer of four: a damaged length can be
  under, at and over the size. Every class and id that is told apart, payloads with sync
  bytes in them, any number of frames, one damaged byte.
- *Wakeups*. One driver of each kind: a semaphore without a time-out, one with, and
  the pointer. The drivers share nothing, and the high-g accelerometer combines the steps of
  the first with the wait of the second; the proofs cover any set of them.
- *Downlink*. Two threads of equal priority with a field each, so that their roll-ups interleave in every
  way; one never stops. Two levels (`StatusRollup` has all): one error is enough to be hidden by an OK or to
  outlive its cause. One damaged frame: it can be a lost one, a wrong level or a body's
  frame taken for the nose's, before or after the status settles (637,644 states). Texts of one to three
  characters with an index of three values, so that one is just too long, one just fits and a longer one
  is followed by a shorter; two bits per character, a last one and another.
- *Estimator*. Three threads at the lock, so that two wait and their order matters. A
  counter of two values wraps all the time; the proofs cover any width. Two
  transactions, with the magnetometer between them.
- *Boot*. A configuration of two lines, so that the file can end or the card fail before the
  first, after it, and not at all. The card may come and go without end (10,728 states).
- *Kalman*. One call from any matrix of a grid. Code and equations are polynomials of
  degree two in the variances and one in the other elements; two that agree on three and
  two values of each are the same. The grid holds matrices that are no
  covariances, which the argument needs.

Fairness, and why the code justifies it:

- *Mission*: weak fairness of the thread and of the tick. What outranks the
  thread blocks on devices; with `MaxLag` this is the only assumption.
- *StatusRollup*: weak fairness of a report that was begun, for the same
  reason. No report is assumed to be made.
- *Datalogging*: weak fairness of a source that holds an item and of the logger
  in memory. Strong fairness of `Connect`, `Open` and `Write`: a card that is
  tried again and again works in the end (`f_sync` need not). A dead card is allowed by `Spec` and
  excluded only for `PoolRecovers`, which could not hold otherwise.
- *M2Serial*: weak fairness of `Put` and of the receiver: the queues drain by interrupt
  and both threads have the highest priority of their boards.
- *Ublox*: weak fairness of the configuration, whose transfers have time-outs,
  and strong fairness of reading: not every transfer fails.
- *Downlink*: weak fairness of a report that was begun and, of the `Periodic` threads only, of beginning
  one: the mission reports in each iteration (`mission.c:169`) and the estimator with each prediction
  (`state_estimation.c:208`), whatever happens. Strong fairness of the sender of the nose, since the mutex is handed to who waits
  for it when a shell ends, and of the heartbeat, since frames come a second apart; weak
  fairness of the rest. That shells end is a premise of the two liveness properties, not of the
  specification; so is that no text is too long, in `SettledIsHeard`.
- *Estimator*: weak fairness of the updates and of the loops of the mission and the barometer;
  strong fairness of locking the bus, as the mutex is handed to who waits for it.
- *Boot*: strong fairness of the threads of normal priority and of the heartbeat: what is above
  them sleeps or waits for the card for longer than they need, equals take turns. The
  threads above them run as soon as they can.
- *Wakeups*: weak fairness of each thread's steps and of its time-out, which the
  kernel counts. Of the devices only the low-g accelerometer is assumed to go on
  sampling: its thread has no time-out, the others need no device to wake.

All runs leave deadlock checking on. Where the environment of a model is exhausted
(clock at its end, all packets logged, all charges fired) there is an explicit stuttering action, so a deadlock elsewhere
would be reported.

## Proofs

Checked by TLAPS for all values of the constants that satisfy the named
assumptions of the modules.

- `FlightProofs`, of `Mission`. One inductive invariant relates the state, the position in
  the loop, the charges fired and, for every state that has a timeout, a bound on the time since
  launch or apogee. The bounds of the properties alone are not inductive: how long APOGEE or
  RELEASE_MAIN may last follows from the wake-up time set by the step before,
  so the invariant keeps the wake-up within each limit, and `now` within
  `MaxLag` of the wake-up. From it: `DeploymentIsOrdered`, `BarometerIsMasked`,
  `DrogueInTime`, `MainInTime`, and `Refinement`, that every step is a step of `FlightPlan`
  or invisible to it. `SafeOnPad` and `LandingInTime` state two more, of the arming and of the landing's
  timeout (`NoChargeBeforeArming`, `LandedByTimeout`), which no run repeats.
  The bounds do not depend on the estimates or the clock's end.
- `FlightProofs`, of `Pyro`. `NoPadLeftHigh` needs to know that the position of a thread in
  its loop stays in range and that an idle thread owes nothing: the invariant
  `PyroIInv` adds this to it, and for `ChargesInTurn` which channels a caller can
  want at each stage. Proved for any number of channels, roles, pulses and
  commands.
- `StatusProofs`, of `Rollup` and `StatusRollup`. The overall status may be better than a field only
  while some thread still has an update to do that will see the field. The
  invariant `Accounted` says who: for every field that is worse than the
  overall status there is a thread that `Covers` it, being before that field
  in its scan for that level or at a level below it. The delicate step is the
  reset of another thread, which hides a level already written; the one that
  resets then covers everything. Proved for any number of fields, threads and
  any priorities: the roll-up is safe under every schedule, and the
  priorities matter only for what the heartbeat may see in between. `GreenIsOk` adds `LookInv`: an OK the
  heartbeat copied was true of every field, and remains so of those that nobody has reported since; that it copies
  only while no roll-up is under way is where the priorities enter.
- `DataloggingProofs`. `PoolIsConserved`: every item is in exactly one place, free, in the
  mailbox, or held by one source (`PoolInv`). `NoPacketIsLost`: what was accepted is in a file, in the cache or in
  the mailbox, or was in a write whose `f_sync` failed, unless a write came up short on a full card; what a power
  cycle erased from memory no longer counts as accepted. The invariant (`FoundInv`) adds that all that is written and not
  committed is `unconfirmed`, so that its loss is accounted for. To know that the cache has room
  the type invariant bounds it for each position of the logger. `FilesAreOrdered` needs more than the
  files: packets of a source are in order within each file, the cache and the mailbox, and
  each of them precedes the next as long as the last file is the one that will receive the cache
  (`Orders`), and the packet a source holds is newer than all of its others (`AgeInv`). A retry
  writes to a new file what part of the old one may hold already, which is why the order is
  one of each file. Any pool, cache, mailbox, card and number of faults.
- `M2SerialProofs`. Every byte in flight stands at a place of a frame: its flag, a datum, the second byte
  of an escaped one, the checksum. A row of places (`Labelled`) over the bytes in flight, each the
  one after the one before it, leads to the start of the next frame to be sent. `Exact`: until a byte is
  damaged the receiver expects the first place of the row. `Resyncs`, for `ResyncsAfterOneFrame`: the row
  may begin after some bytes that are damaged or older, and when the first clean frame begins the
  receiver has not come to it; or it has lost its place in it (`Recovers`), and will wait for
  a flag before the frame ends; or it is in step, and from the second clean frame on has stored each.
  The case to see is `Recovers`: a receiver that is out of step is ahead of the frame, having filled more of the
  struct than the frame has sent of its own, so its struct and checksum are full before the frame ends. That escaping leaves
  as many bytes as the row has places is an induction over the payload. A byte that changed while it was sent takes the two places of an
  escaped one; that it may be a raw flag matters only to `Recovers`, which speaks of frames without
  (`Plain`). The library's theorems of induction
  cannot be used here, but its theorem on minimal elements can (`LeastNumber`, `Induction`). Any payloads, checksums, queues, frames
  and damage.
- `UbloxProofs`. `IInv` adds to the types `Reading`, what the state of the parser says of the frame on the
  bus: how far it has been read and what class, identifier, length and part of the payload are stored. It holds of
  frames that began when the parser was idle and have not been damaged (`Follows`); all frames are such while
  none is crowded and nothing damaged (`Undisturbed`). From it `NoPhantoms`, and `DispatchesIntactFrames`, a property
  of steps, for messages and buffers of any size.
- `BootProofs`. `InitBeforeUse` needs to know how far `main` and the configuration are together (`Progress`),
  that a thread `main` has not come to is not there (`NotBefore`), that one that outranks `main` has begun
  by the time the next is created (`Begun`), and what each has initialised by then (`Prepared`). `ConfigIsSettled` needs
  that the thread of the configuration has ended when `main` goes on (`Progress`) and that `conf` is complete exactly when all
  its lines have been read (`LinesInv`, `VerdictInv`). For a
  configuration of any number of lines.
- `EstimatorProofs`. `Refinement`: whoever is between `Load` and `Release` has the lock, alone, and its
  copy is what the filter held at `Load`; then each step is an update of `AtomicFilter` or
  invisible. `ClockIsExact` and `OneStalePressure` for any width of the counter and any number of
  accelerometers: after the flag is cleared only a thread that was past the check may
  still bring a pressure in.
- `StatusProofs`, of `Downlink`. `TextIsNotOverrun` for texts of any length; `SettledFramesAreTrue`
  rests on `Accounted`, proved once of `Rollup`: when no report is under way nobody covers a field, so none is worse than the
  overall status. `SteadyInv` carries this over the frame, in which nobody reports. For any
  number of subsystems, reporting threads and priorities.
- `MeasurementProofs`, of `Wakeups`. `NoWakeupLost` speaks of the wait; the invariant `Told`
  extends it back to the initialisation, from which the gyroscope goes straight to
  waiting. `ReadyListIntact` needs `PointerInv`: the pointer is set only
  while the thread sleeps or has just been timed out.
- `MeasurementProofs`, of `Kalman`. `AccelIsExact` and `PredictionIsInPlace`: halfway through an update
  the elements done have their new value in terms of the matrix at the call, and the
  others are untouched. Nothing of arithmetic is used, so rounding changes nothing.
  `PredictionIsExact` does the algebra: what is computed in place is F P F' + Q, but for the first
  element. It assumes `WholeTimes`, that each `dt` is an even number of units, so that
  neither `dt²/2` nor a product with it rounds; states, covariances and the unit are any.
  Both sides are polynomials in the time, and two that agree at infinitely many times agree at all,
  so the formulas are the same; what rounding adds at other times is not bounded here.

Only model-checked: liveness (`LaunchEndsLanded`, `ErrorShows`, `PoolRecovers`,
`FramesArrive`, `ReturnsToIdle`, `DriversKeepReading`, `EveryCallReturns`,
`OkIsSounded`, `SettledIsHeard`, `WatchdogIsFed`, `FliesWithoutLog`,
`LostReportsAreMadeGood`), which is out of the prover's reach under fairness; and
`PredictionAsDocumented` at times that are not whole in the above sense, which the run includes (one second).
Every other property of a passing run is a theorem.

## Disagreements found

With a run: `state_estimation.c:252` gives the covariance after a pressure as (I - K H) P. The
code overwrites the first row (307-309) and then corrects the other two with it (310-315), so
these are corrected too little and the matrix is no longer symmetric (`kalman_pressure`).

Noticed while modelling, without a run:

Mission and configuration.

- `docs/config.md:20` says `apogee_time` is counted from burnout; `mission.c:90` counts it
  from launch. A configuration written from the document fires the drogue early by
  the length of the burn, if the velocity estimate does not turn negative before.
- The default `accel_axis` is 3 (`config.c:25`, among "sane defaults"). Without a
  configuration it stays, and `adxl3x5.c:201` and 259 index three axes with it.
- `status_plan` lists an invalid configuration among the statuses. A complete but invalid one is
  reported OK and flown: `config_thread` drops the verdict of `check_config` (`config.c:159`-170). No property asks for this
  OK or forbids it; `ConfigSettled` only refuses an OK for a configuration that was read in part.
- The first prediction follows a boot that waits for a card as long as it takes; its
  `dt` is that time modulo 25.6 s.

Estimation and sensors.

- `state_estimation.c:167` multiplies `dt * p[1][1] * dt2_2 * p[2][1]` where the comment at
  102 adds `dt P11 + dt²/2 P21`; `PredictionAsDocumented` leaves out the first element for this
  reason.
- A pressure out of range reports an error of the barometer for ever: OK is
  reported once, before (`ms5611.c:211`, 230).

Status.

- The heartbeat of M2FC (`main.c:52`) compares an uninitialised variable until
  `LocalStatus` is set; for as long as no SD card is inserted the LED may be green.
- Every report passes through OK, an unchanged error too, and those of the other subsystems while
  it stands: a frame that falls into one carries it, and the buzzer may sound a nose that has
  an error as ready. `SettledIsSent` is stated of frames during which no report is under way.
- Two roll-ups that race may leave the board at an error that no subsystem has any more, until the next report.
- The "everything-is-OK" LED (`main.c:48`) may be lit green after a report of an error: the heartbeat
  decides by a copy it made before.
- The statuses of another board never age (`m2status.c:342`): after the link breaks the last one stands.
- `status_plan:101` lists a failed pool allocation among the errors to be
  tracked; `_log` drops the packet in silence.
- `status_plan:51` wants "fired" flags that are only set; `m2status_set_pyro_f`
  overwrites all three with each firing.
- `f_sync`'s result is ignored (`microsd.c:132`), like `bytes_written` (131): packets that are not on the card are
  dropped from the cache with the status OK.

Links and radio.

- `m2serial.c:54` says that every 7E is escaped. A byte that is written by another thread between the test and the second read
  may be sent as a raw 7E (66-68). A receiver in step takes it for what it is; one that is not may lose a second
  frame by it.
- `recv_systemstatus` compares the checksums (`m2serial.c:117`) and returns true in
  both branches, so a corrupted status is stored; with a corrupted origin it may replace
  the radio board's own.
- `ublox.c:16` wants a NAK noticed. The payload state spends one byte more than
  the payload has, so a frame right behind another loses its first sync byte
  and is skipped: replies that the module sends in a row are lost, a
  NAK among them.
- The first character of each RTTY text is not sent: the last one of the text before is played
  twice instead (`radio.c:97`-110). A text of 256 characters or more never ends: its first 256
  are repeated, and no later status is transmitted.

## Limits

- Sensor conversions, pressure to altitude, the LDPC decoder and the SDR code are
  floating-point computations on data no property here distinguishes.
- Register access, pin tables, hardware reset values and FatFs are external.
- A watchdog or power reset in the middle of a firing is not modelled: the pins
  then depend on the hardware.
- The exclusion of preemption by interrupts is taken from ChibiOS as documented by its use:
  one ready thread of highest priority runs.
- In `Datalogging` no order is promised across sources: the timestamp is
  taken before the post, so packets of two threads may be stored out of the
  order of their timestamps.
- `M2Serial` is one direction of one link. `StatusExchange` takes it that a frame arrives, is altered or
  is lost; the two are not composed.
- `Mission` and `Pyro` are not composed: in `Mission` a firing takes any time up to its bound.
- `Boot` follows a thread to the end of its first iteration and its reports to the status; the
  roll-up of these is in `StatusRollup`.
- `ResyncsAfterOneFrame` promises nothing of frames that hold a flag behind their first byte, and rightly
  so: they can keep a receiver out of step.
- Nothing is said of a link that stays dead: the code has no age for a status, and the last one stands
  (`m2status.c:342`).
- Nothing is said of GPS frames that come back to back, of which the parser loses one
  (`ublox.c:374`): `NoPhantoms` holds only while none has, and `DispatchesIntactFrames` of the frames
  that find it idle.
- `BarometerTrust` is about the flag; the first sample of a state is taken under the flag of the state before
  (`mission.c:57`), one of a thousand a second.
- In `Ublox` the checksum is not verified (the code says so itself), so after damage
  a wrong message may be dispatched; nothing is promised but to come back.
- `Wakeups` leaves out the barometer, which polls (`Estimator`). `DriversKeepReading`
  promises nothing of the low-g accelerometer once an edge was missed: the code
  then has no way to go on, and its status stays OK.
- `NothingLost` is conditional on a card that was never too full, and excepts packets whose
  `f_sync` failed; both losses are real and silent (`microsd.c:131`, 132).

### Not modelled

- *Analogue inputs*: one semaphore from a DMA callback to a thread that logs a buffer. The callback does
  not ask which half is full, so every other buffer races with the DMA for certain; only what is
  logged depends on it.
- *M2Telem*: framing of single packets, which nothing in the firmware calls.
- *M2RL*: stubs that do nothing.
- *RockBLOCK*: a fixed sequence of writes and sleeps that looks at no answer.
- *Shells*: text commands for the bench. `pyro` is in `Pyro`, the hold on the port in
  `StatusExchange`; the radio board's shell returns at once and shares its port.
- *SBP*, fault handlers, board files, `chconf.h`, `audio_data.c`: disabled, endless loops, tables and
  configuration.
- *Ground station and scripts*: numerical or offline.

## Plan

Done, in the order of importance: mission and its plan, pyrotechnics, status roll-up, data
logger, serial link, GPS parser, sensor wake-ups, the filter's arithmetic, its lock and clock, the
exchange of statuses with the radio, the boot; proofs about all of these.

What could follow: `Mission` composed with `Pyro`, so that a firing takes as long as its pulses;
`M2Serial` under `StatusExchange`, for which `Resynchronises` says what the composition may assume of
the link.
