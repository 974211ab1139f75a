# Segling: TLA+ models, model checking and proofs

Segling is a sailing autopilot in the making: a C *controller* that runs sensor
and actuator handlers in a fixed grid of time slots, and a Go *interface*
server that shows the controller's state to a web page and passes commands
back, both through memory-mapped files. This directory holds TLA+ modules
translated from that code, the TLC configurations that check them on small
instances, and theorems about them that TLAPS checks for every value of the
parameters.

`tlc -config X.cfg MCModule` runs a check, `tlapm ModuleProofs.tla` a proof.
`PROJECT.json` lists the runs, the theorems, the hazards, and for each
definition the source lines it stands for.

## 1. Inventory of the system

| Component | Source | State it keeps | Operations |
|---|---|---|---|
| Slot scheduler | `controller/src/controller.c`, `cmd/main.c`, `scheduling.h` | `controller_t`: `epoch`, `current_slot`, `next_slot_start_time` | `controller_init`, `controller_step`, `controller_deinit` |
| IMU filter and calibration | `ahrs.c`, `ahrs_calibration.c` | `g_ahrs`: IMU state, smoothed value, accelerometer bias, `ema_alpha` | `ahrs_init`, `ahrs_update_imu`, `ahrs_calibrate_imu`, `ahrs_reset_imu_calibration` |
| Compass filter and calibration | the same | magnetometer state, smoothed value, bias and scales, extremes, sample count | `ahrs_init`, `ahrs_update_magnetometer`, `ahrs_calibrate_compass`, `ahrs_reset_compass_calibration` |
| Public AHRS data | `ahrs.c` | none | `ahrs_get_data` |
| Fixed-point and angle helpers | `utils.c` | none | clamps, Q15, moving average, angles |
| I2C bus, simulated | `comms_sim.c` | device table: file, frame cursor, loaded, disconnected | `comms_init`, `comms_deinit`, `comms_read_i2c`, `comms_write_i2c` |
| I2C bus, hardware | `comms_hardware.c` | file descriptor, initialised flag; in the device, its registers and register pointer | the same |
| Controller storage | `storage.c`, `storage.h` | mapping of `state.bin` | `storage_*` (stubs), `voxor_commit` |
| Store, commands | `interface/internal/storage/storage.go` | page of `commands.bin`, `Store.mu` | `QueueCalibrateIMU`, `QueueCalibrateCompass` |
| Store, snapshots | the same | page of `state.bin` | `ReadSnapshot` |
| Store, life cycle | the same | the two mappings | `Open`, `Close` |
| Decoder | `ahrs_public_v1.go` | none | `DecodeAHRSPublicV1` |
| HTTP server | `interface/cmd/server/main.go` | the store | snapshot, stream, the two calibration requests |
| Web page | `interface/web/src` | last snapshot, timers | polling, calibration buttons |
| Logging | `logging.c` | the open log, the level | `logging_init`, `logging_deinit`, `log_message` |
| Data generator, tests, build | `scripts/`, `tests/`, `Makefile` | none | |

How they interact:

* `main` calls `controller_init` and then `controller_step` for ever. A step
  runs one epoch of slots and calls the handler compiled into each. The
  handlers (`ahrs_step` and so on) are declared and not yet written; what they
  will drive, the AHRS operations, is written and unit-tested.
* Controller and server share two files and no process, lock or message. The
  controller writes `state.bin`, the server writes `commands.bin`. Byte 0 of a
  page is the only synchronisation; its low bit says "being written". On the
  controller's side only `voxor_commit`, the flip of that bit, exists.
* Handlers of one server share a `sync.RWMutex`; several servers may map the
  same files.

What is hard here, and where a unit test hardly reaches: time that passes
between reading the clock and using it, and what an overrun does to later slots
and epochs; two processes on one page, either of which may die at any
instruction; a state machine whose calls may come in any order, over
fixed-point arithmetic that rounds, clamps and truncates. `PROJECT.json` lists
each hazard at its line with the properties that would catch it.

What makes each component correct:

* scheduler: deadlines never drift from the absolute grid, handlers start only
  near it, an overrun costs a bounded number of slots and starves nobody it does
  not reach;
* IMU: the average neither overshoots nor leaves its width, the first calibration
  of a sensor that did not move is exact, the output settles;
* compass: the calibration in force is whole and belongs to one turn, a verdict
  is deserved, and every calibration ends;
* command page: exclusion over processes and crashes, no lost or mixed command,
  every call returns;
* snapshot page: a snapshot is one write's payload, no going back in time,
  through deaths and restarts of the controller as far as the byte can tell;
* store: nobody touches a page after `Close` has unmapped it, and readers,
  writers and `Close` never wait on each other for ever;
* simulated bus: each frame is served once and in order, the one-byte counters
  end with the file, and no file stays open;
* hardware bus: the handle names the bus's own descriptor or none, and a call
  reads or writes a block of registers at one instant, or fails;
* published data: the server decodes what the controller published, and the
  heading turns with the field.

## 2. Modules

```
SlotGrid  <--implements--  ControllerStep  <--  ControllerStepProofs
CommandMailbox  <--implements--  CommandPage  <--  CommandPageProofs
SnapshotPage, RWMutex  <--  Store  <--  SnapshotPageProofs
SimTape  <--implements--  CommsSim  <--  CommsSimProofs
I2cRegisters  <--implements--  CommsHardware  <--  CommsHardwareProofs
Q15Filter  <--  AhrsImu, AhrsCompass
AhrsCompass  <--  AhrsPublic  <--  AhrsCompassProofs
AhrsImu  <--  AhrsImuProofs
Q15Filter  <--  Q15FilterProofs  <--  AhrsImuProofs, AhrsCompassProofs
```

Each `MC...` module extends a component and gives its constants small values.
Operators headed "Faulty variant of ..." are not part of a specification. Each
is a plausible bug kept beside the definition it would replace; substituted for
it, TLC finds a property violated, which shows that the property depends on
that code.

### ControllerStep

`next` is the C pair `tv_sec`, `tv_nsec`, with the code's single carry
(`Advance`), the truncating microsecond difference (`GetAbsTimeDiffUs`) and the
kernel's refusal of an unnormalised deadline (`Normalised`). `now` is
`CLOCK_MONOTONIC`. Time passes inside actions: a handler takes one of its
durations, an absolute sleep ends at the deadline or at once if that is past,
plus a latency.

| Action | Code |
|---|---|
| `ControllerInit` | `controller_init`, succeeding or failing; `main` ignores which |
| `StepBegin` | entry of `controller_step` |
| `RunHandler`, `IdleSlot`, `SkipSlot` | the jitter test, the handler or the log line, then the advance of the deadline (`SlotDone`) |
| `WakeInEpoch`, `WakeAtEpochEnd` | the two calls of `clock_nanosleep` returning 0 |
| `SleepInterrupted`, `SleepRefused` | `clock_nanosleep` failing with EINTR or EINVAL; the epoch breaks off |
| `Horizon` | the bound on epochs, where the model stops |

`main` leaves `controller_t` uninitialised, so `Init` takes `next` and `epoch`
from sets of possible stack contents. They may be no time at all: then every
sleep is refused, every call of `controller_step` breaks off after its slot 0, and
each of these slots adds its length to the deadline, until one makes it a time.
The reading of the clock and the start of
the handler are one instant; a preemption between them is part of the handler's
duration, and a test passed by a hair may start its handler that much later in
reality. `anchor`, `cut` and `lateRun` are history variables; `anchor` is the
clock and the deadline at the entry of the loop or, as long as that deadline is no
time, after the latest slot, so the grid that `OnGrid` and the other properties
speak of begins with the first deadline the kernel accepts. Stack contents within
a slot of the largest `long`, where adding a slot overflows, are left out.

### SlotGrid

The abstract scheduler: a ring of slots and the lag of the present behind the
deadline at hand. It has no clock, so its state space is finite and the liveness
of the scheduler is checked here. The microsecond in which the code may round
either way is left open (`TightNs`, `LooseNs`). `ControllerStep` maps to it by
`lag` and slot. While the deadline is no time the ring is `lost`, and its only
step is `Recover`: a slot 0 that finds a deadline, with any lag. Whether the
handler of slot 0 runs while the ring is lost is left open. Nothing else may
happen to a lost ring, so the refinement says that refused sleeps are all there
is until then, and that the ring so found is the one that stays.

### CommandPage and CommandMailbox

One step per atomic operation of `writeCommand`: the mutex, each load and each
compare-and-swap of the two loops, the plain stores under the lock, `Flush`. The
first word of the page is the lock bit and the command; bytes 2 and 3 are only
ever written 0. The stores of bytes 1 to 3 are one step: nobody else can change
the word then, which `MutualExclusion` and `UnlockCannotFail` establish, and
the lock bit is in another byte. `Crash` kills a server with its handlers and
its mutex at any point and starts it again on the page as it is. The initial
page may hold any command and may be locked by a process long dead. The step
that would end `seqLockCommandsEnd` by exhaustion is not there because
`UnlockCannotFail`, proved, says its guard never holds: at "end" there is always
a try left.

`CommandMailbox` is what a caller relies on: a call replaces the mailbox's
command at one instant or not at all; "ok" means it did; an error after a failed
`Flush` may hide that it did; a death inside the page kills the mailbox.

### SnapshotPage

One step per load of `readSeqlockedPayload`; `copy` reads the cells in any
order; a cell holds the number of the write that stored it. `InOrder = FALSE`
lets the loads of an iteration happen in any order, as plain Go loads on a
weakly ordered machine may; the properties state that they need `InOrder`. The
writer follows the documented protocol (flip, store, flip), may be arbitrarily
fast, may die anywhere (`WriterDies`) and be started again (`WriterStarts`). The
flip is unconditional, as in `voxor_commit`, and a page is mapped as it is found:
`Init` takes either value of the byte, over a payload that is whole or not. A
controller that starts on a page left odd makes the byte even while it writes and
odd when it is done, and a reader then accepts pages in the middle of a write and
refuses stable ones. The history variable
`truthful` says when the byte can be believed: since a write last ended on an even
byte, or since a page found whole and even, no controller has started on a page
left within a write. `UnlappedIsWhole` promises whole snapshots while that is so,
through deaths and restarts, and again once a later death has turned the byte back
and a write has ended on it; it promises nothing in between. `NeverBackwards`
promises the same of what a snapshot may fall behind: the newest cell of the
snapshots that were accepted while the byte was truthful.

The writer's stores become visible in program order; the code
that will perform them is not written, and the `memory_order_release` of
`voxor_commit` alone would not hold the stores back behind the first flip.

### RWMutex and Store

`Store` is one server's `Store`: `ReadSnapshot` with the loads of `SnapshotPage`,
`writeCommand` (one step of work here, since `CommandPage` has its detail) and
`Close`, all behind the `sync.RWMutex` that `RWMutex` models from its contract:
a writer announces itself, later readers wait, and its `Unlock` lets all of them
in. A goroutine is "called", "blocked" in the lock, "in", "leaving" and "idle"
again.

| Action | Code |
|---|---|
| `CallMethod` | a handler calls a method of the store |
| `Arrive`, `Gets` | `s.mu.Lock()` or `s.mu.RLock()`, up to and after where it blocks |
| `Refuse`, `Enter` | the length check, which fails on the nil slice `Close` leaves |
| `Read` | one load, retry, or exit of `readSeqlockedPayload` |
| `Work` | the body of `writeCommand` or `Close` |
| `Leave` | the deferred unlock |
| `Controller` | a step of the writer of the page, its death and its restart |

`main` defers `Close` but ends in `log.Fatal`, which exits without running it;
`Close` is modelled as the method it is. A second `Close` finds nil slices and
does nothing.

### Q15Filter, AhrsImu, AhrsCompass

The arithmetic is exact over the integers, with the width of a sample (`I16_MAX`)
and the fixed-point unit (`Q15_ONE`) as parameters; a smoothing factor is a
multiple of half a unit so that `float_to_q15` rounds as in C. Operations are
actions with the code's names; an operation the code refuses changes nothing and
is not a step. The two halves of `g_ahrs` share only `ahrs_init` and the
smoothing factor and are separate modules. `AHRS_STATE_DISABLED` is never
assigned, and the IMU's `FAILED` is unreachable: `ahrs_calibrate_imu` fails only
outside ACTIVE and CALIBRATING, and `ahrs_update_imu` calls it in CALIBRATING.
Compass samples are taken to lie in the sensor's range, `MAG_MEAS_MAX_DEC`; with
larger ones the cast of a span to `int16_t` could wrap.

The `span < 1` and `avg_span < 1` corrections of `mag_cal_try_finish` never
matter when it succeeds, since a span is then at least `AHRS_MAG_CAL_MIN_SPAN`
(assumed at least 2), so `Finish` has no counterpart for them.

### AhrsPublic

Operators over the states of `AhrsCompass` and a set of IMU readings:
`ahrs_get_data` with the helpers of `utils.c` it calls, the struct
`ahrs_public_t` as a C compiler lays it out (`Size`, `Offset`, `Layout`), and
`DecodeAHRSPublicV1` with its own offsets. The doubles are counted in units,
angles in 1/10000 rad and 1/100 degree; the ratio of `atan2_rad` stays a
fraction. The seven doubles keep their values through the page by being equal
bytes, so their encoding is `<<value, k>>`, the k-th byte of a value.

### CommsSim and SimTape

`CommsSim` keeps the device table of `comms_sim.c` (`loaded`, `disconnected`,
`frame_count`, `line_index`), counts the files that are open for each device and
holds the files themselves, which a write changes. `UINT8_MODULUS` is where the
two counters wrap. One action per call and outcome: `comms_init`,
`comms_deinit` (and `AlreadyDown`), `LoadFails` for each way `sim_load_device`
fails, `comms_read_i2c` and `comms_write_i2c` served, `AccessFails` for a device
that is disconnected, a register or size that does not fit, and I/O that fails,
and `Refused` for a bus that is down or an unknown address. Loading on first
access is part of each access (`Ensured`, `Found`, `Opened`). `WriteBreaksOff` is an
`fwrite` that stores some of its bytes and fails. `Regenerate` is
`generate_sim_data.py` or a hand-made file, run between two runs. Left out:
`comms_init` on a bus that is already up, which nothing in the repository does
and which would forget the open files.

`SimTape` is what a driver relies on: one tape of frames per device; a read
hands out part of the frame under the head and moves on, a write leaves the head,
a failure never moves it, a failed write may have overwritten part of the frame,
and only the end of the bus rewinds. The refinement maps
the head to `line_index` of a loaded device and to 0 for one not yet loaded.

### CommsHardware and I2cRegisters

`CommsHardware` is the Linux backend with everything it shares: the process's
descriptor table, in which `events.log` opens and closes another descriptor, the
adapter, which the kernel holds for one `ioctl` at a time, and the device, whose
register pointer any process on the bus moves. `controller_t` begins as garbage.
`controller_init` may fail, after which `main` runs on; it may be called again
on a bus that is down. `Lowest` is POSIX's lowest free descriptor, so a number
that was closed comes back as another file.

A call is `Call`, then `Refuse`, or `Submit` and its messages: `SendRegister` and
`ReceiveData` for a read, `SendData` for a write, then `Succeed`; `Fail` at any
message. `Other` is another process, at any time the adapter is free. There are
no sensor handlers in the repository, so a handler is any sequence of calls.
`Submit` is guarded by `files[fd] = "bus"`, which `OwnDescriptors`, proved, says
always holds there.

`I2cRegisters` is what a handler relies on: a successful call read or wrote its
block at one instant between call and return, on a bus that was up; a failed
write stored a beginning of its bytes.

## 3. Runs

| Run | Checks | Instance |
|---|---|---|
| `controller` | `OnGrid`, `NeverEarly`, `SkipsBounded`, `HandlerOnGrid`, `SkippedOnlyWhenOff`, `OnlyOverrunsDelay`, `ImplementsSlotGrid` | 3 slots of 15 ns, seconds of 21 ns, microseconds of 3 ns; overruns of one and two slots, three latencies, seven stack contents of which three are no time, 4 epochs, 2 interrupts |
| `slot_grid` | `UnexposedHandlersRun`, `CatchesUp` | 4 slots, one overrunning handler, 2 broken sleeps, starts up to 100 late or lost |
| `command_page` | `MutualExclusion`, `LockedIffHeld`, `UnlockCannotFail`, `PublishesOwnCommand`, `DeadPageIsFrozen`, `ImplementsMailbox`, `CallsReturn` | 2 servers, 3 handlers, 2 commands, 2 tries, unlimited crashes |
| `store` | `UnlappedIsWhole`, `NeverBackwards`, `NeverUnmapped`, `CallsReturn` | 1 reader load by load, 1 goroutine that reads or writes a command, 1 that closes, again and again; 2 cells, every page to start from, 3 writes, of which 1 while other goroutines call; 2 tries, any number of deaths and restarts |
| `ahrs_imu` | `FirstCaptureIsExact`, `StallsInDeadBand`, `NoOvershoot`, `Settles` | samples of 4 bits, `Q15_ONE` 4, 3 readings, 4 factors, 4 requests |
| `ahrs_compass` | `WholeCalibration`, `BoundsAreHeard`, `VerdictIsDeserved`, `CentresTheTurn`, `CalibrationEnds`, `DecodedIsPublished`, `HeadingTurnsWithField` | samples of 6 bits, 4 samples, limits 3 and 4, 3 requests; 6 IMU readings |
| `comms_sim` | `NoHandleLeaks`, `DisconnectedWhenSpent`, `ImplementsTape` | 2 devices with frames of 2 and 1 bytes, 2 byte values; files missing, ragged, empty, short, full and one frame too long; counters that wrap at 3 |
| `comms_hardware` | `OwnDescriptors`, `ImplementsRegisters` | 3 one-bit registers, requests of 0 to 3 bytes, a buffer of 2, 2 descriptors |

`controller`, `ahrs_imu`, `ahrs_compass` and `comms_sim` also check their
module's `TypeOK`; the type invariants of the other runs are proved only.

The bounds are small and chosen so that the interesting cases occur. Seconds are
no multiple of slots, so the carry and the truncation meet every phase; the
overruns reach the next slot and the one after, and stop one nanosecond short of
delaying slot 0, the slot of which `OnlyOverrunsDelay` speaks; two interrupts and
four epochs put broken epochs before, between and after whole ones. Two tries and three handlers
let each handler lose a race, retry and give up, and let a mutex queue form
behind a spinning one. One reader load by load suffices for snapshots because
readers write nothing the others see; the second goroutine adds a reader that
waits behind a writer. Three writes are one in which the controller dies, one with
the byte inverted and one that makes it truthful again, and two lap a two-try reader
in each of its tries. For the lock the page need only be able to be odd, stay odd and
change under a reader, so one write is enough while other goroutines call
(`MCWritesAmongCallers`); the bound holds back the controller and new calls only,
neither of which is fair. Two descriptors have room for bus and log, or
for one of them when the other took the last; three registers let a block wrap,
and requests reach both sides of the buffer's limits. The IMU's
readings sit on both ends of the width so that corrections clamp, and the
factors include a refused one and both clamps of `float_to_q15`. The compass
samples give odd and even spans, turns too small to complete, and a turn in one
corner after which the other corner is clamped; the sample limit equals the
minimum plus one, so exhaustion and completion compete. `Q15_ONE = 4` makes the
dead band as large, relative to the width, as it ever is. The averages these
samples produce lie in all four quadrants, so `HeadingTurnsWithField` meets
every seam of `atan2_rad`; `SEAM`, a hundredth of a degree, is what the
pieces may fail to meet by. The bounds on
requests, epochs, interrupts and writes appear in guards; each is named in its
module.

`MAX_FRAME_COUNT` is one below the modulus of the counters, as 255 is below 256,
so a file one frame longer would wrap them; the bus may go up and down any number
of times.

Four runs show a statement of the repository that the code does not keep:

* `anchored_at_init`: the grid of the first epoch is not anchored by
  `controller_init`, although the controller's README says that
  `next_slot_start_time` was set by the previous epoch "or init".
* `epoch_duration`: an epoch is not always `SLOT_COUNT` slots long "independent
  of how long handlers take": an overrun of the last slot lengthens its epoch
  and shortens the next.
* `torn_snapshot`: "even = stable" is not enough. The byte alternates between
  two values, so a reader lapped by a whole write accepts a mixed payload, on a
  page no controller ever left within a write. What does hold is `UnlappedIsWhole`.
* `imu_recalibration`: a second capture copies an average that the first bias has
  already corrected. In the trace it is the periodic sample that captures again,
  after a direct second call of `ahrs_calibrate_imu`; a repeated calibration does
  the same. What does hold is `FirstCaptureIsExact`.

## 4. Fairness

* `SlotGrid`: weak fairness of "do the slot", of "wake" and of `Recover`. `main`
  loops for ever, a handler returns within its duration, and an absolute sleep ends;
  every call that is broken off for a deadline that is no time adds a slot to it, so
  after finitely many calls it is one.
  Nothing is assumed about interrupts, whose number is bounded.
* `CommandPage`: weak fairness of each handler's next step, as the Go runtime
  runs every runnable goroutine, and strong fairness of taking the mutex:
  `sync.RWMutex` blocks later readers for a waiting writer, and writers queue on
  a `sync.Mutex` that in its starvation mode hands over to the longest waiter.
  No fairness of crashes, and none of calls.
* `Store`: weak fairness of each goroutine's next step and strong fairness of
  the callers' arriving at the lock, for the reasons just given; none of the
  controller, of its deaths or of its restarts, so
  `CallsReturn` holds when it has died with the byte odd, and none of calls.
* `SnapshotPage`, `CommsSim`, `CommsHardware`: none; a bus call is one pass
  through straight code and has no loop to get stuck in.
* `AhrsImu`, `AhrsCompass`: weak fairness of the periodic sample, whose slot
  comes round in each epoch (`UnexposedHandlersRun`). Other calls need not come.

## 5. Proofs

All parameters are arbitrary, within the named assumptions of the modules.

* **ControllerStepProofs.** `GridInv` adds to `OnGrid` the types and what each
  program point knows of `SlotsBegun`; each action either keeps both sides or
  adds one slot to both, or, while the deadline is no time, takes the anchor anew
  (`AnchorStays`, `SlotDoneFacts`). The step for `Advance` needs that a slot is shorter
  than a second, or the single carry would not normalise. `RunIsOnTime` turns
  the truncated comparison into a bound on the true lag; `HandlersOnGrid`
  follows, and `SkipsAreOff` is its converse. `SkipsBounded` is not inductive:
  the invariant charges each skipped slot to a credit of lateness
  (`PaidAtSlot`, `PaidInSleep`) that a skip reduces by a slot and a sleep renews
  by at most a latency. `ControllerImplementsGrid` maps each action to an action
  of `SlotGrid` or a stutter; while the deadline is no time, a slot is a `Recover`
  or a stutter (`LostImplements`).
  `DelaysAreOverruns` says which slots an overrun can delay. Its invariant
  (`DelayInv`) is that the loop is not late, or that some handler's run accounts
  for its lateness after each slot in between made up for a slot less a latency
  (`Covered`); a run only starts inside the tolerance, so overruns in a row do
  not add up, and a slot so covered is one `SlotGrid` calls exposed
  (`CoveredIsExposed`). It is stated for latencies within the tolerance and
  shorter than a slot: with longer ones any slot may be late. `RingTypeCorrect`
  says that the ring `controller_step` implements never leaves its slots.
* **CommandPageProofs.** The inductive invariant ties the lock bit to `owner`,
  `owner` to the one handler inside, and the words that handlers have seen to
  the page. Type correctness, all five safety results and the refinement of `CommandMailbox`
  follow from it, for any number of servers and handlers and any spin limit.
* **SnapshotPageProofs.** The invariant relates each copied cell to the number
  of the write: in a reader that was not lapped and saw an even byte, a cell
  copied is the latest version, provided the byte is truthful, for only then does an
  even byte under no write mean that every cell is; and no cell ever decreases,
  which gives `NeverBackwards` even for torn snapshots and after restarts. Every step of `Store` is a step of
  `SnapshotPage` or leaves the page alone (`StoreRunsPage`), so both results are
  theorems of `StoreSpec`. `NoUnmappedAccess` adds what the lock knows: who is
  inside for reading is among its readers, who is inside for writing holds it
  alone (`LockInv`), so that nobody who looked at the mapping is inside when
  `Close` unmaps it (`MapInv`).
* **Q15FilterProofs, AhrsImuProofs.** `DivBetween` and `EmaBetween` put a
  weighted mean rounded down between its arguments; type correctness,
  `NoOvershoot` and the fixed point behind `FirstCaptureIsExact` rest on it. The
  invariant for the latter says that after a seed under a zero bias, and until the
  sensor moves or a bias is captured, the average *is* the reading. `EmaStalls` finds where the blend stands
  still: a step of `a / Q15_ONE` of the distance, rounded down, is none exactly
  when the distance is not negative and below `Q15_ONE / a`, which is the dead
  band of `FilterStallsInDeadBand`.
* **AhrsCompassProofs.** The invariant combines types, `BoundsAreHeard` and
  `WholeCalibration`; that the average span lies between the smallest and the
  largest is the arithmetic lemma it needs. `TurnsAreCentred` adds
  that `try_finish` stores without wrapping (`FinishStores`): the ends of an axis
  lie at two distances from its middle that differ by one at most, each is scaled
  and rounded down (`EndsAreOpposite`), and clamping both to the range only
  shrinks the difference.

  `HeadingFollowsField` is about every pair of averages in the sensor's range. In
  each branch of `atan2_rad` the angle is a cubic of the ratio `(x - |y|) / (x + |y|)`
  that falls over its whole range (`CubicFalls`), and the divisions, cut off
  towards zero, keep an order (`CDivKeepsOrder`). Turned back into the first
  quadrant a field has the coordinates `Fore` and `Side` and an angle unrolled from
  them (`AtanUnrolls`), so a turn by less than a quarter advances the unrolled angle
  within a quadrant or into the next one (`FieldAdvances`). Where two branches meet
  a unit may be lost, in one of the two fields only, and the sum is then taken
  modulo a turn (`DegreesAdvance`). The theorem is about the exact ratio and one
  cut-off, as `AhrsPublic` defines them, not about the rounding of doubles.

  `PageShowsTheData` needs no run of the calibration but its types: the sum that
  gives a member's offset is unrolled once (`OffsetIsPlace`), each byte of the page
  then belongs to one member (`LayoutOfMember`), and the offsets of the decoder are
  those places (`DecoderReads`).
* **CommsSimProofs.** The three invariants are inductive together. What
  `sim_ensure_device` leaves behind is one lemma (`FoundDevice`); that the cursor
  of a served read does not wrap (`ReadMovesOn`) needs only that the frame limit
  is below the modulus. `SimImplementsTape` maps each action to a step of
  `SimTape`; what a whole and a broken write store is one lemma
  (`StoringKeepsInv`).
* **CommsHardwareProofs.** `OwnDescriptors` is inductive with the types; the
  refinement needs `Transfer` besides: the adapter is held from the first message
  of a transfer to its last, so the pointer a read set is still there when its
  data is read. The instant of `I2cRegisters` is the last message.

Model-checked only: what is temporal under fairness (`CatchesUp`,
`UnexposedHandlersRun`, both `CallsReturn`, `Settles`, `CalibrationEnds`), because
the prover handles neither fairness nor ENABLED. The safety half of two of them is
proved: `DelaysAreOverruns` is why an unexposed handler is not skipped once the
loop has caught up, and `NoOvershoot` with `StallsInDeadBand` why the filter can
come to rest only where `Settles` says.

## 6. Not modelled

* Floating point: doubles are counted in fixed units in `AhrsPublic`, so rounding
  of the last bits, infinities and the bit patterns of NaN are left out, and so
  is the float comparison inside `float_to_q15`.
* The controller's consumption of commands and its writing of telemetry: not in
  the repository (`storage_*` are stubs). The writer in `SnapshotPage` is the
  protocol of `storage.h` with `voxor_commit`, and its restart assumes that nothing
  is repaired when the page is mapped, as nothing in `storage.c` does; slot numbers are left out, and
  the two sides' numbers for the AHRS page do not agree yet.
* The sensor handlers that would connect the buses to the AHRS: not in the
  repository. `CommsHardware` admits every sequence of calls instead.
* `Open` failing half way: it returns before anybody holds the store, and what it
  mapped it unmaps. `comms_init` on a bus that is up: nothing calls it, and the
  simulated one would then forget its open files.
* HTTP routes and JSON, log formatting and the log level: no state. Of the data
  generator only that it replaces a file.
* The Vue pages: they keep the last answer and nothing else. Polls may overlap
  and their answers overtake each other, which is a property of the network and
  not of a handler in this repository; it is listed as a hazard.

## 7. What could come next

1. When the controller's storage is written: the writer of `SnapshotPage`
   replaced by its code with the order of its stores, and the consumer of the
   command page as a third actor of `CommandPage`.
2. When sensor handlers are written: `ahrs_step` over `I2cRegisters`, both AHRS
   halves composed through `ahrs_init`.
3. The rounding of doubles in `atan2_rad`, which the units of `AhrsPublic` leave
   out: a bound on it would turn `SEAM` into a statement about the published bits.
