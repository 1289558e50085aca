# A TLA+ verification of the Control-OFC daemon

`control-ofc-daemon` is a privileged Linux service that drives a computer's
fans. It reads temperatures, evaluates the active profile's curves once a
second, and writes duties to three kinds of hardware: motherboard headers
(hwmon sysfs files), an OpenFan controller (a serial board with ten channels)
and GPU fans. It answers an HTTP API on a Unix socket, whose clients may run
diagnostics that take a fan over, update the OpenFan firmware, or override a
control. Whatever happens, three things must hold: a hot machine gets full
speed, a fan the daemon lets go of is not left slow, and no two writers fight
over one fan.

This directory models the parts of the daemon that carry these promises, as
TLA+ modules checked with TLC on small instances and, where the result does
not depend on liveness, proved with TLAPS for every instance.

## 1. Inventory

Paths are relative to `daemon/src/`. "M" marks what is modelled, "p" what is
modelled in part, "–" what is left out (section 7).

| Component | State | Operations | |
|---|---|---|---|
| Thermal rule and ladder (`safety.rs`, `profile_engine/safety_tick.rs`) | trigger and latch of the CPU and coolant rules, no-sensor streak, last decision | one evaluation per engine tick | M |
| Sensor feed (`polling.rs`, `health/`) | descriptors, cached readings and ages, failure streaks, quarantine, one read in flight | poll, harvest, re-discovery, eviction | p |
| Hwmon lease (`hwmon/lease.rs`) | the one lease, its owner and expiry | take, force-take, renew, release, expire | M |
| Hwmon controller (`hwmon/pwm_control.rs`) | per-header write state, drift counters, exit record, held and abandoned headers | `set_pwm`, give-back, release, exit floor, priming | M |
| Hand-back ledger (`hwmon/handback.rs`, `main.rs`, the ExecStopPost command) | what each header did before, what is taken, the record file | note a take, hand back, persist, replay | M |
| Verify slot and header verify (`api/handlers/hwmon_ctl.rs`) | slot, deadman, epoch | claim, test write, settle, restore, abandon | p |
| OpenFan controller (`serial/controller.rs`) | per-channel last duty, stop clock, duty before a loss, exit minimum; write generation | `set_pwm`, exit floor | p |
| OpenFan back-end (`profile_engine/backends.rs`) | held channels, pre-emergency snapshot, lost-duty mask, one write task | apply, force, put back, release, give back | p |
| OpenFan poll loop (`polling.rs`) | transport slot, error count | release, reconnect, probe, adopt | p |
| Port loan (`serial/port_loan.rs`) | one request, one answer, one hand-back | ask, lend, refuse, give up, return | M |
| OpenFAN firmware maintenance (`openfan_maintenance/`) | claim, run record, journal, cancel window | park, borrow, boot, write, restore, recover | p |
| Overrides and identify (`control_override.rs`, `api/handlers/control.rs`) | override table with tokens and deadmans, identify holds | take, renew, release, expire, identify | M |
| Profile store and activation (`api/handlers/profile.rs`, `daemon_state.rs`) | profiles on disk, active profile, epoch, saved choice | store, delete, activate, deactivate, persist, load at boot | p |
| GPU fans (`hwmon/gpu_fan.rs`, `backends.rs`, `api/handlers/gpu.rs`) | hand-back list and record, relinquished fans, one detachable write, failure cache, stall verdict | write, give back, reset, verify, restore | p |
| Watchdog and sleep (`sd_notify.rs`) | pings, width, disarm, fallback | tick, widen, narrow, disarm | p |
| Pump stall watch (`profile_engine/pump_stall.rs`) | per-pump stall state | detect, kick, confirm, hold, release | M |
| Engine loop (`profile_engine/mod.rs`) | snapshot of overrides and profile, stall flags | tick | p |
| Longer diagnostics (`api/calibration.rs`, `api/characterization.rs` …) | pause, walk, backstop, stores | gate, step, kick, restore, persist | p |
| Validation sessions, runtime configuration, process plumbing | recorder files, config file | start, stop, reload | – |
| Curve evaluation and tuning | – | pure floating-point functions | – |
| Hardware discovery, HTTP surface, history, tray | – | sysfs walks, tables, serialisation | – |

**Interaction.** The engine task, two poll tasks, the API handlers (with
detached diagnostic and update runs) and the main task share one `StateCache`,
one hwmon controller, one OpenFan controller, one override table and one active
profile, each behind a lock of its own. Blocking writes run on threads the
engine waits for only up to a budget, so a write task may outlive the tick that
started it, and at a stop it may outlive the drain. The serial port sits in a
slot of its own, behind another lock, which the poll loop swaps under the
controller, and which it lends to a firmware update by a request and an answer
that may miss each other. Two things bypass the locks on purpose: the shutdown
hand-back writes headers and cards without the controller's lock, and
ExecStopPost runs after the process is gone with nothing but the record files.

**Where it is hard.** State is read under one lock and used under another (the
pause, the published safety state, the write generation, the override
snapshot). The last known duty of a fan is a belief, invalidated by a failed
reply, a reconnect, a resume, a firmware reset, or another program. Diagnostics
put fans at low duties and may be cancelled, superseded, dropped, or overtaken
by an emergency or a stop. A firmware update leaves the board without firmware
for a while, and must say so on disk before it does. The process may die
between any two writes. `PROJECT.json` lists these hazards line by line, with
the properties that would catch each.

**What makes each part correct.** The ladder: a latched emergency forces full
speed whatever the sensors do, and only fresh cool readings end it. The feed:
the engine acts on no reading of a quarantined or vanished sensor. The hwmon
side: the record is ahead of the hardware, so that any end of the process gives
every header back; no write queued behind the exit floor lowers it; a
diagnostic has its header to itself; commands and forces settle. The OpenFan
side: a belief is never wrong where it matters, duties lost or taken come back,
released channels are not left slow. A firmware update: no board is handed to
the engine that was changed and does not answer, none is forgotten by a crash,
and the port comes back. Control: an override acts on the activation it was
taken under, an identify stops no pump, a restart loads what was active. GPU:
every driven card is recorded, ends on the firmware's own curve, and follows
its profile while the daemon lives. Watchdog: a healthy daemon is not killed,
asleep or stopping. Pump: a stall is believed only on unbroken evidence, and
answered until there is evidence against it.

## 2. Modules

Each action models one step of the code between two points where another actor
can act; `PROJECT.json` maps every definition to its lines.

### The thermal ladder

* **`ThermalSafety`** – `ThermalSafetyRule::evaluate`, the stale-emergency
  latch, the coolant rule and their combination: what one tick decides from
  one set of readings.
* **`SensorFeed`** – the hwmon poll loop. A read is single-flight: spawned,
  harvested any time later, possibly after its freshness budget. Sensors fail,
  chips become unreadable, devices vanish; the failure tracker earns each
  sensor one re-discovery before quarantine.
* **`ThermalLadder`** – composes both: the poll loop, the engine's tick with
  its hottest fresh reading and raised trigger, and the API moving the coolant
  limit between ticks.

Readings carry an age in units of the poll interval, saturating one past the
budget: nothing distinguishes older ages.

### The motherboard headers

* **`HwmonLease`** – the arbiter. Ids are only compared, so a fresh lease takes
  any id nobody holds.
* **`HandBack`** – headers as sysfs shows them, the ledger, the record file
  (`persist`, `render_record`) and `hand_back` with each of its outcomes,
  including the half-way one: mode not confirmed, manual mode written, full
  scale refused. Where the mode switch never reads back (dell) a mode that is
  written is taken as restored, one that is refused falls back to manual mode
  at full scale, and mode 0 is never confirmed.
* **`PwmControl`** – the controller under its lock, `set_pwm` cut at each point
  where the lock-free shutdown hand-back can intervene: note the take, save
  the original, switch to manual, check, write. Reclaim watchdog, drift
  correction with its bounded attempts, drivers that store coarser duties, that
  cannot read their mode (dell), and that send all channels in each report.
* **`HwmonWrites`** – everything that calls it: the engine's write task, the
  diagnostics with slot and lease, clean stop, panic, crash, restart,
  ExecStopPost; and an environment of firmware, other programs, dying chips,
  sleep, full disks, expiring leases and deadmans.

### The OpenFan board

* **`FanController`** – the controller, the transport slot, the board, and the
  two cache fields they share with the poll loop: the write generation and the
  published duties. A `set_pwm` is two steps, observing the generation and the
  exchange; a reconnect or resume fits in between, since it takes neither lock.
  An invalidation is two steps too, as in the code: the generation moves, and
  the published duties are cleared under another guard after it.
* **`OpenFan`** – all writers and all that moves the board under them: the
  back-end's task, leg by leg and channel by channel; a calibration; a firmware
  update's parking, loan and two restarts; the exit floor; the poll loop; the
  resume.

Abstractions here. One control per channel, so a skipped control's channel is
always *held*. A stop clock that runs counts as expired, the case that matters.
The exchange and the bookkeeping after it are one step: the bookkeeping touches
only what the controller's lock protects, except the publication, which the
code itself guards with the generation. The calibration has no pump role, and
its claim does not lapse; any other holder of the verify slot is a calibration
that never writes. Here an update always reaches the bootloader once the port
is lent: this module is about the duties it disturbs. What an update does to
the board and its own record is the next group.

### A firmware update

* **`MaintenanceClaim`** – the claim in the cache: who has the controller,
  whether the engine may write it, and the link the poll loop reports. Each
  operation is one decision under the cache's guard.
* **`PortLoan`** – the poll loop as the owner of the port slot, and the loan:
  request, answer, refusal, the borrower's wait that runs out while the answer
  is under way, return, a loan dropped by a panic.
* **`FirmwareUpdate`** – both kinds of run (of a board that answers, of a silent
  one) stage by stage: park, borrow, ask for the bootloader, write sector by
  sector or leave it to the user's copy, bounded returns to the bootloader,
  restore, endings. Around it the poll loop, rescans, the engine's writes, the
  cancel window, panics, a stop or a crash of the daemon and its next start, and
  a board that restarts by itself.
* **`Custody`** – the abstract specification: one board, who has it, what a
  restart would find on disk, whether the flash is as the run found it. A run
  takes the board from the engine or from a recovery; asks it to leave only
  once the disk says *recovery*; the flash changes only while that is so; the
  board goes back as it was taken only if its flash is as it was found, and
  otherwise needs recovery until it answers, across restarts, unless it is no
  longer there. `FirmwareUpdate` instantiates it with a refinement mapping
  (`Board == INSTANCE Custody WITH …`) and `KeepsCustody` is its specification.
  One freedom is deliberate: a restart forgets a recovery that a later run
  replaced and left unchanged, as the daemon's documentation says.

Abstractions here. Every wait has a limit in the code, and a limit may run out
at any moment. Record and journal change in one step; a journal that cannot be
written is left out (the code logs it and goes on). Rescans by the user, by the
post-boot loop and by the recovery watch are one operation. The user boots the
board by hand and copies a file only when the daemon asks for it, or has left
the board for it. Flash `old` means as the run found it. `CancelStops` is about
boards that answered at the start: a run for a silent board goes on, as the
code says, when its bootloader appears together with the cancel.

### Manual control and profiles

* **`OverrideTable`** – the table under its lock: tokens, deadmans on the
  daemon's own clock, identify holds. Three fields are history.
* **`ProfileStore`** – stored documents, the active one, the epoch, the choice
  saved after the swap, and what a boot loads.
* **`ManualControl`** – composes both with the maintenance claim, the header
  roles, the clients and the engine tick, which takes the override table, lets
  it go, and then takes the active profile.

A handler that holds a lock over several changes makes them in one step, one
that takes locks in turn takes a step for each. The pinned duty is left out
except for the difference an identify makes, stop or perturb.

### GPU fans

* **`PmfwHandBack`** – the cards' curves, the list of cards written, its record.
* **`GpuBackend`** – one tick's commands and give-backs, the write lock waited
  for only so long, the detachable task, the failure cache, the stall verdict.
* **`GpuFans`** – everything that writes a card: the back-end, reset, verify,
  the lock-free stop, the panic hook, crash and ExecStopPost.

Clamping to the card's range, the zero-RPM file and cards with only a `pwm1`
are left out. A failed write leaves the curve alone, since points take effect
with the commit that ends a write. Another tool writes only a card that is on
auto and that no profile names. One verify at a time, as the slot has it. A
reset's promise ends with an activation or verify after it was claimed; a task
the stop forces to be late is excepted from the verdict's `SlowIsNotWedged`.

### Watchdog and pump

* **`Watchdog`** – pings, the disarm sent and sent again, the widening on the
  sleep hook's signals and its fallback, against systemd's own timer and a
  system that freezes. Time is in units of the watchdog; a healthy engine ticks
  in each unit it is not frozen in. A unit without a watchdog, READY and
  EXTEND_TIMEOUT are left out.
* **`PumpStall`** – the stall watch of each pump inside the tick that feeds it,
  with stale tachs, skipped controls, pauses, role changes and activations. A
  forced tick is one whose duty is 100 %.

The `MC…` modules only give constants values. A component's theorems are in the
module named after it with `Proofs` at the end (section 6): `ThermalLadder`,
`HwmonWrites`, `OpenFan`, `FirmwareUpdate`, `ManualControl`, `GpuFans`,
`Watchdog` and `PumpStall` each have one.

## 3. What is next

All safety properties the runs check are theorems, some of them under
hypotheses on the environment (section 6). What a theorem could still add:
`NoProbeWhileRunHolds` of `FirmwareUpdate`, and `NotHoldingEarned` of headers
whose exit minimum is latched, which needs a bound on the coarseness of the chip.
Modelling left: the stores the longer diagnostics write without one lock
(`hwmon_ctl.rs:1473` clones, writes and merges a baseline), and how old a reading
harvested late really is (`polling.rs:58` stamps it when it is harvested).

## 4. Runs

| Run | Instance | Checks |
|---|---|---|
| `ladder_rungs` | a CPU sensor whose chip raises the trigger and a coolant sensor; values below, at and above each threshold | `LatchedForcesFullSpeed`, `EmergencyEndsOnlyCool`, `NoFloorOverHotOrFresh` |
| `ladder_feed` | a CPU sensor beside a board sensor, with an absurd CPU value; fairness | `CacheFollowsSensors` |
| `hwmon_stop` | one mode header found in any mode; takes, reclaims, full disk, dead chip, stop, panic, crash, restart | `WriteAhead`, `GivenBackAtStop`, `LeftAsFound` |
| `hwmon_verify` | two diagnostics, deadman, expiry and force | `DiagnosticsKeptApart` |
| `hwmon_nomode` | one header without a mode switch, a diagnostic that may be dropped; fairness | `FloorSurvives`, `NoModeLetGo` |
| `hwmon_settle` | a chip that stores sixteen steps; firmware, another program, resume, dead chip, force, a diagnostic; fairness | `SettlesOrIsReported`, `ForceHolds` |
| `openfan` | two channels, one commanded to stop; every event of section 2; fairness | `BooksAreTrue`, `ExitFloorHolds`, `CommandsReach`, `HeldPutBack`, `TakenIsGivenBack` |
| `firmware` | two runs of either kind, one channel, two sectors, two returns to the bootloader, one event; fairness | `ParkedIsKept`, `CancelStops`, `ExactIsExact`, `KeepsCustody`, `LoanNotWasted`, `RunEnds` |
| `control` | two profiles and a preset, two clients, two boots, one update | `OverridesOfThisActivation`, `NoStopOnPump`, `UpdateOwnsItsChannels`, `SavedIsActive`, `FencedInBoot` |
| `gpu` | one card, three events; fairness | `CurveIsListed`, `StoppedIsAuto`, `ResetIsDurable`, `TestHolds`, `CardSettles`, `StallVerdictIsRight` |
| `watchdog` | a watchdog of 2 units, widened to 4, a freeze of up to 3, five events; fairness | `NotKilled`, `DisarmLasts`, `LostIsSentAgain` |
| `pump` | one pump, windows of 3 ticks, curve duties 30, 60 and 100, eight events; fairness | `StallIsSeen`, `ResponseLasts`, `ResponseFollowsPump` |

Some properties name one question and have parts that are defined, and may be
checked, by themselves: `CacheFollowsSensors` (`CacheHoldsOnlyLiveSensors`,
`GoneSensorLeaves`), `DiagnosticsKeptApart` (`TestDutyUndisturbed`,
`OneDiagnostic`), `NoModeLetGo` (`NoModeReleased`, `ReleasedAtFloor`),
`SettlesOrIsReported` (`DutySettles`, `NotHoldingEarned`), `BooksAreTrue`
(`BelievedIsTrue`, `ShownIsCurrent`, `StopClockMeansStopped`), `ExitFloorHolds`
(`ReleasedAtExitDuty`, `ExitFloorSurvives`), `CardSettles` (`CardFollows`,
`UnnamedGoesBack`), `StallVerdictIsRight` (`WedgeIsReported`,
`SlowIsNotWedged`), `LostIsSentAgain` (`NarrowedAgain`, `HealthyIsReset`,
`DisarmIsResent`), `ResponseFollowsPump` (`DeadPumpIsDriven`, `RecoveredIsReleased`).

Every property of these runs has a mutant: a plausible slip in one mapped
definition that makes TLC find the property violated.

**Further instances**, with a cfg here but run by hand:
`firmware_two_events` (two events instead of one, the types, and
`NoProbeWhileRunHolds`) and `hwmon_shared` (two channels of one shared report,
`PrimedWithWrite`) pass; the ones of section 5 end in a counterexample. The
`hwmon_…` instances take headers of a plain driver; `hwmon_stop`, `hwmon_verify`
and `hwmon_settle` also pass with `Driver <- Kraken` and `Driver <- Dell`, and
the theorems hold for any mixture.

**Bounds.** `EnvBudget` and `MaxEvents` bound how often the world interferes:
commands changing, hardware failing, users acting. Between these events the
daemon runs on without bound. Two or three events are enough for each hazard as
it is listed: what has to go wrong, the event that races it, and one more that
undoes or repeats it. In `OpenFan` a firmware update and a stop count twice and
the end of an emergency is free, so that an emergency, its end and two
disturbances fit in one behaviour. In `FirmwareUpdate` waits that run out,
refusals, cancels and what the user does when asked cost nothing; only stops,
crashes, panics, hangs, unasked restarts and rescans do, and the second run
starts from whatever state the first left. `Watchdog` and `PumpStall`
have more events, since losing a message or stopping a pump is only the
beginning of a case. Sizes are one or two headers, channels or cards, because
the code treats each by itself except where siblings are primed (`hwmon_shared`
has two) and where a task walks several channels while the pause, the
generation or the port changes half-way (`openfan` has two). Windows,
thresholds and streaks are at the smallest value that still has a "before", an
"at" and an "after". Ages saturate; the write generation grows only with the
events. In `ManualControl` takes, activations and boots are capped: two takes
give a token and the one that replaces it, two boots the restart between them.
`MaxStored` 1 puts the profile store at its limit. The two clients are
symmetric; no liveness is checked where symmetry is used. `openfan`, `firmware`,
`gpu` and `watchdog` do not check deadlock: a stopped daemon stops.

**Fairness**, and why the code grants it. No environment event is ever fair.

* *The poll loop ticks and a read that can return does; discovery does not fail
  for ever* (`ThermalLadder`). The loop is a timer; the strong fairness is on
  harvesting, which a transient failure may postpone but not for ever.
* *The engine keeps ticking, calls under the controller's lock return, a
  diagnostic that has begun goes on* (`HwmonWrites`). The engine is a timer; a
  sysfs write returns or fails; a handler's task is only dropped at its own
  cancellation, which is an explicit event.
* *The engine and its task, the serial exchange, a calibration, the poll loop
  and an update each go on* (`OpenFan`). An exchange has a timeout, after which
  it has failed; the reconnect search retries for ever, and finding the board
  eventually is the one thing assumed of the world. Failing exchanges and dying
  ports are events, not fair steps.
* *The run's task, its launch, an engine write that holds the controller, and
  the poll loop's part in a loan each go on* (`FirmwareUpdate`). Every wait of a
  run has a limit and the loop is a timer.
* *The engine, its write task, cooldowns, a reset, a verify and the end of a
  pause go on* (`GpuFans`): timers and tasks. A verify's attempt to get the
  write lock has strong fairness: it waits in the lock's queue for a bounded
  time while the engine takes and frees the lock. A task on a wedged card has no
  step to take, so nothing is assumed of wedged hardware.
* *The engine ticks, the two sleep tasks and the hook run, the sleep happens,
  time passes* (`Watchdog`). A wedged engine is an event that disables its tick.
* *The engine ticks and a pause ends* (`PumpStall`). A pause has a deadman.

## 5. What disagrees with the code's own words

Each of these cfgs states one sentence of the code as a property, and TLC finds
a behaviour of the model that violates it.

* `ladder_protected` (`UnreadableChipKeepsReading`) – `polling.rs` promises that
  a chip whose metadata cannot be read keeps its readings "until a pass reads
  them again". The protection is computed from the previous pass's descriptors,
  so a second unreadable pass protects nothing and the readings are evicted.
* `hwmon_retry` (`FailedStaysRecorded`) – a header the shutdown hand-back failed
  to give back is "deliberately NOT struck from the record", so that
  ExecStopPost retries it. The engine's own give-back of the same header, which
  does not look at the shutdown flag, strikes it in the meantime.
* `hwmon_superseded` (`NoneLeftAtTest`) – a superseded verify leaves the header
  "for the new owner or the next engine tick to correct". For a header without a
  mode switch that no profile names, neither does.
* `openfan_recorded` (`NoTestDutyRecorded`) – `record_pre_emergency` records
  every duty as unknown while a calibration holds the pause, lest its step be
  given back after the emergency. But the emergency is published before the
  forced task runs; the calibration may see it, abort without a restore and drop
  the pause first, and its step is recorded after all.
* `control_tokens` (`Fenced`) – `control_override.rs` calls a token "strictly
  increasing, never reused". It starts over with the daemon, so a client that
  kept its token across a restart can renew or release another client's
  override. Within one boot the sentence holds (`FencedInBoot`).
* `control_release` (`Reanchors`) – `profile_engine/mod.rs` says a control's
  state is dropped "when a manual override clears (release or expiry)". Only the
  sweep of expired overrides drops it; a release does not.
* `gpu_panic` (`PanicIsOldBatch`) – `backends.rs` attributes a panic to "the
  batch that was actually OUTSTANDING", but a tick that gave up waiting is
  followed by one that overwrites the batch before the panic is harvested.

Three more are of words only. `profile.rs` says the swap and its resets are
"observed atomically by the engine tick"; the tick takes its override snapshot
before it reads the profile, so for one tick it may hold the overrides of the
activation before (`StaleAtMostOneTick` shows it is never more). The table in
`pump_stall.rs` lets `held` be left by "a profile change or a restart — nothing
else", but a header that stops being watched is released as well, which is what
`ResponseLasts` states. And `api/handlers/profile.rs:332-333` says that after a
deactivation the engine hands back the hwmon headers it took, "not a GPU
(`DC-cr`)"; since DEC-448 it hands back the cards no profile names as well
(`backends.rs:2037-2055`), which is what `UnnamedGoesBack` shows.

## 6. Theorems

`ThermalLadderProofs`, for every set of sensors, values, thresholds and limits:

* `TypeCorrect`: `Spec => []TypeOK`.
* `LatchedAlwaysForces`: `Spec => []LatchedForcesFullSpeed`, inductive together
  with `LadderInv`: the types, that a failure streak past its threshold is one
  of a quarantined sensor (else the streak is not bounded), and that a cached
  reading is a value its sensor can report (else the rules compare anything).
* `OnlyCoolEndsEmergency`: the action property, from the same invariant and two
  lemmas: a latch falls only on a reading at or below release
  (`LatchMoves`), and that reading is the hottest fresh one of its kind
  (`HottestReading`, `HottestIsMax`).
* `FloorOnlyWhenBlind`: the tick that forces the no-sensor floor has no fresh CPU
  reading and none at or above release. `BlindReading` is the step: a stale
  hottest reading bounds every cached one.
* `CacheIsLive`: the safety half of `CacheFollowsSensors`, inductive by itself.

`HwmonWritesProofs`, for every set of headers, drivers, diagnostics, commands
and budgets:

* `HwmonTypeCorrect`: the type invariant needs to know that the call in flight
  is on a header of the kind it works on (`CallerInv`).
* `LedgerWrittenAhead` and `EverythingGivenBack`, from one invariant
  `LedgerInv`. What is hard is the lock-free shutdown hand-back: it may run
  between the steps of a `set_pwm`. So the invariant says that a write state in
  manual mode, and every call past `note_take`, is about a header the ledger
  holds, while a call about to strike a header off no longer drives it
  (`HeldInv`); that the record agrees unless its last write failed
  (`WriteAhead`); that once the process has ended no call is left and whatever
  ExecStopPost has not reached is on the record (`EndedInv`); and
  `GivenBackAtStop` itself.
* `FloorOutlasts` and `FloorKept`, from `FloorInv`: once a minimum is latched,
  a call in flight carries at least it, the controller's record of the last
  write is at least it, and a header the floor has still to do is one whose exit
  duty will be. `FloorOutlasts` is about the daemon's own writes and has no
  hypothesis; `FloorKept` is about the register, and supposes `Undisturbed`.
* `NothingLeftDriven`, from `LedgerInv` with `SoundInv` and `SettledInv`: what the
  ledger and the record keep of a header is no manual duty but full speed or the
  one it was found at, and a header nothing is noted of is under firmware, at
  full speed, at that duty, or one whose hand-back failed. It supposes `Unmoved`.
* `OneDiagnosticAtATime` and `TestsKeptApart`. The slot is one run's by
  `SlotInv` alone. That a test keeps its duty goes through the lease: a
  diagnostic that works has an id that neither the engine's task nor another
  diagnostic has (`HolderInv`); while it tests, the call in flight is its own,
  and from then on, while its id is the lease's, no call is in flight but the
  exit floor's and the header holds its duty (`TestInv`). It supposes
  `Undisturbed`.
* `ReportedForAReason` and `NotHoldingIsEarned`, from `DriftInv`: each correction
  counted is paid for by an event of the environment, and a header that is not
  where the controller last read it back has been moved by one more. The
  exceptions are a correction or give-back in flight and a stop, which writes
  behind the controller.
* `ReleasesReachFloor`: `ReleasedAtFloor`, the action half of `NoModeLetGo`, from
  `KnownInv` (a header the controller drives stands at the duty it remembers,
  unless a write is in flight or a resume is not yet noticed, so that a release
  that is coalesced is coalesced against the truth) and `LetGoInv` (a release
  that succeeded has left at least the floor).

Hypotheses of these theorems, each a formula over the constants:

* `Undisturbed`, no other program writes the headers and no sleep clears a chip,
  and `Unmoved`, no other program does. Without them the register moves by a
  hand that is not the daemon's, and the property is about the register. The
  runs of `LeftAsFound`, `FloorSurvives` and `DiagnosticsKeptApart` have no such
  events, for the same reason.
* `ZeroIsZero`: a chip that sends every channel in each report stores no duty but
  zero as zero. Otherwise a sibling commanded a small duty reads zero and is
  primed against its own command; the proof of `DriftInv` found this.
* `ExitFloor > 0` for `ReleasesReachFloor`: without a floor nothing is raised,
  and a header may be released where it happens to stand.
* `exitMin[h] = NoDuty` in `ReportedForAReason`, and in `NotHoldingIsEarned` no
  floor or no header without a mode switch. The exit floor's write is not read
  back (`held_pct` is `None` after it), so on a coarse chip a late command equal
  to the floor's duty is counted as a drift that no event caused. The daemon is
  about to stop then; the proof attempt showed that it is the only exception.

`OpenFanProofs`, for every number of channels and every set of profiles, test
duties and events:

* `TypesHold`. `TypeInv` adds what `TypeOK` leaves out: a queued command has a
  duty, a generation noted is one that has been, and while the exit floor runs
  every minimum is latched. Without these a missing duty could reach `set_pwm`.
* `StopClocksHold` and `ShownHolds`, inductive with the types alone. Both go
  through `Knowledge`: whatever an actor does, the controller either keeps what
  it knows, observes the generation, ends an exchange, or sees an invalidation
  begin or end.
* `BeliefHolds`, from `BeliefInv`: where the port is in each state of the poll
  loop (`PortInv`), how a loan and an update go together (`LoanInv`), and that
  nothing is believed by the time a port is put back in the slot
  (`ForgottenInv`): a reconnect invalidates before it installs the port, and a
  lent port comes back after the update's own invalidation.
* `BooksHold`: `Spec => []BooksAreTrue`, the three together.
* `NoneBelowExitFloor`: `Spec => ExitFloorHolds`, from `FloorInv`: a call of the
  engine's is for a channel its task still has to do (`CallInv`), one that
  succeeded left the duty it carried (`LandedInv`), what a release carries is at
  least the floor (`ReleaseInv`), and once the minima are latched so is
  everything (`MinimaInv`). Without `CallInv` a call that returns late could be
  taken for the release of another channel.

`FirmwareUpdateProofs`, for every set of runs, channels, kinds of board, sectors
and returns, and every bound on the events:

* `FirmwareTypes`, with `SectorInv`.
* `ParkedStaysParked`, `CancelHolds`, `ExactIsTheDaemons`, `LoansComeBack` and
  `CustodyImplemented`, from one invariant `UpdateInv`. Its parts tie everything
  to the place the run's task is at: who has the claim (`ClaimInv`); what has
  been asked and heard (`TaskInv`); which places a board that answers and a
  silent one pass through (`PlaceInv`); what may be on the flash (`BoardInv`,
  `FlashInv`); how a run may end given what it asked and heard (`EndInv`); what
  the record says and that the journal says the same (`RecordInv`); when the
  window to cancel is closed (`CancelInv`); whose writes may still be on their
  way (`ParkInv`); and what a verified end means (`ExactInv`).
* The refinement. Each step of a run up to its end is a *turn* that asks the
  board, hears it, writes it or does none of these, and is a `Note`, `Ask`,
  `Answered` or `Change` of `Custody`; the end is `FoundUnchanged` or `Doubt`;
  the release and the unwinding of a panic are `Return`, `Leave` or `Resume`; a
  launch is `Take`; a death and a start of the daemon are `Die` and `Restart`;
  and a step around the run is a stutter or `Recover`. The mapping's unchanged
  parts need `RecordInv`: `Custody`'s disk is what the *next* start would read,
  so it may not move when the record does without the journal.

`ManualControlProofs`, for every set of profiles, controls, fans and clients and
every bound (`NoFanAssumption`: `NoFan` is not a fan):

* `ControlTypes`, `NoneCarriedOver`, `PumpsRun`, `UpdateAlone`,
  `RestartResumes`, `TokensFence` and `StaleForOneTick`, from `ControlInv`.
  Beside the types and the properties it says that what is on its way to the disk
  is the choice in force, whose file exists (`StoreInv`); that a token was
  issued in this boot, once, to the client its override says (`TokenInv`); that
  an update which has read the table has read every override there still is on
  its channels (`UpdateInv`), which is why its claim must come first; and that a
  tick between its two locks pins nothing older than the last tick's activation
  (`TickInv`).

`GpuFansProofs`, for every set of cards and duties and any events
(`DutiesAssumption`: duties are percentages):

* `GpuTypes`, `DrivenIsListed`, `NamedBeforeWritten`, `StopHandsBack`,
  `ResetLasts`, `TestReadsItsOwn` and `OthersLeftAlone`, from `GpuInv`: who has
  the write lock (`LockInv`); what the detached task carries (`TaskInv`); that
  the list is what was driven and the record the list, and both ahead of every
  write (`ListInv`); where a stop and ExecStopPost have got to (`RestoreInv`,
  `ReplayInv`); and that a card whose reset was answered is in nobody's hands
  (`PromiseInv`).
* A record whose last write failed still names cards already given back, so
  ExecStopPost may reset one of them after another tool took it. `undone` takes
  this in, and `OthersLeftAlone` names it as the exception it is.

`WatchdogProofs`, for every watchdog, every freeze and every widening longer
than it:

* `WatchdogTypes`, with the queue of transitions and that a sent request to
  forget the restarts is counted once (`AskedOnce`).
* `DisarmHolds` and `NeverKilled`, from `LifeInv`: a stop that lost nothing has
  disarmed the watchdog and a disarmed one belongs to a stop (`DisarmInv`); a
  tick of this unit left a full turn (`TickInv`); and where the hook's request
  is (`HookInv`): pending, or in the queue behind the resumes of earlier sleeps,
  or answered with the watchdog wide and nothing behind it that could narrow
  it. Without the order of the queue a late resume could narrow the watchdog
  between the answer and the freeze.
* `LostDisarmIsResent`, the action half of `LostIsSentAgain`: each later step of
  a stop ends with systemd told, or with one more attempt lost.

`PumpStallProofs`, for every set of pumps, windows and curve duties:

* `PumpTypes`.
* `StallSeen`, from `WindowInv`: a window that runs is no longer than what the
  engine has seen of the pump at rest. The two differ: a hold released by an
  activation starts a new window in a rest that goes on.
* `ResponseStays`, from the types and one lemma on what a tick does to a header
  in each phase (`TickMoves`).

All rest only on the named `ASSUME`s of the modules, which TLC evaluates on
every run.

**Only model-checked.** All liveness, since the prover has no rules for
fairness and `ENABLED`: `GoneSensorLeaves` (of `CacheFollowsSensors`),
`NoModeReleased` (of `NoModeLetGo`), `DutySettles` (of `SettlesOrIsReported`),
`ForceHolds`, `CommandsReach`, `HeldPutBack`, `TakenIsGivenBack`, `RunEnds`,
`CardSettles`, `StallVerdictIsRight`, `NarrowedAgain` and `HealthyIsReset` (of
`LostIsSentAgain`), `ResponseFollowsPump`.
And `NoProbeWhileRunHolds` and `PrimedWithWrite`, of the further instances. Every
run's own instance satisfies the hypotheses above; beyond them the properties
they belong to are neither proved nor checked.

## 7. Not modelled, and why

* *Walks of sysfs, chip tables, byte formats* (serial framing, PICOBOOT, UF2),
  HTTP routing and serialisation, response types, logging, history and health
  views, the tray: pure I/O, data or views, with no state machine of their own.
  They, with the tests kept inline in the source files, are most of the
  repository's lines; the modules stand for the part that decides and remembers.
* *Log suppression* (`note_outcomes`) only decides what is printed.
* *Curve evaluation, tuning, slew*: floating-point functions of one control's
  own past. Over integers they would be another algorithm.
* *Validation sessions*: a recorder that reads what others publish and changes
  none of it.
* *Runtime configuration*: the settings that matter live are inputs elsewhere
  (the coolant limit in `ThermalLadder`, header roles in `ManualControl`); its
  file is read, changed and written under one lock.
* *The other diagnostics* (characterisation, discovery, probe) take the slot,
  lease and pause that `HwmonWrites` and `OpenFan` model; their walks and stores
  are left out. So is the race of two baselines being persisted.
* *A reading harvested late* keeps, in `SensorFeed` as in the code, the time it
  is harvested at; how long before that the value was read from the chip is not
  modelled, and no property bounds it.
* *The order of the back-ends within one tick*: each back-end has its own model
  of the tick that drives it.
