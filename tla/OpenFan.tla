------------------------------- MODULE OpenFan -------------------------------
(***************************************************************************)
(* Everything that writes the OpenFan board: the engine's back-end         *)
(* (profile_engine/backends.rs, `OpenFanBackend`) with its commands, its   *)
(* forced writes, the duties it puts back after a loss and the channels it *)
(* releases; an OpenFan calibration; a firmware update's parking and loan  *)
(* of the port; the exit floor of a stop.  And what moves the board under  *)
(* them: the poll loop that loses and re-adopts the port, a host resume.   *)
(***************************************************************************)
EXTENDS FanController, FiniteSetsExt

CONSTANTS
    Profiles,      \* what the user may activate: the duty commanded per channel
    Persisted,     \* the profiles the daemon may find active when it starts
    Skippable,     \* the channels whose control may lose its sensor
    NoSensorPct,   \* the duty of the no-sensor floor
    TestDuties,    \* the duties a calibration walks
    MaxEvents      \* bound on what users, the machine and the cable do: a
                   \* firmware update and a stop count twice, the end of
                   \* an emergency not at all

ASSUME OpenFanAssumption ==
    /\ Profiles \subseteq [Channels -> Duty \cup {NoDuty}] /\ Persisted \subseteq Profiles
    /\ Skippable \subseteq Channels
    /\ NoSensorPct \in 1..99 /\ TestDuties \subseteq Duty
    /\ MaxEvents \in Nat

VARIABLES
    profile,     \* the active profile, as the duty it commands per channel
    skipped,     \* members of the controls the engine skips this tick
    rung,        \* the safety decision in force, as published for the others
    task,        \* the back-end's one blocking write task (BoundedWrite)
    engineHeld,  \* OpenFanBackend::held
    snapshot,    \* OpenFanBackend::pre_emergency
    lost,        \* OpenFanBackend::lost_duties
    cal,         \* the calibration, which holds the engine's write pause
    update,      \* the firmware update, StateCache::openfan_maintenance
    link,        \* where the poll loop is with the port
    asleep,      \* the host slept and the resume is not detected yet
    stop,        \* shutdown: its stage, and the channels left to floor
    events

engineVars == <<profile, skipped, rung, task, engineHeld, snapshot, lost>>
othersVars == <<cal, update, link, asleep, stop>>
vars == <<fanVars, engineVars, othersVars, events>>

Events(n) == events + n <= MaxEvents /\ events' = events + n
Event == Events(1)

NoCall == UNCHANGED fanVars

Members == {c \in Channels : profile[c] # NoDuty}
Held == skipped               \* HeldMembers; a channel has one control here
Commanded == Members \ skipped

NoTask == [kind |-> "none", step |-> "none", todo |-> {}, put |-> {}, gives |-> FALSE,
           duties |-> [c \in Channels |-> NoDuty], members |-> {}, held |-> {}, at |-> 0]
NoSnapshot == [taken |-> FALSE, duties |-> [c \in Channels |-> NoDuty]]
NoCal == [step |-> "off", ch |-> 0, pct |-> 0, back |-> 0, touched |-> FALSE]
NoUpdate == [step |-> "none", todo |-> {}]

verify_active == cal.step # "off"
openfan_writes_suspended ==
    update.step \in {"parking", "lent", "boot", "offered", "recovery"}
openfan_writes_paused == verify_active \/ openfan_writes_suspended

----------------------------------------------------------------------------
(* The engine.  A tick decides the rung and publishes it before anything   *)
(* is written, and starts a task only when the last one has returned.      *)

Decide(r) ==
    /\ stop.stage = "run" /\ rung # r
    /\ IF rung = "emergency" /\ r = "normal" THEN UNCHANGED events ELSE Event
    /\ rung' = r
    /\ NoCall /\ UNCHANGED <<profile, skipped, task, engineHeld, snapshot, lost>>
    /\ UNCHANGED <<cal, update, link, asleep, stop>>

(* A profile is activated or deactivated; its sensors come and go. *)
Activate(p) ==
    /\ stop.stage = "run" /\ profile # p /\ Event
    /\ profile' = p /\ skipped' = {}
    /\ NoCall /\ UNCHANGED <<rung, task, engineHeld, snapshot, lost>>
    /\ UNCHANGED <<cal, update, link, asleep, stop>>

Skip(s) ==
    /\ stop.stage = "run" /\ s \subseteq Members /\ skipped # s /\ Event
    /\ skipped' = s
    /\ NoCall /\ UNCHANGED <<profile, rung, task, engineHeld, snapshot, lost>>
    /\ UNCHANGED <<cal, update, link, asleep, stop>>

(* Mutant of StillLost: a mask from an earlier generation is believed. *)
StillLostForever == IF lost.known THEN lost.mask ELSE Channels

(* The channels that may hold a lost duty: those the last task that looked *)
(* found, if no invalidation came since.                                   *)
StillLost == IF lost.known /\ lost.at = generation THEN lost.mask ELSE Channels

(* apply_and_give_back, up to its task. *)
StartApply ==
    LET put   == Held \cap StillLost
        gives == engineHeld \ Members # {} \/ snapshot.taken
    IN  /\ stop.stage = "run" /\ task = NoTask /\ rung = "normal" /\ ~verify_active
        /\ Commanded # {} \/ put # {} \/ gives
        /\ task' = [kind |-> "apply", step |-> "write", todo |-> Commanded, put |-> put,
                    gives |-> gives, duties |-> profile, members |-> Members,
                    held |-> {}, at |-> 0]
        /\ engineHeld' = engineHeld \cup Commanded
        /\ NoCall /\ UNCHANGED <<profile, skipped, rung, snapshot, lost, events>>
        /\ UNCHANGED <<cal, update, link, asleep, stop>>

(* force_all_with_floor, up to its task: 100 % reaches every channel, less *)
(* than that the profile's only, and only an ended emergency gives back.   *)
StartForce ==
    LET everything == rung = "emergency"
    IN  /\ stop.stage = "run" /\ task = NoTask /\ rung # "normal"
        /\ task' = [kind |-> rung, step |-> IF everything THEN "record" ELSE "write",
                    todo |-> IF everything THEN Channels ELSE Members,
                    put |-> {}, gives |-> ~everything,
                    duties |-> [c \in Channels |->
                                  IF c \in Commanded THEN profile[c] ELSE NoDuty],
                    members |-> Members, held |-> IF everything THEN {} ELSE Held,
                    at |-> 0]
        /\ engineHeld' = IF everything THEN engineHeld ELSE engineHeld \cup Members
        /\ NoCall /\ UNCHANGED <<profile, skipped, rung, snapshot, lost, events>>
        /\ UNCHANGED <<cal, update, link, asleep, stop>>

----------------------------------------------------------------------------
(* The write task, one channel at a time, taking the lock for each. *)

TaskLeaves == UNCHANGED <<profile, skipped, rung, cal, update, link, asleep, stop, events>>

Free == op = Idle /\ stop.stage # "flooring"     \* the controller's lock is free

(* record_pre_emergency: once per emergency, before its first write.  The  *)
(* pause is read before the lock is taken.                                 *)
RecordPreEmergency ==
    /\ \/ /\ task.step = "record" /\ snapshot.taken
          /\ task' = [task EXCEPT !.step = "write"] /\ UNCHANGED snapshot
       \/ /\ task.step = "record" /\ ~snapshot.taken /\ openfan_writes_paused
          /\ task' = [task EXCEPT !.step = "write"]
          /\ snapshot' = [NoSnapshot EXCEPT !.taken = TRUE]
       \/ /\ task.step = "record" /\ ~snapshot.taken /\ ~openfan_writes_paused
          /\ task' = [task EXCEPT !.step = "read"] /\ UNCHANGED snapshot
       \/ /\ task.step = "read" /\ Free
          /\ task' = [task EXCEPT !.step = "write"]
          /\ snapshot' = [taken |-> TRUE, duties |-> [c \in Channels |-> last_known_duty(c)]]
    /\ NoCall /\ TaskLeaves /\ UNCHANGED <<engineHeld, lost>>

(* What a force writes: at least the rung's duty, this tick's command, and *)
(* for a skipped control's channel the duty it holds.                      *)
ForcedDuty(c) ==
    IF task.kind = "emergency" THEN 100
    ELSE Max({NoSensorPct, task.duties[c]}
             \cup (IF c \in task.held THEN {last_known_duty(c)} ELSE {}))

(* A command or a forced write.  A pause skips a command, and only a       *)
(* suspension stops a force.                                               *)
WriteNext ==
    LET c == Min(task.todo)
        blocked == IF task.kind = "apply" THEN openfan_writes_paused
                   ELSE openfan_writes_suspended
    IN  /\ task.step = "write" /\ task.todo # {} /\ Free
        /\ IF blocked
           THEN /\ task' = [task EXCEPT !.todo =
                              IF task.kind = "apply" THEN @ \ {c} ELSE {}]
                /\ UNCHANGED fanVars
           ELSE /\ set_pwm("engine", c, IF task.kind = "apply" THEN task.duties[c]
                                        ELSE ForcedDuty(c))
                /\ UNCHANGED task
        /\ TaskLeaves /\ UNCHANGED <<engineHeld, snapshot, lost>>

(* The skipped controls' channels are put back at the duty they lost. *)
PutBackNext ==
    LET c == Min(task.todo)
    IN  /\ task.step = "put" /\ task.todo # {} /\ Free
        /\ IF openfan_writes_paused
           THEN task' = [task EXCEPT !.todo = {}] /\ UNCHANGED fanVars
           ELSE IF duty_before_loss(c) = NoDuty
           THEN task' = [task EXCEPT !.todo = @ \ {c}] /\ UNCHANGED fanVars
           ELSE set_pwm("engine", c, duty_before_loss(c)) /\ UNCHANGED task
        /\ TaskLeaves /\ UNCHANGED <<engineHeld, snapshot, lost>>

(* The last legs of a task that gives back: the release, then the          *)
(* snapshot.                                                               *)
GiveBack == IF task.gives THEN [NoTask EXCEPT !.step = "release", !.members = task.members,
                                              !.todo = engineHeld \ task.members]
            ELSE NoTask

(* Which channels still hold a lost duty, and at which generation: the     *)
(* generation is read first.                                               *)
NoteLost ==
    /\ \/ /\ task.step = "at"
          /\ task' = [task EXCEPT !.step = "mask", !.at = generation]
          /\ UNCHANGED lost
       \/ /\ task.step = "mask" /\ Free
          /\ lost' = [known |-> TRUE, at |-> task.at,
                      mask |-> {c \in Channels : duty_before_loss(c) # NoDuty}]
          /\ task' = GiveBack
    /\ NoCall /\ TaskLeaves /\ UNCHANGED <<engineHeld, snapshot>>

(* release_unheld_openfan: a channel no profile names any more is left at  *)
(* its exit duty, unless the device was last told just that.               *)
release_unheld ==
    LET c  == Min(task.todo)
        to == exit_duty(last_known_duty(c), ExitFloor)
    IN  /\ task.step = "release" /\ task.todo # {} /\ Free
        /\ IF openfan_writes_paused
           THEN /\ task' = [task EXCEPT !.todo = {}]
                /\ UNCHANGED <<fanVars, engineHeld>>
           ELSE IF ExitFloor = 0 \/ to = last_commanded_pct(c)
           THEN /\ task' = [task EXCEPT !.todo = @ \ {c}]
                /\ engineHeld' = engineHeld \ {c} /\ UNCHANGED fanVars
           ELSE set_pwm("engine", c, to) /\ UNCHANGED <<task, engineHeld>>
        /\ TaskLeaves /\ UNCHANGED <<snapshot, lost>>

(* Mutant of GiveBackNext: the exit floor is not applied. *)
GiveBackNextBelowFloor ==
    LET c == Min(task.todo)
    IN  /\ task.step = "give" /\ task.todo # {} /\ Free
        /\ IF openfan_writes_paused
           THEN /\ snapshot' = [taken |-> TRUE, duties |-> task.duties]
                /\ task' = [task EXCEPT !.todo = {}]
                /\ UNCHANGED fanVars
           ELSE set_pwm("engine", c, task.duties[c]) /\ UNCHANGED <<task, snapshot>>
        /\ TaskLeaves /\ UNCHANGED <<engineHeld, lost>>

(* give_back_pre_emergency, once it has taken the snapshot.  A pause in    *)
(* between puts the whole snapshot back.                                   *)
GiveBackNext ==
    LET c == Min(task.todo)
    IN  /\ task.step = "give" /\ task.todo # {} /\ Free
        /\ IF openfan_writes_paused
           THEN /\ snapshot' = [taken |-> TRUE, duties |-> task.duties]
                /\ task' = [task EXCEPT !.todo = {}]
                /\ UNCHANGED fanVars
           ELSE /\ set_pwm("engine", c, exit_duty(task.duties[c], ExitFloor))
                /\ UNCHANGED <<task, snapshot>>
        /\ TaskLeaves /\ UNCHANGED <<engineHeld, lost>>

(* set_pwm has returned to the task. *)
EngineReturned ==
    /\ Returned("engine")
    /\ op' = Idle
    /\ task' = [task EXCEPT !.todo = @ \ {op.ch}]
    /\ engineHeld' = IF task.step = "put" THEN engineHeld \cup {op.ch}
                     ELSE IF task.step = "release" /\ op.ok THEN engineHeld \ {op.ch}
                     ELSE engineHeld
    /\ TaskLeaves /\ UNCHANGED <<deviceVars, cacheVars, seen, ctl, snapshot, lost>>

(* A leg of the task is over: the next one begins, or the task returns. *)
NextLeg ==
    LET gives == ~openfan_writes_paused /\ snapshot.taken
        back  == {c \in Channels \ task.members : snapshot.duties[c] # NoDuty}
    IN  /\ task.todo = {}
        /\ \/ /\ task.step = "write"
              /\ task' = IF task.put = {} THEN GiveBack
                         ELSE [task EXCEPT !.step = "put", !.todo = task.put]
              /\ UNCHANGED snapshot
           \/ /\ task.step = "put"
              /\ task' = [task EXCEPT !.step = "at"] /\ UNCHANGED snapshot
           \/ /\ task.step = "release" /\ gives
              /\ task' = [task EXCEPT !.step = "give", !.todo = back,
                                      !.duties = snapshot.duties]
              /\ snapshot' = NoSnapshot
           \/ /\ \/ task.step = "release" /\ ~gives
                 \/ task.step = "give"
              /\ task' = NoTask /\ UNCHANGED snapshot
        /\ NoCall /\ TaskLeaves /\ UNCHANGED <<engineHeld, lost>>

TaskStep == RecordPreEmergency \/ WriteNext \/ PutBackNext \/ NoteLost
            \/ release_unheld \/ GiveBackNext \/ EngineReturned \/ NextLeg

----------------------------------------------------------------------------
(* A calibration (api/calibration.rs).  It claims the verify slot, which   *)
(* pauses the engine's commands; every step of its walk first passes gate, *)
(* which stops it under a force; the write itself is queued and comes      *)
(* later.                                                                  *)

EngineLeaves == UNCHANGED <<profile, skipped, rung, task, engineHeld, snapshot, lost>>
CalLeaves == EngineLeaves /\ UNCHANGED <<update, link, asleep, stop>>

(* The claim is refused under a force, but the force is read before the    *)
(* slot is taken, so it may have begun in between.                         *)
CalClaims(c) ==
    /\ stop.stage = "run" /\ ~verify_active /\ Event
    /\ update.step \in {"none", "recovery"}
    /\ cal' = [NoCal EXCEPT !.step = "claimed", !.ch = c]
    /\ NoCall /\ CalLeaves

CalReadsOriginal ==
    /\ cal.step = "claimed" /\ Free
    /\ cal' = [cal EXCEPT !.step = "walk", !.back = exit_duty(last_known_duty(cal.ch), 0)]
    /\ NoCall /\ CalLeaves /\ UNCHANGED events

CalPassesGate(pct) ==
    /\ cal.step = "walk" /\ rung = "normal" /\ stop.stage = "run" /\ Event
    /\ cal' = [cal EXCEPT !.step = "step", !.pct = pct, !.touched = TRUE]
    /\ NoCall /\ CalLeaves

(* The walk is over, complete, cancelled or stopped by gate: a fan that    *)
(* may stand still is kicked first, and the duty found is restored, but    *)
(* not over a force.                                                       *)
CalEnds ==
    /\ cal.step \in {"walk", "failed"}
    /\ \/ /\ ~cal.touched \/ rung # "normal"
          /\ cal' = NoCal
       \/ /\ cal.touched /\ rung = "normal" /\ stop.stage = "run"
          /\ cal' = [cal EXCEPT !.step = "kick", !.pct = 100]
       \/ /\ cal.touched /\ rung = "normal"
          /\ \E full \in {FALSE, stop.stage # "run"} :
                cal' = [cal EXCEPT !.step = "restore", !.pct = IF full THEN 100 ELSE cal.back]
    /\ NoCall /\ CalLeaves /\ UNCHANGED events

CalRestores ==
    /\ cal.step = "kicked"
    /\ cal' = IF rung # "normal" THEN NoCal
              ELSE [cal EXCEPT !.step = "restore"]
    /\ NoCall /\ CalLeaves /\ UNCHANGED events

CalWrites ==
    /\ cal.step \in {"step", "kick", "restore"} /\ Free
    /\ set_pwm("calibration", cal.ch, cal.pct)
    /\ CalLeaves /\ UNCHANGED <<cal, events>>

CalReturned ==
    /\ Returned("calibration")
    /\ op' = Idle
    /\ cal' = CASE cal.step = "step" -> [cal EXCEPT !.step = IF op.ok THEN "walk" ELSE "failed"]
                [] cal.step = "kick" -> [cal EXCEPT !.step = "kicked",
                                                    !.pct = IF op.ok THEN cal.back ELSE 100]
                [] OTHER -> NoCal
    /\ CalLeaves /\ UNCHANGED <<deviceVars, cacheVars, seen, ctl, events>>

CalStep == CalReadsOriginal \/ CalEnds \/ CalRestores \/ CalWrites \/ CalReturned

----------------------------------------------------------------------------
(* The poll loop (polling.rs, openfan_poll_loop_with) and the port.        *)

PollLeaves == EngineLeaves /\ UNCHANGED <<cal, stop>>

(* The cable, the USB stack or the board's power: the port stops working,  *)
(* and the board may come back at its power-on duty.                       *)
PortDies ==
    /\ port = "board" /\ link = "ok" /\ Event
    /\ port' = "dead"
    /\ \/ UNCHANGED board
       \/ board' = [c \in Channels |-> PowerOn]
    /\ UNCHANGED <<cacheVars, seen, ctl, op, update, link, asleep>> /\ PollLeaves

(* RECONNECT_THRESHOLD polls in a row failed: the port is let go. *)
release_adopted_port ==
    /\ link = "ok" /\ stop.stage = "run"
    /\ \/ port = "dead" /\ UNCHANGED events
       \/ port = "board" /\ Event
    /\ port' = "none" /\ link' = "searching"
    /\ UNCHANGED <<board, cacheVars, seen, ctl, op, update, asleep>> /\ PollLeaves

(* Mutant of adopt_reconnected_transport: the duties stay believed. *)
adopt_reconnected_silently ==
    /\ link = "searching" /\ stop.stage = "run" /\ clearing = {}
    /\ link' = "adopting"
    /\ UNCHANGED <<fanVars, update, asleep, events>> /\ PollLeaves

(* A board answered and identified itself: what it was told is forgotten   *)
(* before its port is put in the slot.                                     *)
adopt_reconnected_transport ==
    /\ link = "searching" /\ stop.stage = "run" /\ "poll" \notin clearing
    /\ InvalidateBegin("poll")
    /\ link' = "adopting"
    /\ UNCHANGED <<deviceVars, seen, ctl, op, update, asleep, events>> /\ PollLeaves

(* Mutant of PollAdopts: the recovery stays pending. *)
PollAdoptsStillRecovering ==
    /\ link = "adopting" /\ "poll" \notin clearing
    /\ port' = "board" /\ link' = "ok"
    /\ UNCHANGED <<board, cacheVars, seen, ctl, op, update, asleep, events>> /\ PollLeaves

(* The slot swap after a reconnect; Connected ends a pending recovery. *)
PollAdopts ==
    /\ link = "adopting" /\ "poll" \notin clearing
    /\ port' = "board" /\ link' = "ok"
    /\ update' = IF update.step = "recovery" THEN NoUpdate ELSE update
    /\ UNCHANGED <<board, cacheVars, seen, ctl, op, asleep, events>> /\ PollLeaves

(* lend: MaintenanceTransport in the slot. *)
PollLends ==
    /\ update.step = "parking" /\ update.todo = {}
    /\ \/ /\ link = "ok" /\ port' = "lent" /\ link' = "lent"
          /\ update' = [update EXCEPT !.step = "lent"]
       \/ /\ update' = NoUpdate /\ UNCHANGED <<port, link>>      \* refused
    /\ UNCHANGED <<board, cacheVars, seen, ctl, op, asleep, events>> /\ PollLeaves

(* LoanEnd::Returned puts the port in the slot and forgets every duty      *)
(* before the loan settles; LoanEnd::Lost goes searching.                  *)
PollTakesBack ==
    /\ \/ /\ update.step = "offered" /\ link = "lent" /\ "update" \notin clearing
          /\ port' = "board" /\ link' = "taken"
          /\ UNCHANGED <<cacheVars, update>>
       \/ /\ link = "taken" /\ "poll" \notin clearing
          /\ InvalidateBegin("poll")
          /\ link' = "settling" /\ UNCHANGED <<port, update>>
       \/ /\ link = "settling" /\ "poll" \notin clearing
          /\ link' = "ok" /\ UNCHANGED <<port, cacheVars, update>>
       \/ /\ update.step = "boot" /\ link = "lent" /\ "update" \notin clearing
          /\ port' = "none" /\ link' = "searching"
          /\ update' = [update EXCEPT !.step = "recovery"]
          /\ UNCHANGED cacheVars
    /\ UNCHANGED <<board, seen, ctl, op, asleep, events>> /\ PollLeaves

(* The host sleeps, and the board may lose its power with it; the hwmon    *)
(* poll loop detects the resume later (set_resume_detected).               *)
HostSleeps ==
    /\ ~asleep /\ Event
    /\ asleep' = TRUE
    /\ \/ UNCHANGED board
       \/ board' = [c \in Channels |-> PowerOn]
    /\ UNCHANGED <<port, cacheVars, seen, ctl, op, update, link>> /\ PollLeaves

set_resume_detected ==
    /\ asleep /\ "resume" \notin clearing
    /\ InvalidateBegin("resume")
    /\ asleep' = FALSE
    /\ UNCHANGED <<deviceVars, seen, ctl, op, update, link, events>> /\ PollLeaves

InvalidationEnds(by) ==
    InvalidateEnd(by) /\ UNCHANGED <<update, link, asleep, events>> /\ PollLeaves

PollStep == release_adopted_port \/ adopt_reconnected_transport \/ PollAdopts
            \/ PollTakesBack \/ set_resume_detected
            \/ \E by \in {"poll", "resume", "update"} : InvalidationEnds(by)

----------------------------------------------------------------------------
(* A firmware update (openfan_maintenance/run.rs), as far as it reaches    *)
(* the controller: it suspends the writes, parks every channel at 100 %,   *)
(* borrows the port, resets the board into its bootloader and offers the   *)
(* port back.                                                              *)

UpdateLeaves == EngineLeaves /\ UNCHANGED <<cal, link, asleep, stop>>

suspend_openfan_writes ==
    /\ update = NoUpdate /\ link = "ok" /\ ~verify_active /\ rung # "emergency"
    /\ stop.stage = "run" /\ Events(2)
    /\ update' = [step |-> "parking", todo |-> Channels]
    /\ NoCall /\ UpdateLeaves

UpdateParks ==
    /\ update.step = "parking" /\ update.todo # {} /\ Free
    /\ set_pwm("update", Min(update.todo), 100)
    /\ UpdateLeaves /\ UNCHANGED <<update, events>>

UpdateReturned ==
    /\ Returned("update")
    /\ op' = Idle
    /\ \/ op.ok /\ update' = [update EXCEPT !.todo = @ \ {op.ch}]
       \/ update' = NoUpdate                 \* the write failed, or a cancel
    /\ UpdateLeaves /\ UNCHANGED <<deviceVars, cacheVars, seen, ctl, events>>

(* The board restarts twice, into its bootloader and out of it, and every  *)
(* duty is forgotten each time; then the writes resume.                    *)
UpdateGoesOn ==
    /\ \/ /\ update.step = "lent" /\ "update" \notin clearing
          /\ board' = [c \in Channels |-> PowerOn]
          /\ InvalidateBegin("update") /\ update' = [update EXCEPT !.step = "boot"]
       \/ /\ update.step = "boot" /\ link = "lent" /\ "update" \notin clearing
          /\ InvalidateBegin("update") /\ update' = [update EXCEPT !.step = "offered"]
          /\ UNCHANGED board
       \/ /\ update.step = "offered" /\ link = "ok"
          /\ update' = NoUpdate /\ UNCHANGED <<board, cacheVars>>
    /\ UpdateLeaves /\ UNCHANGED <<port, seen, ctl, op, events>>

UpdateStep == UpdateParks \/ UpdateReturned \/ UpdateGoesOn \/ PollLends

----------------------------------------------------------------------------
(* A stop (main.rs): the engine starts nothing more and is given two       *)
(* seconds to finish; then the exit floor takes the lock for all its       *)
(* writes, and whatever was queued behind it still runs.                   *)

StopLeaves == EngineLeaves /\ UNCHANGED <<cal, update, link, asleep, events>>

Shutdown ==
    /\ stop.stage = "run" /\ Events(2)
    /\ stop' = [stop EXCEPT !.stage = "stopping"]
    /\ NoCall /\ EngineLeaves /\ UNCHANGED <<cal, update, link, asleep>>

apply_exit_floor ==
    /\ stop.stage = "stopping" /\ Free /\ ExitFloor > 0
    /\ LatchExitFloor
    /\ stop' = [stage |-> "flooring", todo |-> {c \in Channels : ctl[c].written}]
    /\ StopLeaves

FloorNext ==
    LET c == Min(stop.todo)
    IN  /\ stop.stage = "flooring" /\ stop.todo # {} /\ op = Idle
        /\ set_pwm("stop", c, ctl[c].exitMin)
        /\ UNCHANGED stop /\ StopLeaves

FloorReturned ==
    /\ Returned("stop")
    /\ op' = Idle /\ stop' = [stop EXCEPT !.todo = @ \ {op.ch}]
    /\ StopLeaves /\ UNCHANGED <<deviceVars, cacheVars, seen, ctl>>

Floored ==
    /\ stop.stage = "flooring" /\ stop.todo = {} /\ op = Idle
    /\ stop' = [stop EXCEPT !.stage = "floored"]
    /\ NoCall /\ StopLeaves

StopStep == apply_exit_floor \/ FloorNext \/ FloorReturned \/ Floored

----------------------------------------------------------------------------
Rungs == {"normal", "floor", "emergency"}

Init ==
    /\ FanInit
    /\ profile \in Persisted /\ skipped = {} /\ rung = "normal"
    /\ task = NoTask /\ engineHeld = {} /\ snapshot = NoSnapshot
    /\ lost = [known |-> FALSE, at |-> 0, mask |-> {}]
    /\ cal = NoCal /\ update = NoUpdate /\ link = "ok" /\ asleep = FALSE
    /\ stop = [stage |-> "run", todo |-> {}] /\ events = 0

SerialStep ==
    /\ Exchange \/ (port # "board" /\ ExchangeFails(FALSE))
    /\ EngineLeaves /\ UNCHANGED <<othersVars, events>>

SerialFails ==
    /\ port = "board" /\ Event /\ \E lands \in BOOLEAN : ExchangeFails(lands)
    /\ EngineLeaves /\ UNCHANGED othersVars

Tick == StartApply \/ StartForce

Environment ==
    \/ \E r \in Rungs : Decide(r)
    \/ \E p \in Profiles : Activate(p)
    \/ \E s \in SUBSET Skippable : Skip(s)
    \/ \E c \in Channels : CalClaims(c)
    \/ \E pct \in TestDuties : CalPassesGate(pct)
    \/ SerialFails \/ PortDies \/ HostSleeps \/ suspend_openfan_writes \/ Shutdown

Next == Environment \/ Tick \/ TaskStep \/ SerialStep \/ CalStep \/ PollStep
        \/ UpdateStep \/ StopStep

Fairness ==
    /\ WF_vars(Tick \/ TaskStep) /\ WF_vars(SerialStep)
    /\ WF_vars(CalStep) /\ WF_vars(PollStep) /\ WF_vars(UpdateStep)

Spec == Init /\ [][Next]_vars /\ Fairness

----------------------------------------------------------------------------
TypeOK ==
    /\ FanTypeOK
    /\ profile \in [Channels -> Duty \cup {NoDuty}] /\ skipped \subseteq Channels
    /\ rung \in Rungs /\ engineHeld \subseteq Channels
    /\ task.step \in {"none", "record", "read", "write", "put", "at", "mask", "release", "give"}
    /\ task.todo \subseteq Channels
    /\ snapshot \in [taken : BOOLEAN, duties : [Channels -> Duty \cup {NoDuty}]]
    /\ lost.at \in 0..generation /\ lost.mask \subseteq Channels
    /\ cal.step \in {"off", "claimed", "walk", "step", "failed", "kick", "kicked", "restore"}
    /\ update.step \in {"none", "parking", "lent", "boot", "offered", "recovery"}
    /\ link \in {"ok", "searching", "adopting", "lent", "taken", "settling"}
    /\ stop.stage \in {"run", "stopping", "flooring", "floored"}

(* What the controller believes a channel was told is what the board has,  *)
(* whatever disconnects, resets, resumes and updates came in between, once *)
(* it has observed them: else a repeated command is coalesced away         *)
(* (set_pwm's early return) and the fan never gets it.                     *)
BelievedIsTrue ==
    \A c \in Channels :
        /\ last_commanded_pct(c) # NoDuty /\ port = "board" /\ ~asleep
        => board[c] = last_commanded_pct(c)

(* A duty the API shows is one the controller still stands by: no write    *)
(* that an invalidation overtook republishes the duty it cleared           *)
(* (StateCache::set_openfan_commanded_pwm).                                *)
ShownIsCurrent ==
    clearing = {} => \A c \in Channels :
        shown[c] # NoDuty => last_commanded_pct(c) = shown[c]

(* The stop clock runs exactly while the last duty is a 0 % the board      *)
(* took, so a 0 % that a loss made necessary again is never refused        *)
(* (observe_write_generation, apply_safety).                               *)
StopClockMeansStopped ==
    \A c \in Channels : ctl[c].timed <=> ctl[c].last = 0

(* The controller's books are true: what it believes of the board, what    *)
(* the API shows of it, and how long it says a fan has been stopped.       *)
BooksAreTrue == BelievedIsTrue /\ ShownIsCurrent /\ StopClockMeansStopped

(* A channel the engine lets go of was last told at least the exit floor,  *)
(* lost duties included (release_unheld_openfan).                          *)
ReleasedAtExitDuty ==
    [][\A c \in engineHeld \ engineHeld' : ExitFloor > 0 => ctl[c].last >= ExitFloor]_vars

(* Once the exit floor has run, no write that was queued behind it takes a *)
(* channel below it (exit_min).                                            *)
ExitFloorSurvives ==
    [][stop.stage = "floored" /\ op.step = "send" /\ op'.step = "done"
       => \A c \in Channels : board'[c] >= board[c] \/ board'[c] >= ExitFloor]_vars

(* The daemon leaves no channel below the exit floor: not one it lets go   *)
(* of, and none when it stops.                                             *)
ExitFloorHolds == ReleasedAtExitDuty /\ ExitFloorSurvives

(* The profile's commands reach the board, through failed exchanges,       *)
(* reconnects, resumes, updates and calibrations.                          *)
CommandsReach ==
    []<>(\/ rung # "normal" \/ stop.stage # "run"
         \/ \A c \in Commanded : board[c] = profile[c])

(* The fans of skipped controls get back the duty that a reconnect or a    *)
(* resume lost: no lost duty stays pending.                                *)
HeldPutBack ==
    []<>(stop.stage # "run" \/ \A c \in Held : duty_before_loss(c) = NoDuty)

(* What an emergency took from a channel that no profile names any more is *)
(* given back once it is over, raised to the exit floor, unless an         *)
(* exchange fails, which leaves the duty unknown: no later forced tick and *)
(* no give-back that a pause cut short replaces what was recorded.         *)
TakenIsGivenBack ==
    \A c \in Channels : \A d \in {p[c] : p \in Profiles} \ {NoDuty} :
        (/\ snapshot.taken /\ snapshot.duties[c] = d
         /\ rung # "emergency" /\ c \notin Members \cup task.members)
        ~> (\/ rung = "emergency" \/ c \in Members \/ stop.stage # "run"
            \/ board[c] = exit_duty(d, ExitFloor) \/ last_commanded_pct(c) = NoDuty)

(* A step of a calibration's walk is never recorded as the duty to give    *)
(* back after an emergency (record_pre_emergency), TestDuties being duties *)
(* that nothing else writes.                                               *)
NoTestDutyRecorded ==
    \A c \in Channels : snapshot.duties[c] \notin TestDuties
=============================================================================
