----------------------------- MODULE HwmonWrites -----------------------------
(***************************************************************************)
(* Everything that writes a motherboard header, interleaved: the engine's  *)
(* single-flight write task (profile_engine/backends.rs, `HwmonBackend`),  *)
(* the diagnostics (api/handlers/hwmon_ctl.rs) with their verify slot      *)
(* (health/cache.rs), the clean stop and the crash (main.rs), and          *)
(* ExecStopPost; beside firmware that reclaims headers, other programs     *)
(* that write them, chips that stop answering, and sleep.                  *)
(***************************************************************************)
EXTENDS PwmControl

CONSTANTS
    Diags,      \* diagnostic runs
    Commands,   \* what a tick may command of a member; NoDuty when it has nothing
    FoundModes, FoundDuty,  \* what headers do before the daemon starts
    SafePct,    \* constants::NO_SENSOR_SAFE_PCT
    Env,        \* which of the environment's events a run explores
    EnvBudget   \* how many of them happen

ASSUME WritesAssumption ==
    /\ Commands \subseteq Duty \cup {NoDuty} /\ FoundDuty \subseteq Duty
    /\ FoundModes \subseteq Modes
    /\ SafePct \in 1..99 /\ EnvBudget \in Nat
    /\ Diags \cap {"engine", "stop", "none", "lease", "task"} = {}
    /\ Callers = Diags \cup {"engine", "stop", "none"}

(* There is always an id that nobody holds. *)
ASSUME FreshIdAssumption ==
    \A ids \in [Diags \cup {"lease", "task"} -> LeaseIds \cup {NoId}] :
        \E i \in LeaseIds : \A x \in DOMAIN ids : ids[x] # i

VARIABLES
    members,    \* ProfileMembers::hwmon of the active profile
    forced,     \* the tick's forced duty, 0 when thermal safety forces none
    task,       \* the engine's write task (BoundedWrite::pending)
    slot,       \* verify_in_progress, verify_active_until, verify_epoch
    diag,       \* diag[d]: where the diagnostic is
    phase,      \* "running", "draining", "floor", "hand_back", "exited", "down"
    floorTodo,  \* headers the exit floor has not reached
    stopTodo,   \* headers the shutdown hand-back has not reached
    undone,     \* history: headers whose last hand-back after the stop failed
    found,      \* history: what each header was doing when the daemon started
    budget      \* events the environment has left

actorVars == <<members, forced, task, slot, diag>>
stopVars  == <<phase, floorTodo, stopTodo, undone, found, budget>>
vars == <<lease, handBackVars, controlVars, actorVars, stopVars>>

NoTask == [kind |-> "none", step |-> "end", id |-> NoId, todo |-> {}, back |-> {},
           gives |-> FALSE, held |-> {}, pct |-> [h \in Headers |-> NoDuty], members |-> {}]
NoDiag == [pc |-> "idle", h |-> "none", id |-> NoId, was |-> 0, left |-> {},
           lapsed |-> FALSE]            \* history: its deadman has elapsed
FreeSlot == [owner |-> "none", live |-> FALSE]

Up == phase \notin {"exited", "down"}
Free == op = Idle                       \* the controller's lock can be taken
verify_active == slot.owner # "none" /\ slot.live

FreshId == CHOOSE i \in LeaseIds :
              i \notin {lease.id, task.id} \cup {diag[d].id : d \in Diags}

----------------------------------------------------------------------------
(* One engine tick, when no write task is in flight: commands for members  *)
(* that have one, and whether anything unheld is to be given back.         *)
Unheld(m) == (taken \cup (IF verify_active THEN {}
                          ELSE engineHeld \cup (abandoned \cap NoModeHeaders))) \ m

TickApply ==
    /\ task.kind = "none" /\ phase = "running" /\ forced = 0 /\ ~verify_active
    /\ \E cmd \in [members -> Commands] :
         LET named == {h \in members : cmd[h] # NoDuty}
             gives == ~Free \/ Unheld(members) # {}
         IN  /\ named # {} \/ gives
             /\ task' = [NoTask EXCEPT !.kind = "apply", !.step = "lease",
                           !.todo = named, !.gives = gives, !.members = members,
                           !.pct = [h \in Headers |-> IF h \in named THEN cmd[h] ELSE NoDuty]]
    /\ UNCHANGED <<lease, handBackVars, controlVars, members, forced, slot, diag, stopVars>>

(* A tick with no command and nothing to give back starts no task. *)
TickIdle ==
    /\ task.kind = "none" /\ Free /\ Unheld(members) = {}
    /\ members = {} \/ NoDuty \in Commands
    /\ UNCHANGED vars

(* A forced tick: every header at full speed, or the profile's members at  *)
(* SafePct and their curve if that is more; not paused by a diagnostic and *)
(* not by the shutdown signal.                                             *)
TickForce ==
    /\ task.kind = "none" /\ Up /\ forced > 0
    /\ \E cmd \in [members -> Commands], latched \in BOOLEAN :
         task' = [NoTask EXCEPT !.kind = "force", !.step = "lease",
                    !.todo = IF forced = 100 THEN Headers ELSE members,
                    !.gives = (forced < 100 /\ ~latched), !.members = members,
                    !.held = {h \in members : forced < 100 /\ cmd[h] = NoDuty},
                    !.pct = [h \in Headers |-> IF h \in members /\ cmd[h] > forced
                                               THEN cmd[h] ELSE forced]]
    /\ UNCHANGED <<lease, handBackVars, controlVars, members, forced, slot, diag, stopVars>>

(* The task finds its lease: an existing one unless a diagnostic holds it. *)
TaskLease ==
    /\ task.kind = "apply" /\ task.step = "lease" /\ Up /\ Free
    /\ IF lease.live
       THEN /\ UNCHANGED lease
            /\ task' = IF lease.owner = "verify" THEN NoTask
                       ELSE [task EXCEPT !.step = "write", !.id = lease.id]
       ELSE /\ TakeLease(FreshId, "engine")
            /\ task' = [task EXCEPT !.step = "write", !.id = lease'.id]
    /\ UNCHANGED <<handBackVars, controlVars, members, forced, slot, diag, stopVars>>

(* Thermal safety takes it from anybody and forgets which headers are in   *)
(* manual mode, so that nothing is coalesced.  Members nothing commands    *)
(* this tick keep their duty if it is more.                                *)
TaskForceLease ==
    /\ task.kind = "force" /\ task.step = "lease" /\ Up /\ Free
    /\ IF task.todo = {} /\ ~(task.gives /\ Unheld(task.members) # {})
       THEN /\ task' = NoTask
            /\ UNCHANGED <<lease, ws>>
       ELSE /\ TakeLease(FreshId, "thermal")
            /\ ws' = ModesForgotten(ws)
            /\ task' = [task EXCEPT !.step = "write", !.id = lease'.id, !.held = {},
                  !.pct = [h \in Headers |-> IF h \in task.held /\ ws[h].last > task.pct[h]
                                             THEN ws[h].last ELSE task.pct[h]]]
    /\ UNCHANGED <<handBackVars, resumed, exitRecord, exitMin, engineHeld, abandoned,
                   suspended, op, members, forced, slot, diag, stopVars>>

(* One header of the task.  A lease that is gone refuses it; thermal       *)
(* safety then takes the lease again, under the same lock.                 *)
TaskWrite ==
    /\ task.step = "write" /\ Up /\ Free
    /\ \E h \in task.todo :
         \/ /\ validate_lease(task.id)
            /\ set_pwm("engine", h, task.pct[h], FALSE)
            /\ task' = [task EXCEPT !.todo = @ \ {h}]
            /\ UNCHANGED lease
         \/ /\ ~validate_lease(task.id) /\ task.kind = "apply"
            /\ task' = [task EXCEPT !.todo = @ \ {h}]
            /\ UNCHANGED <<sysfsVars, ledgerVars, driven, controlVars, lease>>
         \/ /\ ~validate_lease(task.id) /\ task.kind = "force"
            /\ TakeLease(FreshId, "thermal")
            /\ set_pwm_from(ModesForgotten(ws), "thermal", "engine", h, task.pct[h], FALSE)
            /\ task' = [task EXCEPT !.todo = @ \ {h}, !.id = lease'.id]
    /\ UNCHANGED <<stopping, disk, members, forced, slot, diag, stopVars>>

(* give_back_unheld lists what nothing holds any more ... *)
TaskListUnheld ==
    /\ task.step = "write" /\ task.todo = {} /\ Up /\ Free
    /\ task' = [task EXCEPT !.step = "back",
                            !.back = IF task.gives THEN Unheld(task.members) ELSE {}]
    /\ UNCHANGED <<lease, handBackVars, controlVars, members, forced, slot, diag, stopVars>>

(* ... and gives each one back, if it still can. *)
TaskGiveBack ==
    /\ task.step = "back" /\ Up /\ Free
    /\ \E h \in task.back :
         /\ h \in ModeHeaders => task.back \cap NoModeHeaders = {}
         /\ task' = [task EXCEPT !.back = @ \ {h}]
         /\ IF ~validate_lease(task.id)
               \/ (h \in ModeHeaders /\ h \notin taken)
               \/ (h \in NoModeHeaders /\ (verify_active \/ h \notin engineHeld \cup abandoned))
            THEN UNCHANGED <<sysfsVars, ledgerVars, driven, controlVars>>
            ELSE IF h \in ModeHeaders THEN HandBackHeader("engine", h)
            ELSE release_no_mode("engine", h)
    /\ UNCHANGED <<lease, stopping, disk, members, forced, slot, diag, stopVars>>

(* The task ends; one that commanded nothing gives its lease back. *)
TaskEnd ==
    /\ task.step = "back" /\ task.back = {} /\ Up /\ Free
    /\ IF task.kind = "apply" /\ \A h \in Headers : task.pct[h] = NoDuty
       THEN release_lease(task.id) ELSE UNCHANGED lease
    /\ task' = NoTask
    /\ UNCHANGED <<handBackVars, controlVars, members, forced, slot, diag, stopVars>>

EngineStep == TickApply \/ TickIdle \/ TickForce \/ TaskLease \/ TaskForceLease \/ TaskWrite
                 \/ TaskListUnheld \/ TaskGiveBack \/ TaskEnd

----------------------------------------------------------------------------
(* A diagnostic.  Its thermal gate is passed BEFORE it claims the slot and *)
(* the lease, so an emergency may begin in between.                        *)
DiagGate(d) ==
    /\ diag[d].pc = "idle" /\ phase = "running" /\ forced = 0
    /\ \E h \in Headers : diag' = [diag EXCEPT ![d] = [NoDiag EXCEPT !.pc = "gated", !.h = h]]
    /\ UNCHANGED <<lease, handBackVars, controlVars, members, forced, task, slot, stopVars>>

(* try_begin_verify: the slot is free, or its deadman has elapsed. *)
DiagBegin(d) ==
    /\ diag[d].pc = "gated" /\ Up
    /\ IF verify_active
       THEN /\ diag' = [diag EXCEPT ![d] = NoDiag]
            /\ UNCHANGED slot
       ELSE /\ slot' = [owner |-> d, live |-> TRUE]
            /\ diag' = [diag EXCEPT ![d].pc = "slot", ![d].left = {"slot"}]
    /\ UNCHANGED <<lease, handBackVars, controlVars, members, forced, task, stopVars>>

(* take_verify_lease, or the controller is busy for too long. *)
DiagLease(d) ==
    /\ diag[d].pc = "slot" /\ Up
    /\ IF Free
       THEN /\ TakeLease(FreshId, "verify")
            /\ diag' = [diag EXCEPT ![d].pc = "leased", ![d].id = lease'.id,
                                    ![d].left = {"slot", "lease"}]
       ELSE /\ diag' = [diag EXCEPT ![d].pc = "ending"]
            /\ UNCHANGED lease
    /\ UNCHANGED <<handBackVars, controlVars, members, forced, task, slot, stopVars>>

(* The duty the header stands at, read before the lock is taken; 50 when  *)
(* it cannot be read.                                                      *)
DiagRead(d) ==
    /\ diag[d].pc = "leased" /\ Up
    /\ diag' = [diag EXCEPT ![d].pc = "read",
                 ![d].was = IF Readback(diag[d].h) = NoDuty THEN 50 ELSE Readback(diag[d].h)]
    /\ UNCHANGED <<lease, handBackVars, controlVars, members, forced, task, slot, stopVars>>

verify_test_duty(current) == IF current > 50 THEN 20 ELSE 80

(* A write of d, or its refusal when the lease has been taken from it. *)
DiagWrite(d, pct, next) ==
    IF validate_lease(diag[d].id)
    THEN /\ set_pwm(d, diag[d].h, pct, FALSE)
         /\ diag' = [diag EXCEPT ![d].pc = next]
    ELSE /\ diag' = [diag EXCEPT ![d].pc = "ending"]
         /\ UNCHANGED <<sysfsVars, ledgerVars, driven, controlVars>>

DiagTest(d) ==
    /\ diag[d].pc = "read" /\ Up /\ Free
    /\ DiagWrite(d, verify_test_duty(diag[d].was), "testing")
    /\ UNCHANGED <<lease, stopping, disk, members, forced, task, slot, stopVars>>

(* After the settle: give up if another run claimed the slot, leave the    *)
(* restore to the shutdown if one has begun, else hold the slot anew.      *)
DiagSettled(d) ==
    /\ diag[d].pc = "settle" /\ Up
    /\ diag' = [diag EXCEPT ![d].pc =
                   IF slot.owner # d \/ phase # "running" THEN "ending" ELSE "restore"]
    /\ slot' = IF slot.owner = d THEN [slot EXCEPT !.live = TRUE] ELSE slot
    /\ UNCHANGED <<lease, handBackVars, controlVars, members, forced, task, stopVars>>

DiagRestore(d) ==
    /\ diag[d].pc = "restore" /\ Up /\ Free
    /\ DiagWrite(d, diag[d].was, "restoring")
    /\ UNCHANGED <<lease, stopping, disk, members, forced, task, slot, stopVars>>

(* A run dropped without its restore: RestoreGuard::drop notes the header. *)
DiagAbandon(d) ==
    /\ "abandon" \in Env /\ diag[d].pc = "settle" /\ Up
    /\ abandoned' = abandoned \cup {diag[d].h}
    /\ diag' = [diag EXCEPT ![d].pc = "ending"]
    /\ UNCHANGED <<lease, handBackVars, ws, resumed, exitRecord, exitMin, engineHeld,
                   suspended, op, members, forced, task, slot, stopVars>>

(* VerifyLeaseGuard and VerifyPauseGuard: the lease is released first when *)
(* the controller is free, else from another thread once it is; neither    *)
(* releases what another run has taken over since.                         *)
DiagDropLease(d) ==
    /\ diag[d].pc = "ending" /\ "lease" \in diag[d].left /\ Up /\ Free
    /\ release_lease(diag[d].id)
    /\ diag' = [diag EXCEPT ![d].left = @ \ {"lease"}, ![d].id = NoId]
    /\ UNCHANGED <<handBackVars, controlVars, members, forced, task, slot, stopVars>>

(* Mutant of end_verify: the epoch is not compared. *)
end_any_verify(d) == slot' = FreeSlot

end_verify(d) == slot' = IF slot.owner = d THEN FreeSlot ELSE slot

DiagDropSlot(d) ==
    /\ diag[d].pc = "ending" /\ "slot" \in diag[d].left /\ Up
    /\ "lease" \in diag[d].left => ~Free
    /\ end_verify(d)
    /\ diag' = [diag EXCEPT ![d].left = @ \ {"slot"}]
    /\ UNCHANGED <<lease, handBackVars, controlVars, members, forced, task, stopVars>>

DiagDone(d) ==
    /\ diag[d].pc = "ending" /\ diag[d].left = {}
    /\ diag' = [diag EXCEPT ![d] = NoDiag]
    /\ UNCHANGED <<lease, handBackVars, controlVars, members, forced, task, slot, stopVars>>

DiagStep(d) == DiagGate(d) \/ DiagBegin(d) \/ DiagLease(d) \/ DiagRead(d) \/ DiagTest(d)
                  \/ DiagSettled(d) \/ DiagRestore(d) \/ DiagAbandon(d)
                  \/ DiagDropLease(d) \/ DiagDropSlot(d) \/ DiagDone(d)

(* A step of the call under the lock.  Its caller, when it is a diagnostic,*)
(* goes on with the result.                                                *)
ControlStep ==
    /\ Up
    /\ \/ (OpNote \/ OpTake \/ OpEnable \/ OpCheck \/ OpWrite \/ OpBack) /\ UNCHANGED diag
       \/ /\ OpReturn
          /\ diag' = IF op.by \notin Diags THEN diag
                     ELSE [diag EXCEPT ![op.by].pc =
                             IF @ = "testing" /\ op.ok THEN "settle" ELSE "ending"]
    /\ UNCHANGED <<lease, stopping, disk, members, forced, task, slot, stopVars>>

----------------------------------------------------------------------------
(* A clean stop: drain the tasks, apply the exit floor, refuse further     *)
(* takes, then give back what the ledger holds.  Every wait is bounded, so *)
(* each step may begin while the one before is still going.                *)
StopBegin ==
    /\ "stop" \in Env /\ phase = "running"
    /\ phase' = "draining"
    /\ UNCHANGED <<lease, handBackVars, controlVars, actorVars, floorTodo, stopTodo,
                   undone, found, budget>>

StopFloor ==
    /\ phase = "draining"
    /\ phase' = "floor"
    /\ UNCHANGED <<lease, handBackVars, controlVars, actorVars, floorTodo, stopTodo,
                   undone, found, budget>>

(* The floor's own thread: it takes the controller's lock, latches, and    *)
(* raises the headers one by one.                                          *)
FloorLatch ==
    /\ phase = "floor" /\ ExitFloor > 0 /\ Free
    /\ \A h \in NoModeHeaders : exitMin[h] = NoDuty
    /\ LatchExitFloor
    /\ floorTodo' = {h \in NoModeHeaders : exitRecord[h] # NotWritten}
    /\ UNCHANGED <<lease, stopping, disk, actorVars, phase, stopTodo, undone, found, budget>>

FloorRaise ==
    /\ Up
    /\ \E h \in floorTodo :
         /\ h \in SharedReport => floorTodo \subseteq SharedReport
         /\ RaiseToFloor(h)
         /\ floorTodo' = floorTodo \ {h}
    /\ UNCHANGED <<lease, stopping, disk, actorVars, phase, stopTodo, undone, found, budget>>

FloorEnd ==
    /\ Up /\ floorTodo = {}
    /\ FloorDone
    /\ UNCHANGED <<lease, stopping, disk, actorVars, stopVars>>

(* begin_shutdown_hand_back, after the floor; or straight from a panic of  *)
(* the main thread, which applies no floor.                                *)
StopFlag ==
    /\ phase = "floor" \/ ("panic" \in Env /\ phase \in {"running", "draining"})
    /\ stopping' = TRUE
    /\ phase' = "flagged"
    /\ UNCHANGED <<lease, sysfsVars, ledgerVars, disk, driven, controlVars, actorVars,
                   floorTodo, stopTodo, undone, found, budget>>

(* try_taken, which gives up while a call sits on the ledger's lock.       *)
StopSnapshot ==
    /\ phase = "flagged"
    /\ phase' = "hand_back"
    /\ stopTodo' \in {taken} \cup (IF op.step \in {"take", "back"} THEN {{}} ELSE {})
    /\ UNCHANGED <<lease, handBackVars, controlVars, actorVars, floorTodo, undone, found,
                   budget>>

Undone(h, result) == IF released(result) THEN undone \ {h} ELSE undone \cup {h}

(* hand_back_hwmon and restore_panic_targets.  Neither takes the           *)
(* controller's lock, and the record keeps the header either way.          *)
StopHandBack ==
    /\ phase = "hand_back"
    /\ \E h \in stopTodo : \E result \in hand_back(h, TakenAction(original, h)) :
         /\ PerformHandBack(h, result)
         /\ undone' = Undone(h, result)
         /\ stopTodo' = stopTodo \ {h}
    /\ UNCHANGED <<lease, alive, ledgerVars, stopping, disk, controlVars, actorVars,
                   phase, floorTodo, found, budget>>

(* The process ends, done or timed out, or is killed: its memory is gone,  *)
(* and with it every call in flight.  The history of the record stays.     *)
Exit ==
    /\ phase = "hand_back" \/ ("crash" \in Env /\ Up)
    /\ phase' = "exited"
    /\ lease' = NoLease
    /\ ws' = [h \in Headers |-> NoState]
    /\ resumed' = FALSE
    /\ exitRecord' = [h \in Headers |-> NotWritten]
    /\ exitMin' = [h \in Headers |-> NoDuty]
    /\ engineHeld' = {} /\ abandoned' = {} /\ suspended' = FALSE
    /\ op' = Idle /\ task' = NoTask /\ slot' = FreeSlot
    /\ diag' = [d \in Diags |-> NoDiag]
    /\ stopping' = FALSE /\ floorTodo' = {} /\ stopTodo' = {}
    /\ UNCHANGED <<sysfsVars, ledgerVars, disk, driven, members, forced, undone, found,
                   budget>>

(* Mutant of ExecStopPost: a line it does not know how to replay is dropped. *)
ExecStopPostModesOnly ==
    /\ phase = "exited"
    /\ \E h \in ModeHeaders :
         /\ record[h] # Unknown
         /\ \E result \in hand_back(h, record[h]) :
              IF record[h].kind = "mode"
              THEN PerformHandBack(h, result) /\ undone' = Undone(h, result)
              ELSE UNCHANGED <<enable, duty, driven, undone>>
         /\ record' = [record EXCEPT ![h] = Unknown]
    /\ UNCHANGED <<lease, alive, original, taken, recordStale, stopping, disk, controlVars,
                   actorVars, phase, floorTodo, stopTodo, found, budget>>

(* control-ofc-restore-auto.sh replays the record, then removes it. *)
ExecStopPost ==
    /\ phase = "exited"
    /\ \E h \in ModeHeaders :
         /\ record[h] # Unknown
         /\ \E result \in hand_back(h, record[h]) :
              /\ PerformHandBack(h, result)
              /\ undone' = Undone(h, result)
         /\ record' = [record EXCEPT ![h] = Unknown]
    /\ UNCHANGED <<lease, alive, original, taken, recordStale, stopping, disk, controlVars,
                   actorVars, phase, floorTodo, stopTodo, found, budget>>

(* With no record left it does nothing, and nothing when it is run again. *)
ExecStopPostDone ==
    /\ phase \in {"exited", "down"} /\ \A h \in ModeHeaders : record[h] = Unknown
    /\ phase' = "down"
    /\ UNCHANGED <<lease, handBackVars, controlVars, actorVars, floorTodo, stopTodo,
                   undone, found, budget>>

(* The next daemon: HwmonBackend::new and set_record_path over an empty    *)
(* ledger.                                                                 *)
Start ==
    /\ phase = "down" /\ "restart" \in Env
    /\ phase' = "running"
    /\ original' = [h \in ModeHeaders |-> Unknown]
    /\ taken' = {} /\ driven' = {} /\ undone' = {}
    /\ recordStale' = ~disk
    /\ found' = [h \in Headers |-> [mode |-> enable[h], duty |-> duty[h]]]
    /\ UNCHANGED <<lease, sysfsVars, record, stopping, disk, controlVars, actorVars,
                   floorTodo, stopTodo, budget>>

StopStep == StopBegin \/ StopFloor \/ FloorLatch \/ FloorRaise \/ FloorEnd \/ StopFlag
               \/ StopSnapshot \/ StopHandBack \/ Exit \/ ExecStopPost
               \/ ExecStopPostDone \/ Start

----------------------------------------------------------------------------
(* The environment: each event a run explores, at most EnvBudget in all.   *)
Event(e) == e \in Env /\ budget > 0 /\ budget' = budget - 1

Calm == UNCHANGED <<phase, floorTodo, stopTodo, undone, found>>

(* Firmware switches a header back to its own control. *)
Reclaim ==
    /\ Event("reclaim")
    /\ \E h \in ModeHeaders : enable' = [enable EXCEPT ![h] = "auto"]
    /\ UNCHANGED <<lease, duty, alive, ledgerVars, stopping, disk, driven, controlVars, actorVars>>
    /\ Calm

(* Another program writes a duty. *)
Meddle ==
    /\ Event("meddle")
    /\ \E h \in Headers, d \in FoundDuty : duty' = [duty EXCEPT ![h] = d]
    /\ UNCHANGED <<lease, enable, alive, ledgerVars, stopping, disk, driven, controlVars, actorVars>>
    /\ Calm

(* A chip stops answering, or answers again; one chip is one device. *)
ChipAnswers ==
    /\ Event("chip")
    /\ \E h \in Headers :
         LET chip == IF h \in SharedReport THEN SharedReport ELSE {h}
         IN  alive' = IF h \in alive THEN alive \ chip ELSE alive \cup chip
    /\ UNCHANGED <<lease, enable, duty, ledgerVars, stopping, disk, driven, controlVars, actorVars>>
    /\ Calm

(* Sleep and resume: firmware has some of the mode headers, the            *)
(* shared-report driver's registers start from zero, the poll loop notices.*)
Resume ==
    /\ Event("resume")
    /\ resumed' = TRUE
    /\ duty' = [h \in Headers |-> IF h \in SharedReport THEN 0 ELSE duty[h]]
    /\ \E back \in SUBSET ModeHeaders :
          enable' = [h \in Headers |-> IF h \in back THEN "auto" ELSE enable[h]]
    /\ UNCHANGED <<lease, alive, ledgerVars, stopping, disk, driven, ws, exitRecord, exitMin,
                   engineHeld, abandoned, suspended, op, actorVars>>
    /\ Calm

Expires ==
    /\ Event("expire")
    /\ Expire
    /\ UNCHANGED <<handBackVars, controlVars, actorVars>>
    /\ Calm

(* The verify slot's deadman elapses under a run that is still going. *)
Deadman ==
    /\ Event("deadman")
    /\ verify_active
    /\ slot' = [slot EXCEPT !.live = FALSE]
    /\ diag' = [diag EXCEPT ![slot.owner].lapsed = TRUE]
    /\ UNCHANGED <<lease, handBackVars, controlVars, members, forced, task>>
    /\ Calm

(* The thermal ladder changes what it forces; the profile what it names. *)
ForceChange ==
    /\ Event("force")
    /\ forced' \in {0, SafePct, 100} \ {forced}
    /\ UNCHANGED <<lease, handBackVars, controlVars, members, task, slot, diag>>
    /\ Calm

ProfileChange ==
    /\ Event("profile") /\ phase = "running"
    /\ members' \in SUBSET Headers
    /\ UNCHANGED <<lease, handBackVars, controlVars, forced, task, slot, diag>>
    /\ Calm

DiskChange ==
    /\ Event("disk")
    /\ disk' = ~disk
    /\ UNCHANGED <<lease, sysfsVars, ledgerVars, stopping, driven, controlVars, actorVars>>
    /\ Calm

EnvStep == Reclaim \/ Meddle \/ ChipAnswers \/ Resume \/ Expires \/ Deadman \/ ForceChange
              \/ ProfileChange \/ DiskChange

----------------------------------------------------------------------------
Init ==
    /\ ControlInit
    /\ \A h \in ModeHeaders : enable[h] \in FoundModes
    /\ duty \in [Headers -> FoundDuty]
    /\ members = Headers /\ forced = 0
    /\ task = NoTask /\ slot = FreeSlot
    /\ diag = [d \in Diags |-> NoDiag]
    /\ phase = "running"
    /\ floorTodo = {} /\ stopTodo = {} /\ undone = {}
    /\ found = [h \in Headers |-> [mode |-> enable[h], duty |-> duty[h]]]
    /\ budget = EnvBudget

Next == EngineStep \/ (\E d \in Diags : DiagStep(d)) \/ ControlStep \/ StopStep \/ EnvStep

Spec == Init /\ [][Next]_vars

(* The engine ticks, calls under the lock return, and a diagnostic that    *)
(* has begun goes on; nothing else is bound to happen.                     *)
Fairness ==
    /\ WF_vars(EngineStep)
    /\ WF_vars(ControlStep)
    /\ \A d \in Diags : WF_vars(DiagStep(d) /\ diag[d].pc # "idle")

FairSpec == Spec /\ Fairness

----------------------------------------------------------------------------
Tasks == [kind : {"none", "apply", "force"}, step : {"lease", "write", "back", "end"},
          id : LeaseIds \cup {NoId}, todo : SUBSET Headers, back : SUBSET Headers,
          gives : BOOLEAN, held : SUBSET Headers,
          pct : [Headers -> Duty \cup {NoDuty}], members : SUBSET Headers]

DiagStates == [pc : {"idle", "gated", "slot", "leased", "read", "testing", "settle",
                     "restore", "restoring", "ending"},
               h : Headers \cup {"none"}, id : LeaseIds \cup {NoId}, was : Duty,
               left : SUBSET {"slot", "lease"}, lapsed : BOOLEAN]

(* Types: leases, headers and ledger, the controller's state, the tasks'.  *)
TypeOK ==
    /\ ControlTypeOK
    /\ members \subseteq Headers /\ forced \in {0, SafePct, 100}
    /\ task \in Tasks
    /\ \A h \in task.todo : task.pct[h] \in Duty
    /\ slot \in [owner : Diags \cup {"none"}, live : BOOLEAN]
    /\ diag \in [Diags -> DiagStates]
    /\ \A d \in Diags : diag[d].pc # "idle" => diag[d].h \in Headers
    /\ phase \in {"running", "draining", "floor", "flagged", "hand_back", "exited", "down"}
    /\ floorTodo \subseteq NoModeHeaders /\ stopTodo \subseteq ModeHeaders
    /\ undone \subseteq ModeHeaders
    /\ found \in [Headers -> [mode : Modes, duty : Duty]]
    /\ budget \in 0..EnvBudget

(* The ledger is written ahead of the hardware (set_pwm, note_take): while *)
(* the daemon runs, every mode header it drives is held by the ledger, and *)
(* the record file says what the ledger does unless its last write failed. *)
WriteAhead ==
    Up => /\ driven \cap ModeHeaders \subseteq taken
          /\ ~recordStale => record = render_record(original, taken)

(* Whenever and however the process ended, in the middle of a call or of   *)
(* its own hand-back, once ExecStopPost has run every mode header the      *)
(* daemon drove has been given back, except where that write failed        *)
(* (ExecStopPost replays the record; the record was up to date).           *)
GivenBackAtStop == phase = "down" /\ ~recordStale => driven \cap ModeHeaders \subseteq undone

(* ... and what that leaves in the registers: no header in manual mode at  *)
(* a duty of the daemon's.  It is under firmware, at full speed, or at the *)
(* manual duty it was found at (HandBack::from_reading, hand_back).        *)
LeftAsFound ==
    phase = "down" /\ ~recordStale =>
        \A h \in ModeHeaders \ undone :
            \/ enable[h] # "manual"
            \/ duty[h] = 100
            \/ found[h].mode = "manual" /\ duty[h] = found[h].duty

(* A header the shutdown hand-back could not give back stays on the record *)
(* for ExecStopPost to try again (hand_back_hwmon strikes none).           *)
FailedStaysRecorded ==
    phase = "hand_back" /\ ~recordStale => \A h \in undone : record[h] # Unknown

(* Once the exit floor has run over a header with no mode switch, no write *)
(* that was still queued behind it (an engine task that outlived its       *)
(* drain, a diagnostic's restore) takes it below the latched minimum.      *)
FloorSurvives ==
    \A h \in NoModeHeaders :
        exitMin[h] # NoDuty /\ op.step # "floor" /\ exitRecord[h] \in Duty =>
            exitRecord[h] >= exitMin[h] /\ duty[h] = Stores[exitRecord[h]]

(* While a diagnostic that has written its test duty still holds its lease,*)
(* the header stays at that duty: an engine task that began before it is   *)
(* refused header by header (validate_lease), and only the stop, which     *)
(* needs no lease, or thermal safety, which takes it, may write.           *)
TestDutyUndisturbed ==
    \A d \in Diags :
        /\ diag[d].pc \in {"settle", "restore"} /\ validate_lease(diag[d].id)
        /\ exitMin[diag[d].h] = NoDuty /\ ~stopping
        => duty[diag[d].h] = Stores[verify_test_duty(diag[d].was)]

(* The verify slot belongs to a diagnostic until it ends or its deadman    *)
(* elapses: a run that was superseded and ends late does not free the slot *)
(* of the one that followed it (end_verify compares the epoch).            *)
OneDiagnostic ==
    \A d \in Diags : Up /\ "slot" \in diag[d].left /\ ~diag[d].lapsed => slot.owner = d

(* Diagnostics, the engine and one another's late ends are kept apart, on  *)
(* the header by its lease and across headers by the slot.                 *)
DiagnosticsKeptApart == TestDutyUndisturbed /\ OneDiagnostic

(* Of one header: more events have happened than it was corrected for. *)
ReportEarned(h) == ws[h].notHolding => EnvBudget - budget > Attempts

(* duty_not_holding is raised against a header only when something really  *)
(* moved its duty more often than the controller is willing to correct:    *)
(* never because the chip stores a coarser duty than was written, and      *)
(* never because of the daemon's own writes (reconcile_decision).          *)
NotHoldingEarned == \A h \in Headers : ReportEarned(h)

(* A write to one channel of a chip that sends every channel, the exit     *)
(* floor's included, leaves none of the others at a zero nobody chose, or  *)
(* chose before the exit floor was latched (prime_shared_report_siblings). *)
PrimedWithWrite ==
    [][op.step \in {"write", "floor"} /\ duty' # duty /\ budget' = budget =>
          \A s \in SharedReport : duty'[s] = 0 => ws'[s].last = 0 /\ exitMin[s] <= 0]_vars

(* When thermal safety goes on forcing full speed and the chips answer,    *)
(* every header comes to stand at it and stays there, whatever a           *)
(* diagnostic that had passed its gate, firmware that took a header back,  *)
(* or an expired lease did before (force_all_with_floor, unattended).      *)
ForceHolds ==
    <>[](forced = 100 /\ phase = "running" /\ alive = Headers) =>
        <>[](\A h \in Headers : duty[h] = Stores[100] /\ enable[h] # "auto")

(* When the profile goes on commanding a header and nothing disturbs it    *)
(* any more, it settles in manual mode at what the chip stores for the     *)
(* command, or it has been reported as not holding (the pwm_enable         *)
(* watchdog, duty_drift_rewrite, the resume flag).  dell_smm's mode cannot *)
(* be read, so there only the duty settles.                                *)
DutySettles ==
    <>[](forced = 0 /\ phase = "running" /\ alive = Headers /\ members = Headers
         /\ ~verify_active) =>
        <>[](\A h \in Headers :
                \/ ws[h].notHolding
                \/ /\ \E c \in Commands : Near(duty[h], Stores[c])
                   /\ h \in ModeHeaders /\ Driver[h] # "dell" => enable[h] = "manual")

(* The duty settles at the command, or the header is reported as one that  *)
(* does not hold its duty, and then for a reason.                          *)
SettlesOrIsReported == DutySettles /\ []NotHoldingEarned

(* When no control of the profile names a header without a mode switch any *)
(* more, the engine lets go of it: also when the last write to it failed,  *)
(* or when it was a diagnostic that was dropped half-way over it           *)
(* (give_back_unheld, releasable_no_mode, note_abandoned_by_diagnostic).   *)
NoModeReleased ==
    \A h \in NoModeHeaders :
        <>[](forced = 0 /\ phase = "running" /\ alive = Headers /\ h \notin members
             /\ ~verify_active) =>
            <>[](h \notin engineHeld \cup abandoned)

(* ... and never below the exit floor, nor at a duty it does not know: a   *)
(* write that failed long before the release makes it full speed           *)
(* (release_no_mode, exit_duty).                                           *)
ReleasedAtFloor ==
    [][phase = "running" /\ phase' = "running" =>
          \A h \in (engineHeld \cup abandoned) \ (engineHeld' \cup abandoned') :
              exitRecord'[h] >= ExitFloor]_vars

(* A header without a mode switch is let go of, and at a safe duty. *)
NoModeLetGo == NoModeReleased /\ ReleasedAtFloor

(* No header stays at the duty a diagnostic tested it with: the run        *)
(* restores it or, when the run cannot, its new owner or the engine's next *)
(* tick corrects it (hwmon_verify_handler).                                *)
NoneLeftAtTest ==
    <>[](/\ forced = 0 /\ phase = "running" /\ alive = Headers
         /\ \A d \in Diags : diag[d].pc = "idle") =>
        <>[](\A h \in Headers : duty[h] \notin {Stores[20], Stores[80]})
=============================================================================
