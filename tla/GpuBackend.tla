------------------------------- MODULE GpuBackend -------------------------------
(***************************************************************************)
(* The engine's GPU back-end (profile_engine/backends.rs): one tick's      *)
(* commands and give-backs, the write lock it waits for only so long, and  *)
(* the blocking task it waits for only so long (BoundedWrite).  The task   *)
(* owns the lock until it ends, which may be ticks later.                  *)
(***************************************************************************)
EXTENDS PmfwHandBack

CONSTANTS
    Duties       \* what a profile commands

ASSUME DutiesAssumption == Duties \subseteq 0..100

VARIABLES
    profile,        \* card -> the duty the active profile commands, Skipped if
                    \* its control commands none now, None if it names no card
    commanded,      \* GpuFanState::last_commanded_pct, None when there is none
    relinquished,   \* relinquished_gpu_fans
    lock,           \* gpu_write_lock: "free", "engine", "reset" or "verify"
    paused,         \* verify_active
    tick,           \* where the engine's tick is
    task,           \* the blocking task of BoundedWrite::pending
    completed,      \* BoundedWrite::completed_last_run
    batch,          \* outstanding_batch
    failed,         \* fail_cache within its cooldown: the duty, or None
    backFailed,     \* give_back_failed within its cooldown
    stalled,        \* engine_writes_stalled_since is set
    touched         \* history: cards the daemon set out to write since it last
                    \* gave them back

engineVars == <<tick, task, completed, batch, failed, backFailed, stalled>>
cacheVars == <<profile, commanded, relinquished, paused>>
backendVars == <<cacheVars, lock, engineVars, touched>>

CoalesceDelta == 5
Skipped == -4
NoDuties == [f \in Fans |-> None]
NoTask == [st |-> "none", todo |-> {}, noted |-> {}, pct |-> NoDuties, back |-> {},
           ok |-> {}, bad |-> {}, backOk |-> {}, backBad |-> {}]
NoTick == [pc |-> "idle", saw |-> FALSE, late |-> FALSE, pct |-> NoDuties, back |-> {},
           harvested |-> FALSE]

(* BoundedWrite: outstanding and stalled. *)
outstanding == task.st = "run"
writes_stalled == outstanding /\ ~completed

Within(a, b) == a # None /\ a - b < CoalesceDelta /\ b - a < CoalesceDelta

----------------------------------------------------------------------------
(* A tick begins: the commands that are worth a write, and the cards that  *)
(* go back.  A tick that is forced, or has no profile, publishes the stall *)
(* it saw at its start.                                                    *)
Worth(f, d) ==
    /\ d \in Duties
    /\ f \notin relinquished /\ ~Within(commanded[f], d) /\ failed[f] # d

give_back_candidates == {f \in taken : profile[f] = None} \ backFailed

TickBegins ==
    /\ tick.pc = "idle"
    /\ \E forced \in BOOLEAN :
         LET pct  == [f \in Fans |-> IF Worth(f, profile[f]) /\ ~paused
                                    THEN profile[f] ELSE None]
             back == IF paused THEN {} ELSE give_back_candidates
         IN  tick' = [NoTick EXCEPT
                        !.saw = writes_stalled,
                        !.late = forced \/ profile = NoDuties,
                        !.pct = pct,
                        !.back = back,
                        !.pc = IF pct # NoDuties \/ back # {} THEN "lock"
                               ELSE IF outstanding /\ ~paused THEN "harvest" ELSE "end"]
    /\ backFailed' = IF paused THEN backFailed
                     ELSE {f \in backFailed : f \in taken /\ profile[f] = None}
    /\ UNCHANGED <<cardVars, cacheVars, lock, task, completed, batch, failed,
                   stalled, touched>>

(* note_gpu_outcomes: what a task reports, or that it died.  A panic is    *)
(* put down to whatever outstanding_batch holds.                           *)
note_gpu_outcomes(t, b) ==
    /\ failed' = [f \in Fans |->
                    IF t.st = "panic" THEN (IF b[f] # None THEN b[f] ELSE failed[f])
                    ELSE IF f \in t.ok THEN None
                    ELSE IF f \in t.bad THEN t.pct[f] ELSE failed[f]]
    /\ backFailed' = IF t.st = "panic" THEN backFailed
                     ELSE (backFailed \ t.backOk) \cup t.backBad

(* The lock is free, so the earlier task has ended: run() harvests it and  *)
(* issues this tick's.                                                     *)
TickIssues ==
    /\ tick.pc = "lock" /\ lock = "free"
    /\ lock' = "engine"
    /\ tick' = [tick EXCEPT !.pc = "issue", !.harvested = (task.st # "none")]
    /\ batch' = IF task.st = "panic" THEN NoDuties ELSE tick.pct
    /\ note_gpu_outcomes(task, tick.pct)
    /\ task' = [NoTask EXCEPT !.st = "run", !.pct = tick.pct, !.back = tick.back,
                              !.todo = {f \in Fans : tick.pct[f] # None}]
    /\ UNCHANGED <<cardVars, cacheVars, completed, stalled, touched>>

(* Mutant of TickLockWaitEnds: a tick that is not served says nothing. *)
TickLockWaitEnds_quiet ==
    /\ tick.pc = "lock" /\ lock # "free"
    /\ tick' = [tick EXCEPT !.pc = "end"]
    /\ UNCHANGED <<cardVars, cacheVars, lock, task, completed, batch, failed,
                   backFailed,
                   stalled, touched>>

(* GPU_RESET_LOCK_WAIT is over: no write this tick. *)
TickLockWaitEnds ==
    /\ tick.pc = "lock" /\ lock # "free"
    /\ tick' = [tick EXCEPT !.pc = "end"]
    /\ completed' = (completed /\ ~outstanding)          \* note_no_progress
    /\ UNCHANGED <<cardVars, cacheVars, lock, task, batch, failed,
                   backFailed, stalled, touched>>

(* The budget is over and the task is not: run and harvest_only keep it.   *)
TickLeaves ==
    /\ tick.pc \in {"issue", "harvest"} /\ task.st = "run"
    /\ tick' = [tick EXCEPT !.pc = "end"]
    /\ completed' = (tick.pc = "issue" /\ tick.harvested)
    /\ UNCHANGED <<cardVars, cacheVars, lock, task, batch, failed,
                   backFailed, stalled, touched>>

(* The task ended within the budget. *)
TickJoins ==
    /\ tick.pc \in {"issue", "harvest"} /\ task.st \in {"done", "panic"}
    /\ tick' = [tick EXCEPT !.pc = "end"]
    /\ completed' = TRUE
    /\ note_gpu_outcomes(task, batch)
    /\ batch' = IF task.st = "panic" THEN NoDuties ELSE batch
    /\ task' = NoTask
    /\ UNCHANGED <<cardVars, cacheVars, lock, stalled, touched>>

(* TickCompletion::drop. *)
TickEnds ==
    /\ tick.pc = "end"
    /\ stalled' = IF tick.late THEN tick.saw ELSE writes_stalled
    /\ tick' = NoTick
    /\ UNCHANGED <<cardVars, cacheVars, lock, task, completed, batch, failed,
                   backFailed, touched>>

(* GPU_FAIL_COOLDOWN is over. *)
CooldownEnds(f) ==
    /\ (failed[f] # None \/ f \in backFailed)
    /\ failed' = [failed EXCEPT ![f] = None]
    /\ backFailed' = backFailed \ {f}
    /\ UNCHANGED <<cardVars, cacheVars, lock, tick, task, completed, batch,
                   stalled, touched>>

----------------------------------------------------------------------------
(* Mutant of TaskNames: a reset since the tick began is not seen. *)
TaskNames_blind ==
    /\ task.st = "run" /\ task.noted = {}
    /\ \E f \in task.todo :
         IF paused
         THEN /\ task' = [task EXCEPT !.todo = @ \ {f}]
              /\ UNCHANGED <<taken, record, recordBad, budget, touched>>
         ELSE /\ note_take(f)
              /\ touched' = touched \cup {f}
              /\ task' = [task EXCEPT !.noted = {f}]
    /\ UNCHANGED <<curve, wedged, cacheVars, lock, tick, completed, batch,
                   failed,
                   backFailed, stalled>>

(* The blocking task: each card is checked again and named on the list     *)
(* (gpu_blocking_write) ...                                                *)
TaskNames ==
    /\ task.st = "run" /\ task.noted = {}
    /\ \E f \in task.todo :
         IF paused \/ f \in relinquished
         THEN /\ task' = [task EXCEPT !.todo = @ \ {f}]
              /\ UNCHANGED <<taken, record, recordBad, budget, touched>>
         ELSE /\ note_take(f)
              /\ touched' = touched \cup {f}
              /\ task' = [task EXCEPT !.noted = {f}]
    /\ UNCHANGED <<curve, wedged, cacheVars, lock, tick, completed, batch,
                   failed,
                   backFailed, stalled>>

(* ... and written. *)
TaskWrites ==
    /\ task.st = "run"
    /\ \E f \in task.noted :
         \/ /\ Lands
            /\ curve' = [curve EXCEPT ![f] = task.pct[f]]
            /\ commanded' = [commanded EXCEPT ![f] = task.pct[f]]
            /\ task' = [task EXCEPT !.noted = {}, !.todo = @ \ {f}, !.ok = @ \cup {f}]
         \/ /\ Fails
            /\ task' = [task EXCEPT !.noted = {}, !.todo = @ \ {f}, !.bad = @ \cup {f}]
            /\ UNCHANGED <<curve, commanded>>
    /\ UNCHANGED <<taken, record, recordBad, wedged, profile, relinquished,
                   paused, lock,
                   tick, completed, batch, failed, backFailed, stalled, touched>>

(* Mutant of HandsBack: a card on firmware auto is recorded as at 0. *)
HandsBack_stamped(f) ==
    /\ ~wedged
    /\ curve' = [curve EXCEPT ![f] = FirmwareAuto]
    /\ commanded' = [commanded EXCEPT ![f] = 0]
    /\ note_handed_back(f)
    /\ touched' = touched \ {f}

(* reset_to_auto on a card that nothing else writes meanwhile, with what   *)
(* its callers do when it lands: no duty is recorded of it (DEC-468).      *)
HandsBack(f) ==
    /\ ~wedged
    /\ curve' = [curve EXCEPT ![f] = FirmwareAuto]
    /\ commanded' = [commanded EXCEPT ![f] = None]
    /\ note_handed_back(f)
    /\ touched' = touched \ {f}

(* gpu_give_back: not under a diagnostic's pause, not once the card has    *)
(* left the list.                                                          *)
TaskGivesBack ==
    /\ task.st = "run" /\ task.todo = {}
    /\ \E f \in task.back :
         \/ /\ paused \/ f \notin taken
            /\ task' = [task EXCEPT !.back = @ \ {f}]
            /\ UNCHANGED <<curve, taken, record, recordBad, budget, commanded,
                           touched>>
         \/ /\ ~paused /\ f \in taken
            /\ HandsBack(f)
            /\ task' = [task EXCEPT !.back = @ \ {f}, !.backOk = @ \cup {f}]
         \/ /\ ~paused /\ f \in taken
            /\ Fails
            /\ task' = [task EXCEPT !.back = @ \ {f}, !.backBad = @ \cup {f}]
            /\ UNCHANGED <<curve, taken, record, recordBad, commanded, touched>>
    /\ UNCHANGED <<wedged, profile, relinquished, paused, lock, tick,
                   completed, batch,
                   failed, backFailed, stalled>>

TaskReturns ==
    /\ task.st = "run" /\ task.todo = {} /\ task.back = {}
    /\ task' = [task EXCEPT !.st = "done"]
    /\ lock' = "free"
    /\ UNCHANGED <<cardVars, cacheVars, tick, completed, batch, failed,
                   backFailed, stalled, touched>>

TaskPanics ==
    /\ task.st = "run" /\ Event("task_panic")
    /\ task' = [NoTask EXCEPT !.st = "panic", !.pct = task.pct]
    /\ lock' = "free"
    /\ UNCHANGED <<curve, taken, record, recordBad, wedged, cacheVars, tick,
                   completed,
                   batch, failed, backFailed, stalled, touched>>

BackendInit ==
    /\ profile = NoDuties /\ commanded = NoDuties /\ relinquished = {}
    /\ lock = "free" /\ paused = FALSE
    /\ tick = NoTick /\ task = NoTask /\ completed = FALSE /\ batch = NoDuties
    /\ failed = NoDuties /\ backFailed = {} /\ stalled = FALSE /\ touched = {}
=============================================================================
