-------------------------------- MODULE GpuFans --------------------------------
(***************************************************************************)
(* Everything that writes a card's fan curve: the engine's back-end, the   *)
(* reset and the verify of handlers/gpu.rs, the stop of main.rs (which     *)
(* takes no lock), the panic hook, and ExecStopPost after the process.     *)
(* Another tool puts its curve on a card that is on firmware auto and that *)
(* no profile names, and not while the daemon is stopping.                 *)
(***************************************************************************)
EXTENDS GpuBackend

VARIABLES
    phase,       \* "running", "stopping", "restore", "down"
    todo,        \* cards the restore or ExecStopPost has yet to reach
    slot,        \* who holds the verify slot: "none", "gpu", "other"
    verify,      \* the verify: where it is, its card, the duty before it
    reset,       \* the reset in flight: its card, and whether it claimed it
    promised,    \* history: cards whose reset was answered "ok" and that no
                 \* activation or verify has taken since it claimed them
    undone       \* history: cards ExecStopPost could not reset, or was told of
                 \* wrongly

stopVars == <<phase, todo, undone>>
handlerVars == <<slot, verify, reset, promised>>
vars == <<cardVars, backendVars, stopVars, handlerVars>>

NoVerify == [pc |-> "idle", fans |-> {}, prior |-> None]
NoReset == [fans |-> {}, claimed |-> FALSE]
Up == phase # "down"

----------------------------------------------------------------------------
(* The engine ticks until the shutdown is signalled; its task goes on for  *)
(* as long as the process does.                                            *)
EngineStep ==
    \/ phase = "running" /\ TickBegins
    \/ TickIssues \/ TickLockWaitEnds \/ TickLeaves \/ TickJoins \/ TickEnds
TaskStep == TaskNames \/ TaskWrites \/ TaskGivesBack \/ TaskReturns

Engine == EngineStep /\ UNCHANGED <<stopVars, handlerVars>>
Task == TaskStep /\ UNCHANGED <<stopVars, handlerVars>>
TaskDies == TaskPanics /\ UNCHANGED <<stopVars, handlerVars>>
Cooldown == (\E f \in Fans : CooldownEnds(f)) /\ UNCHANGED <<stopVars, handlerVars>>

(* The profile: another one, or none; the curve's output moves with the    *)
(* temperature.  An activation takes back what a reset relinquished.       *)
Activate ==
    /\ phase = "running" /\ Event("activate")
    /\ profile' \in [Fans -> Duties \cup {Skipped, None}] /\ profile' # profile
    /\ IF profile' = NoDuties THEN UNCHANGED <<relinquished, promised>>
       ELSE relinquished' = {} /\ promised' = {}
    /\ UNCHANGED <<curve, taken, record, recordBad, wedged, commanded, paused,
                   lock,
                   engineVars, touched, stopVars, slot, verify, reset>>

DutyMoves ==
    /\ phase = "running" /\ tick.pc = "idle"
    /\ \E f \in Fans, d \in Duties \cup {Skipped} :
         profile[f] \notin {None, d} /\ profile' = [profile EXCEPT ![f] = d]
    /\ UNCHANGED <<cardVars, commanded, relinquished, paused, lock,
                   engineVars, touched,
                   stopVars, handlerVars>>

----------------------------------------------------------------------------
(* Mutant of ResetClaims: the reset does not wait for a verify. *)
ResetClaims_unlocked ==
    /\ phase = "running" /\ lock \in {"free", "verify"} /\ Event("reset")
    /\ \E f \in Fans :
         /\ reset' = [fans |-> {f}, claimed |-> f \notin relinquished]
         /\ relinquished' = relinquished \cup {f}
    /\ lock' = "reset"
    /\ UNCHANGED <<curve, taken, record, recordBad, wedged, profile,
                   commanded, paused,
                   engineVars, touched, stopVars, slot, verify, promised>>

(* gpu_reset_fan_handler: a 409 when the lock does not come free; else one *)
(* blocking task that claims the card before it writes.                    *)
ResetClaims ==
    /\ phase = "running" /\ lock = "free" /\ Event("reset")
    /\ \E f \in Fans :
         /\ reset' = [fans |-> {f}, claimed |-> f \notin relinquished]
         /\ relinquished' = relinquished \cup {f}
    /\ lock' = "reset"
    /\ UNCHANGED <<curve, taken, record, recordBad, wedged, profile,
                   commanded, paused,
                   engineVars, touched, stopVars, slot, verify, promised>>

ResetWrites ==
    /\ Up /\ lock = "reset"
    /\ \E f \in reset.fans :
         \/ /\ HandsBack(f)
            /\ promised' = promised \cup ({f} \cap relinquished)
            /\ UNCHANGED relinquished
         \/ /\ Fails
            /\ relinquished' = IF reset.claimed THEN relinquished \ {f} ELSE relinquished
            /\ UNCHANGED <<curve, taken, record, recordBad, commanded,
                   touched, promised>>
    /\ lock' = "free" /\ reset' = NoReset
    /\ UNCHANGED <<wedged, profile, paused, engineVars, stopVars, slot, verify>>

----------------------------------------------------------------------------
(* gpu_verify_handler: the slot, then the lock, without a bound; the       *)
(* client may go away until the sequence has begun.                        *)
SlotFree == slot = "none" \/ ~paused

VerifyClaims ==
    /\ phase = "running" /\ verify.pc = "idle" /\ SlotFree /\ Event("verify")
    /\ \E f \in Fans : verify' = [pc |-> "lock", fans |-> {f}, prior |-> None]
    /\ slot' = "gpu" /\ paused' = TRUE
    /\ UNCHANGED <<curve, taken, record, recordBad, wedged, profile, commanded,
                   relinquished, lock, engineVars, touched, stopVars, reset, promised>>

(* VerifyPauseGuard::drop: only the holder's own claim goes. *)
SlotReleased ==
    IF slot = "gpu" THEN slot' = "none" /\ paused' = FALSE ELSE UNCHANGED <<slot, paused>>

VerifyDropped ==
    /\ Up /\ verify.pc = "lock"
    /\ verify' = NoVerify /\ SlotReleased
    /\ UNCHANGED <<cardVars, profile, commanded, relinquished, lock,
                   engineVars, touched,
                   stopVars, reset, promised>>

VerifyLocks ==
    /\ Up /\ verify.pc = "lock" /\ lock = "free"
    /\ lock' = "verify"
    /\ \E f \in verify.fans : verify' = [verify EXCEPT !.pc = "name", !.prior = commanded[f]]
    /\ UNCHANGED <<cardVars, cacheVars, engineVars, touched, stopVars, slot,
                   reset, promised>>

VerifyNames ==
    /\ Up /\ verify.pc = "name"
    /\ \E f \in verify.fans : note_take(f) /\ touched' = touched \cup {f}
    /\ verify' = [verify EXCEPT !.pc = "test"]
    /\ UNCHANGED <<curve, wedged, cacheVars, lock, engineVars, stopVars, slot,
                   reset, promised>>

(* select_gpu_test_speed: upward of what the card does. *)
TestSpeed(f) ==
    LET now == IF verify.prior # None THEN verify.prior ELSE curve[f]
    IN  IF now < 60 THEN 75 ELSE 100

VerifyTests ==
    /\ Up /\ verify.pc = "test"
    /\ \E f \in verify.fans :
         \/ /\ Lands
            /\ curve' = [curve EXCEPT ![f] = TestSpeed(f)]
            /\ commanded' = [commanded EXCEPT ![f] = TestSpeed(f)]
            /\ verify' = [verify EXCEPT !.pc = "settle"]
            /\ promised' = promised \ {f}
         \/ /\ Fails
            /\ verify' = [verify EXCEPT !.pc = "restore"]
            /\ UNCHANGED <<curve, commanded, promised>>
    /\ UNCHANGED <<taken, record, recordBad, wedged, profile, relinquished,
                   paused, lock,
                   engineVars, touched, stopVars, slot, reset>>

(* The settle is over; the pause is renewed if it is still this verify's. *)
VerifySettles ==
    /\ Up /\ verify.pc = "settle"
    /\ verify' = [verify EXCEPT !.pc = "restore"]
    /\ paused' = (paused \/ slot = "gpu")
    /\ UNCHANGED <<cardVars, profile, commanded, relinquished, lock,
                   engineVars, touched,
                   stopVars, slot, reset, promised>>

(* restore_pmfw, stamp_restored_pct and note_pmfw_restored. *)
VerifyRestores ==
    /\ Up /\ verify.pc = "restore"
    /\ \E f \in verify.fans :
         \/ /\ verify.prior > 0 /\ Lands
            /\ curve' = [curve EXCEPT ![f] = verify.prior]
            /\ commanded' = [commanded EXCEPT ![f] = verify.prior]
            /\ UNCHANGED <<taken, record, recordBad, touched>>
         \/ /\ verify.prior <= 0 /\ HandsBack(f)
         \/ /\ Fails
            /\ UNCHANGED <<curve, commanded, taken, record, recordBad, touched>>
    /\ verify' = NoVerify /\ lock' = "free" /\ SlotReleased
    /\ UNCHANGED <<wedged, profile, relinquished, engineVars, stopVars, reset,
                   promised>>

(* The slot of another diagnostic, and the deadman of the verify's own. *)
OtherClaims ==
    /\ phase = "running" /\ SlotFree /\ Event("other")
    /\ slot' = "other" /\ paused' = TRUE
    /\ UNCHANGED <<curve, taken, record, recordBad, wedged, profile,
                   commanded, relinquished,
                   lock, engineVars, touched, stopVars, verify, reset, promised>>

PauseEnds ==
    /\ paused
    /\ paused' = FALSE /\ slot' = IF slot = "other" THEN "none" ELSE slot
    /\ UNCHANGED <<cardVars, profile, commanded, relinquished, lock,
                   engineVars, touched,
                   stopVars, verify, reset, promised>>

(* A card stops answering, and comes back; another tool sets a curve. *)
Wedges == Up /\ ~wedged /\ Event("wedge") /\ wedged' = TRUE
Unwedges == wedged /\ wedged' = FALSE /\ UNCHANGED budget

CardAnswers ==
    /\ Wedges \/ Unwedges
    /\ UNCHANGED <<curve, taken, record, recordBad, backendVars, stopVars, handlerVars>>

OtherTool ==
    /\ phase = "running" /\ Event("foreign")
    /\ \E f \in Fans : /\ curve[f] = FirmwareAuto /\ profile[f] = None
                       /\ curve' = [curve EXCEPT ![f] = Foreign]
    /\ UNCHANGED <<taken, record, recordBad, wedged, backendVars, stopVars, handlerVars>>

----------------------------------------------------------------------------
(* The stop: the engine's loop ends, and its drain waits only so long for  *)
(* the task.  Then every card on the list is reset, under no lock, by a    *)
(* thread that is waited for only so long; a list that stays locked is     *)
(* left to ExecStopPost.  The panic hook does the same and aborts.         *)
StopBegins ==
    /\ phase = "running" /\ Event("stop")
    /\ phase' = "stopping"
    /\ UNCHANGED <<curve, taken, record, recordBad, wedged, backendVars, todo, undone,
                   handlerVars>>

reset_driven_gpu_fans ==
    /\ \/ phase = "stopping" /\ tick.pc = "idle" /\ NoEvent
       \/ phase = "running" /\ Event("panic")
    /\ phase' = "restore"
    /\ todo' \in {taken, {}}
    /\ UNCHANGED <<curve, taken, record, recordBad, wedged, backendVars, undone, handlerVars>>

RestoreCard ==
    /\ phase = "restore"
    /\ \E f \in todo :
         \/ Lands /\ curve' = [curve EXCEPT ![f] = FirmwareAuto] /\ todo' = todo \ {f}
         \/ Fails /\ UNCHANGED curve /\ todo' = todo \ {f}
         \/ wedged /\ UNCHANGED <<curve, budget>> /\ todo' = {}
    /\ UNCHANGED <<taken, record, recordBad, wedged, backendVars, phase, undone, handlerVars>>

(* Mutant of Gone: a stop that went through leaves nothing to ExecStopPost. *)
Gone_clean ==
    /\ phase' = "down"
    /\ todo' = IF phase = "restore" THEN {} ELSE record
    /\ undone' = IF recordBad THEN touched \cup record ELSE {}
    /\ taken' = {} /\ recordBad' = FALSE
    /\ commanded' = NoDuties /\ relinquished' = {} /\ lock' = "free" /\ paused' = FALSE
    /\ tick' = NoTick /\ task' = NoTask /\ completed' = FALSE /\ batch' = NoDuties
    /\ failed' = NoDuties /\ backFailed' = {} /\ stalled' = FALSE
    /\ slot' = "none" /\ verify' = NoVerify /\ reset' = NoReset /\ promised' = {}
    /\ UNCHANGED <<curve, record, wedged, profile, touched>>

(* The process is gone, and with it its memory; ExecStopPost reads the     *)
(* record.  If its last write failed it may leave cards out, and name      *)
(* cards that were given back.                                             *)
Gone ==
    /\ phase' = "down"
    /\ todo' = record
    /\ undone' = IF recordBad THEN touched \cup record ELSE {}
    /\ taken' = {} /\ recordBad' = FALSE
    /\ commanded' = NoDuties /\ relinquished' = {} /\ lock' = "free" /\ paused' = FALSE
    /\ tick' = NoTick /\ task' = NoTask /\ completed' = FALSE /\ batch' = NoDuties
    /\ failed' = NoDuties /\ backFailed' = {} /\ stalled' = FALSE
    /\ slot' = "none" /\ verify' = NoVerify /\ reset' = NoReset /\ promised' = {}
    /\ UNCHANGED <<curve, record, wedged, profile, touched>>

Exits == phase = "restore" /\ todo = {} /\ Gone /\ NoEvent
Crashes == Up /\ Event("crash") /\ Gone

(* control-ofc-restore-auto: each card of the record, once; then the       *)
(* record goes.                                                            *)
ReplayCard ==
    /\ phase = "down"
    /\ \E f \in todo :
         /\ todo' = todo \ {f}
         /\ record' = IF todo' = {} THEN {} ELSE record
         /\ \/ Lands /\ curve' = [curve EXCEPT ![f] = FirmwareAuto] /\ UNCHANGED undone
            \/ (Fails \/ (wedged /\ NoEvent)) /\ UNCHANGED curve /\ undone' = undone \cup {f}
    /\ UNCHANGED <<taken, recordBad, wedged, backendVars, phase, handlerVars>>

(* set_record_path writes the empty list of the new process. *)
Starts ==
    /\ phase = "down" /\ todo = {}
    /\ phase' = "running" /\ persist_pmfw({})
    /\ touched' = {} /\ undone' = {}
    /\ UNCHANGED <<curve, taken, wedged, profile, commanded, relinquished, paused, lock,
                   engineVars, todo, handlerVars>>

----------------------------------------------------------------------------
Init ==
    /\ CardsInit /\ BackendInit
    /\ phase = "running" /\ todo = {} /\ undone = {}
    /\ slot = "none" /\ verify = NoVerify /\ reset = NoReset /\ promised = {}

VerifyGoesOn == VerifyNames \/ VerifyTests \/ VerifySettles \/ VerifyRestores
Stop == reset_driven_gpu_fans \/ RestoreCard \/ Exits \/ ReplayCard

Next ==
    \/ Engine \/ Task \/ TaskDies \/ Cooldown
    \/ Activate \/ DutyMoves
    \/ ResetClaims \/ ResetWrites
    \/ VerifyClaims \/ VerifyDropped \/ VerifyLocks \/ VerifyGoesOn
    \/ OtherClaims \/ PauseEnds
    \/ CardAnswers \/ OtherTool
    \/ StopBegins \/ Stop \/ Crashes \/ Starts

Spec == Init /\ [][Next]_vars

FairSpec ==
    /\ Spec
    /\ WF_vars(Engine) /\ WF_vars(Task) /\ WF_vars(Cooldown)
    /\ WF_vars(ResetWrites) /\ WF_vars(VerifyGoesOn) /\ WF_vars(PauseEnds)
    /\ SF_vars(VerifyLocks)

----------------------------------------------------------------------------
(* The types of what the daemon and the cards keep. *)
TypeOK ==
    /\ curve \in [Fans -> 0..100 \cup {FirmwareAuto, Foreign}]
    /\ taken \subseteq Fans /\ record \subseteq Fans
    /\ commanded \in [Fans -> 0..100 \cup {None}]
    /\ lock \in {"free", "engine", "reset", "verify"}
    /\ relinquished \cup promised \cup touched \cup undone \cup todo \subseteq Fans

(* A card that has a curve of the daemon's is on the hand-back list and in *)
(* its record before the write can land, whatever the engine, a verify and *)
(* a reset do (note_take, DEC-435); the disk is the only excuse.           *)
CurveIsListed ==
    \A f \in Fans : Up /\ Driven(f) /\ f \in touched =>
        f \in taken /\ (f \in record \/ recordBad)

(* The naming comes first: a duty lands on a card, from the engine, from a *)
(* verify's test or from its restore, only while the card is on the list   *)
(* and in the record (note_take before every write, DEC-435).              *)
WriteIsListed ==
    [][\A f \in Fans : curve'[f] # curve[f] /\ curve'[f] >= 0 =>
          f \in taken /\ (f \in record \/ recordBad)]_vars

(* Once ExecStopPost has run, every card the daemon had written is back on *)
(* firmware auto, though a detached engine write, a verify's restore and a *)
(* reset race the stop, which takes no lock.                               *)
StoppedIsAuto ==
    phase = "down" /\ todo = {} =>
        \A f \in touched : ~Driven(f) \/ f \in undone

(* A reset that was answered lasts: an engine write decided before it and  *)
(* carried out after it does not put the curve back (DEC-254).             *)
ResetIsDurable == \A f \in promised : ~Driven(f)

(* A verify's test duty is what it reads back: neither the engine nor a    *)
(* reset writes the card between the test and the restore (DEC-255).       *)
TestHolds ==
    verify.pc = "settle" /\ phase \in {"running", "stopping"} =>
        \A f \in verify.fans : curve[f] \in {75, 100}

(* A curve of another tool's is replaced only by a reset a client asked    *)
(* for, or on a card that the daemon has since set out to write for a      *)
(* profile or a verify and not given back (DEC-435), though the stop and   *)
(* ExecStopPost work from lists made earlier; a record whose last write    *)
(* failed is the one excuse.                                               *)
LeavesOthersAlone ==
    [][\A f \in Fans : curve[f] = Foreign /\ curve'[f] # Foreign =>
          \/ f \in touched \/ f \in reset.fans
          \/ phase = "down" /\ f \in undone]_vars

(* A card that a profile keeps at one duty comes to be driven at it, after *)
(* failed writes, verifies whose restore failed and hand-backs in between: *)
(* the cache must hide neither a test duty that was left behind nor that   *)
(* the card is on firmware auto, a command of 0 included (DEC-468).        *)
Follows(f, d) ==
    []<>(\/ profile[f] # d \/ phase # "running" \/ wedged \/ f \in relinquished
         \/ Driven(f) /\ Within(curve[f], d))
CardFollows == \A f \in Fans, d \in Duties : Follows(f, d)

(* A card on the list that the profile does not name is handed back, a     *)
(* reset that failed at first included (DEC-448).                          *)
UnnamedGoesBack ==
    \A f \in Fans :
        []<>(f \notin taken \/ profile[f] # None \/ phase # "running" \/ wedged)

(* A card that answers comes to what the profile says of it: its duty, or  *)
(* firmware auto when the profile does not name it.                        *)
CardSettles == CardFollows /\ UnnamedGoesBack

(* A write that never returns is reported, though the ticks after it wait  *)
(* for its lock and start nothing (DEC-299).                               *)
WedgeIsReported ==
    []<>(stalled \/ ~wedged \/ ~outstanding \/ phase # "running")

(* A card that always answers, only slowly, is not reported for good: each *)
(* tick sees the earlier write come back and starts another (DEC-298).     *)
(* Forced ticks tell what the tick before them left, and are excepted.     *)
SlowIsNotWedged == []<>(~stalled \/ wedged \/ phase # "running" \/ tick.late)

(* The engine's report of a stalled write tells a wedged card from a slow. *)
StallVerdictIsRight == WedgeIsReported /\ SlowIsNotWedged

(* A panicked task's failures are put down to the duties it was carrying.  *)
PanicIsOldBatch ==
    [][tick.pc = "lock" /\ tick'.pc = "issue" /\ task.st = "panic" =>
          \A f \in Fans : task.pct[f] # None => failed'[f] = task.pct[f]]_vars
=============================================================================
