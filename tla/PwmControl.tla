------------------------------ MODULE PwmControl ------------------------------
(***************************************************************************)
(* The hwmon PWM controller (hwmon/pwm_control.rs, `HwmonPwmController`):  *)
(* set_pwm with its reclaim watchdog, coalescing and drift correction,     *)
(* hand_back, release_no_mode, the exit floor, and the priming of channels *)
(* that share one output report.                                           *)
(*                                                                         *)
(* Everything here runs under the controller's lock: `op` is the call that *)
(* holds it.  The shutdown hand-back does NOT take that lock, so the parts *)
(* of set_pwm between which it may slip are steps of their own.            *)
(***************************************************************************)
EXTENDS HwmonLease, HandBack

CONSTANTS
    SharedReport,     \* no-mode headers of one chip that sends every channel
    Stores,           \* Stores[d]: the duty a register holds after d is written
    Tolerance,        \* constants::READBACK_TOLERANCE_PCT
    Attempts,         \* constants::DUTY_CORRECTION_ATTEMPTS
    ExitFloor,        \* StateCache::exit_floor_pct
    Callers           \* who calls the controller, "none" when nobody does

ASSUME ControlAssumption ==
    /\ SharedReport \subseteq NoModeHeaders
    /\ Stores \in [Duty -> Duty]
    /\ Tolerance \in Nat /\ Attempts \in Nat \ {0}
    /\ ExitFloor \in Duty /\ "none" \in Callers /\ "none" \notin Headers

VARIABLES
    ws,          \* write_state[h], with its DriftState
    resumed,     \* StateCache's resume flag
    exitRecord,  \* exit_record[h]: "none", "unknown", or the duty written
    exitMin,     \* exit_min[h]
    engineHeld,  \* engine_held: no-mode headers the engine wrote
    abandoned,   \* StateCache::abandoned_by_diagnostic
    suspended,   \* priming_suspended of the shared-report chip
    op           \* the call holding the controller's lock

controlVars == <<ws, resumed, exitRecord, exitMin, engineHeld, abandoned, suspended, op>>

(* HeaderWriteState with its DriftState; `entry` is whether the map has it. *)
NoState == [entry |-> FALSE, last |-> NoDuty, mode |-> FALSE, held |-> NoDuty,
            corrections |-> 0, notHolding |-> FALSE, episode |-> FALSE]

(* exit_record: no entry; Some(None), the duty is not known; Some(d). *)
NotWritten == -2

Steps == {"idle", "note", "take", "enable", "check", "write", "back", "done", "floor"}
Idle == [step |-> "idle", by |-> "none", h |-> "none", pct |-> 0, fix |-> FALSE,
         reconciles |-> FALSE, orig |-> Unknown, ok |-> FALSE, release |-> FALSE]

----------------------------------------------------------------------------
(* pwm.rs *)

exit_duty(last, floor) == IF last \notin Duty THEN 100 ELSE IF last < floor THEN floor ELSE last

is_full_speed_alias(last, d, mode) == last = 100 /\ d = 100 /\ mode = "full"

(* The register as sysfs reads it: nothing from a header that is dead, but *)
(* the shared-report driver answers from its own memory.                   *)
Readback(h) == IF h \in alive \cup SharedReport THEN duty[h] ELSE NoDuty

(* reconcile_decision: what the drift state becomes, and whether the duty  *)
(* is written again.                                                       *)
Near(a, b) == a - b <= Tolerance /\ b - a <= Tolerance

Rewrites(expected, read, w) ==
    /\ read # NoDuty /\ ~Near(read, expected)
    /\ ~w.notHolding /\ w.corrections < Attempts

DriftAfter(expected, read, w) ==
    IF read = NoDuty THEN w
    ELSE IF Near(read, expected)
         THEN [w EXCEPT !.corrections = IF w.episode THEN 0 ELSE @,
                        !.notHolding = @ /\ ~w.episode,
                        !.episode = FALSE]
    ELSE IF w.notHolding THEN w
    ELSE IF w.corrections >= Attempts THEN [w EXCEPT !.notHolding = TRUE]
    ELSE [w EXCEPT !.corrections = @ + 1, !.episode = TRUE]

(* A correction that did not reach the chip is not counted. *)
Uncounted(w) == [w EXCEPT !.corrections = IF @ > 0 THEN @ - 1 ELSE 0]

ExpectedDuty(w, commanded) == IF w.held # NoDuty THEN w.held ELSE commanded

(* Mutant of enable_reclaimed: only a duty that moved as well is believed. *)
reclaimed_with_duty(h, w) ==
    /\ h \in ModeHeaders /\ w.mode /\ EnableReads(h) /\ enable[h] # "manual"
    /\ duty[h] # w.held

(* The pwm_enable watchdog: firmware took the header back, unless it shows *)
(* mode 0 for the full speed it was last told.                             *)
enable_reclaimed(h, w) ==
    /\ h \in ModeHeaders /\ w.mode /\ EnableReads(h) /\ enable[h] # "manual"
    /\ ~is_full_speed_alias(w.last, duty[h], enable[h])

(* refuse_after_hand_back *)
refused(h) == h \in ModeHeaders /\ stopping

(* Mutant of ModesForgotten: a resume is noticed but nothing is retaken. *)
ModesKept(w) == w

ModesForgotten(w) == [h \in Headers |-> [w[h] EXCEPT !.mode = FALSE]]

----------------------------------------------------------------------------
(* Mutant of effective_pct: the latched exit floor is ignored. *)
effective_requested(h, pct) == pct

effective_pct(h, pct) == IF pct < exitMin[h] THEN exitMin[h] ELSE pct

(* set_pwm, up to its first write.  `states` is the write state it finds,  *)
(* `owner` the writer whose lease it carries; `release` marks the call     *)
(* that release_no_mode makes.                                             *)
set_pwm_from(states, owner, by, h, pct, release) ==
    LET reconciles  == owner # "verify"
        effective   == effective_pct(h, pct)
        noted       == IF resumed THEN ModesForgotten(states) ELSE states
        w           == [noted[h] EXCEPT !.entry = TRUE,
                                        !.mode = @ /\ ~enable_reclaimed(h, noted[h])]
        expected    == ExpectedDuty(w, effective)
        coalescible == reconciles /\ w.mode /\ w.last = effective
        fix         == coalescible /\ Rewrites(expected, Readback(h), w)
        call        == [Idle EXCEPT !.by = by, !.h = h, !.pct = effective,
                                    !.reconciles = reconciles, !.fix = fix,
                                    !.release = release]
    IN  /\ resumed' = FALSE
        /\ IF refused(h)
           THEN /\ ws' = noted
                /\ op' = [call EXCEPT !.step = "done"]
                /\ UNCHANGED <<record, recordStale, engineHeld>>
           ELSE /\ retry_record_if_failed
                /\ engineHeld' = IF reconciles /\ h \in NoModeHeaders
                                 THEN engineHeld \cup {h} ELSE engineHeld
                /\ ws' = [noted EXCEPT ![h] =
                             IF coalescible THEN DriftAfter(expected, Readback(h), w) ELSE w]
                /\ op' = [call EXCEPT
                             !.step = IF coalescible /\ ~fix THEN "done"
                                      ELSE IF h \in ModeHeaders /\ ~w.mode THEN "note"
                                      ELSE "check",
                             !.ok = coalescible /\ ~fix]
        /\ UNCHANGED <<sysfsVars, original, taken, driven, exitRecord, exitMin,
                       abandoned, suspended>>

set_pwm(by, h, pct, release) == set_pwm_from(ws, lease.owner, by, h, pct, release)

(* What the header was doing, and a second look at the shutdown flag. *)
OpNote ==
    /\ op.step = "note"
    /\ op' = IF refused(op.h) THEN [op EXCEPT !.step = "done"]
             ELSE [op EXCEPT !.step = "take", !.orig = from_reading(op.h)]
    /\ UNCHANGED <<sysfsVars, ledgerVars, driven, ws, resumed, exitRecord, exitMin,
                   engineHeld, abandoned, suspended>>

(* note_take, write-ahead: the ledger and its file before the hardware. *)
OpTake ==
    /\ op.step = "take"
    /\ note_take(op.h, op.orig)
    /\ op' = [op EXCEPT !.step = "enable", !.orig = Unknown]
    /\ UNCHANGED <<sysfsVars, driven, ws, resumed, exitRecord, exitMin, engineHeld,
                   abandoned, suspended>>

(* pwmN_enable := 1 *)
OpEnable ==
    /\ op.step = "enable"
    /\ IF op.h \in alive
       THEN /\ enable' = [enable EXCEPT ![op.h] = "manual"]
            /\ driven' = driven \cup {op.h}
            /\ op' = [op EXCEPT !.step = "check"]
       ELSE /\ op' = [op EXCEPT !.step = "done"]
            /\ UNCHANGED <<enable, driven>>
    /\ UNCHANGED <<duty, alive, ledgerVars, ws, resumed, exitRecord, exitMin,
                   engineHeld, abandoned, suspended>>

(* The last look at the shutdown flag before the duty is written. *)
OpCheck ==
    /\ op.step = "check"
    /\ exitRecord' = IF op.h \in NoModeHeaders
                     THEN [exitRecord EXCEPT ![op.h] = NoDuty] ELSE exitRecord
    /\ IF refused(op.h)
       THEN /\ op' = [op EXCEPT !.step = "done"]
            /\ ws' = IF op.fix THEN [ws EXCEPT ![op.h] = Uncounted(@)] ELSE ws
       ELSE /\ op' = [op EXCEPT !.step = "write"]
            /\ UNCHANGED ws
    /\ UNCHANGED <<sysfsVars, ledgerVars, driven, resumed, exitMin, engineHeld,
                   abandoned, suspended>>

(* prime_shared_report_siblings: the siblings whose register holds a zero  *)
(* nobody chose.  They are set to full speed BEFORE h is written, and once *)
(* more after it when the chip had been given up on.                       *)
Unprimed(h) ==
    {s \in SharedReport \ {h} :
        /\ h \in SharedReport /\ duty[s] = 0
        /\ ~(ws[s].last = 0 /\ exitMin[s] <= 0)}

(* The duty of op.h is written: the chip takes it ... *)
WriteLands(h, pct) ==
    /\ duty' = [s \in Headers |-> IF s = h THEN Stores[pct]
                                  ELSE IF s \in Unprimed(h) THEN Stores[100] ELSE duty[s]]
    /\ exitRecord' = [s \in Headers |->
          IF s = h /\ h \in NoModeHeaders THEN pct
          ELSE IF s \in Unprimed(h) THEN 100 ELSE exitRecord[s]]
    /\ suspended' = (suspended /\ h \notin SharedReport)
    /\ driven' = driven \cup {h}

(* ... or it fails, after the first sibling that needed priming failed.    *)
WriteFails(h) ==
    /\ suspended' = (suspended \/ Unprimed(h) # {})
    /\ IF suspended \/ Unprimed(h) = {}
       THEN UNCHANGED exitRecord
       ELSE \E s \in Unprimed(h) : exitRecord' = [exitRecord EXCEPT ![s] = NoDuty]
    /\ UNCHANGED <<duty, driven>>

(* The state set_pwm keeps of a write that landed. *)
StateAfterWrite(w, pct, fix, reconciles) ==
    [w EXCEPT !.entry = TRUE, !.last = pct, !.mode = TRUE, !.held = Stores[pct],
              !.corrections = IF reconciles /\ ~fix THEN 0 ELSE @,
              !.notHolding = @ /\ ~(reconciles /\ ~fix)]

OpWrite ==
    /\ op.step = "write"
    /\ IF op.h \in alive
       THEN /\ WriteLands(op.h, op.pct)
            /\ ws' = [ws EXCEPT ![op.h] =
                        StateAfterWrite(@, op.pct, op.fix, op.reconciles)]
            /\ op' = [op EXCEPT !.step = "done", !.ok = TRUE]
       ELSE /\ WriteFails(op.h)
            /\ ws' = [ws EXCEPT ![op.h] =
                        [(IF op.fix THEN Uncounted(@) ELSE @) EXCEPT !.mode = FALSE]]
            /\ op' = [op EXCEPT !.step = "done"]
    /\ UNCHANGED <<enable, alive, ledgerVars, resumed, exitMin, engineHeld, abandoned>>

----------------------------------------------------------------------------
(* HwmonPwmController::hand_back, in two steps: the hardware, then the     *)
(* ledger.  A failed one leaves the header taken.                          *)
HandBackHeader(by, h) ==
    /\ h \in taken
    /\ retry_record_if_failed
    /\ \E result \in hand_back(h, TakenAction(original, h)) :
          /\ PerformHandBack(h, result)
          /\ IF released(result)
             THEN /\ op' = [Idle EXCEPT !.step = "back", !.by = by, !.h = h]
                  /\ UNCHANGED ws
             ELSE /\ op' = [Idle EXCEPT !.step = "done", !.by = by, !.h = h]
                  /\ ws' = [ws EXCEPT ![h] = [NoState EXCEPT !.entry = ws[h].entry,
                         !.last = ws[h].last, !.mode = ws[h].mode, !.held = ws[h].held]]
    /\ UNCHANGED <<alive, original, taken, resumed, exitRecord, exitMin, engineHeld,
                   abandoned, suspended>>

OpBack ==
    /\ op.step = "back"
    /\ note_handed_back(op.h)
    /\ ws' = [ws EXCEPT ![op.h] = NoState]
    /\ op' = [op EXCEPT !.step = "done", !.ok = TRUE]
    /\ UNCHANGED <<sysfsVars, driven, resumed, exitRecord, exitMin, engineHeld,
                   abandoned, suspended>>

(* release_no_mode: raise it to the exit duty, or leave it; `released_ok`  *)
(* is the bookkeeping once that is done.                                   *)
ReleaseDuty(h) ==
    LET target == exit_duty(exitRecord[h], ExitFloor)
    IN  IF ExitFloor = 0 \/ target = exitRecord[h] THEN NoDuty ELSE target

Forget(h) ==
    /\ engineHeld' = engineHeld \ {h}
    /\ abandoned' = abandoned \ {h}
    /\ ws' = [ws EXCEPT ![h] = NoState]

(* Mutant of release_no_mode: a header at an unknown duty is left alone. *)
release_no_mode_if_known(by, h) ==
    IF ReleaseDuty(h) # NoDuty /\ exitRecord[h] \in Duty
    THEN set_pwm(by, h, ReleaseDuty(h), TRUE)
    ELSE /\ Forget(h)
         /\ UNCHANGED <<sysfsVars, ledgerVars, driven, resumed, exitRecord, exitMin,
                        suspended, op>>

release_no_mode(by, h) ==
    IF ReleaseDuty(h) # NoDuty
    THEN set_pwm(by, h, ReleaseDuty(h), TRUE)
    ELSE /\ Forget(h)
         /\ UNCHANGED <<sysfsVars, ledgerVars, driven, resumed, exitRecord, exitMin,
                        suspended, op>>

(* The caller takes the result of its call and the lock is free again. *)
OpReturn ==
    /\ op.step = "done"
    /\ op' = Idle
    /\ IF op.release /\ op.ok THEN Forget(op.h)
       ELSE UNCHANGED <<engineHeld, abandoned, ws>>
    /\ UNCHANGED <<sysfsVars, ledgerVars, driven, resumed, exitRecord, exitMin, suspended>>

----------------------------------------------------------------------------
(* apply_exit_floor: latch the minimum of every no-mode header, then raise *)
(* each one the daemon has written.                                        *)
LatchExitFloor ==
    /\ exitMin' = [h \in Headers |->
          IF h \notin NoModeHeaders THEN exitMin[h]
          ELSE IF exitRecord[h] = NotWritten THEN ExitFloor
          ELSE exit_duty(exitRecord[h], ExitFloor)]
    /\ op' = [Idle EXCEPT !.step = "floor", !.by = "stop"]
    /\ UNCHANGED <<sysfsVars, ledgerVars, driven, ws, resumed, exitRecord, engineHeld,
                   abandoned, suspended>>

RaiseToFloor(h) ==
    LET target == exit_duty(exitRecord[h], ExitFloor)
    IN  /\ op.step = "floor"
        /\ IF target = exitRecord[h]
           THEN UNCHANGED <<duty, driven, exitRecord, suspended, ws>>
           ELSE IF h \in alive
           THEN /\ WriteLands(h, target)
                /\ ws' = IF ~ws[h].entry THEN ws
                         ELSE [ws EXCEPT ![h].last = target, ![h].held = NoDuty]
           ELSE /\ suspended' = (suspended \/ Unprimed(h) # {})
                /\ \E s \in IF suspended \/ Unprimed(h) = {} THEN {h} ELSE Unprimed(h) :
                      exitRecord' = [exitRecord EXCEPT ![h] = NoDuty, ![s] = NoDuty]
                /\ ws' = [ws EXCEPT ![h].mode = FALSE]
                /\ UNCHANGED <<duty, driven>>
        /\ UNCHANGED <<enable, alive, ledgerVars, resumed, exitMin, engineHeld,
                       abandoned, op>>

FloorDone ==
    /\ op.step = "floor"
    /\ op' = Idle
    /\ UNCHANGED <<sysfsVars, ledgerVars, driven, ws, resumed, exitRecord, exitMin,
                   engineHeld, abandoned, suspended>>

ControlInit ==
    /\ LeaseInit /\ HandBackInit
    /\ ws = [h \in Headers |-> NoState]
    /\ resumed = FALSE
    /\ exitRecord = [h \in Headers |-> NotWritten]
    /\ exitMin = [h \in Headers |-> NoDuty]
    /\ engineHeld = {} /\ abandoned = {} /\ suspended = FALSE
    /\ op = Idle

WriteStates == [entry : BOOLEAN, last : Duty \cup {NoDuty}, mode : BOOLEAN,
                held : Duty \cup {NoDuty}, corrections : 0..Attempts,
                notHolding : BOOLEAN, episode : BOOLEAN]

Calls == [step : Steps, by : Callers, h : Headers \cup {"none"}, pct : Duty, fix : BOOLEAN,
          reconciles : BOOLEAN, orig : HandBacks \cup {Unknown}, ok : BOOLEAN,
          release : BOOLEAN]

ControlTypeOK ==
    /\ lease \in Leases /\ HandBackTypeOK
    /\ ws \in [Headers -> WriteStates]
    /\ resumed \in BOOLEAN /\ suspended \in BOOLEAN
    /\ exitRecord \in [Headers -> Duty \cup {NoDuty, NotWritten}]
    /\ exitMin \in [Headers -> Duty \cup {NoDuty}]
    /\ engineHeld \subseteq NoModeHeaders /\ abandoned \subseteq Headers
    /\ op \in Calls
    /\ op.step \in {"check", "write"} => op.h \in Headers
    /\ op.step \in {"note", "take", "enable", "back"} => op.h \in ModeHeaders
    /\ op.release => op.h \in NoModeHeaders
=============================================================================
