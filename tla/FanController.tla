---------------------------- MODULE FanController ----------------------------
(***************************************************************************)
(* The OpenFan controller (serial/controller.rs, `FanController`), the     *)
(* serial slot it writes through, and the half of the StateCache it shares *)
(* with the poll loop: the write generation and the published duties.      *)
(*                                                                         *)
(* `op` is the set_pwm that holds the controller's lock.  A reconnect, a   *)
(* resume and a port loan take other locks, so they fall between its       *)
(* steps: observing the generation, and the serial exchange.               *)
(***************************************************************************)
EXTENDS Integers

CONSTANTS
    NUM_CHANNELS,
    ExitFloor,       \* StateCache::exit_floor_pct
    PowerOn          \* the duty the board falls back to when it loses power

Channels == 0..(NUM_CHANNELS - 1)
Duty == 0..100
NoDuty == -1         \* an Option<u8> that is None

ASSUME FanAssumption ==
    NUM_CHANNELS \in Nat \ {0} /\ ExitFloor \in Duty /\ PowerOn \in Duty

VARIABLES
    port,        \* the transport slot: the board's port, that port once it stopped
                 \* working, DisconnectedTransport or MaintenanceTransport
    board,       \* board[c]: the duty the device drives channel c at
    generation,  \* StateCache::openfan_write_generation
    clearing,    \* invalidations that moved the generation and have yet to clear
    shown,       \* OpenFanState::last_commanded_pwm
    seen,        \* FanController::last_write_generation
    ctl,         \* FanController::channels
    op

deviceVars == <<port, board>>
cacheVars == <<generation, clearing, shown>>
fanVars == <<deviceVars, cacheVars, seen, ctl, op>>

NoControl == [last |-> NoDuty, timed |-> FALSE, written |-> FALSE,
              before |-> NoDuty, exitMin |-> NoDuty]
Idle == [step |-> "idle", by |-> "none", ch |-> 0, pct |-> 0, ok |-> FALSE]

OrElse(a, b) == IF a # NoDuty THEN a ELSE b
AtLeast(a, b) == IF a < b THEN b ELSE a

(* pwm.rs *)
exit_duty(last, floor) == IF last = NoDuty THEN 100 ELSE AtLeast(last, floor)

----------------------------------------------------------------------------
(* What the controller knows, read without observing the generation. *)

last_commanded_pct(c) == IF generation # seen THEN NoDuty ELSE ctl[c].last

duty_before_loss(c) ==
    IF generation # seen THEN OrElse(ctl[c].last, ctl[c].before) ELSE ctl[c].before

last_known_duty(c) == OrElse(last_commanded_pct(c), duty_before_loss(c))

(* observe_write_generation: every duty is lost, remembered, and its stop  *)
(* clock reset.                                                            *)
Observed ==
    IF generation = seen THEN ctl
    ELSE [c \in Channels |->
            [ctl[c] EXCEPT !.before = OrElse(ctl[c].last, @), !.last = NoDuty,
                           !.timed = FALSE]]

----------------------------------------------------------------------------
(* Mutant of set_pwm: the exit minimum is not applied. *)
set_pwm_after_floor(by, c, pct) ==
    LET noted == Observed
    IN  /\ op = Idle
        /\ seen' = generation
        /\ IF noted[c].last = pct
           THEN /\ ctl' = noted
                /\ op' = [step |-> "done", by |-> by, ch |-> c, pct |-> pct, ok |-> TRUE]
           ELSE /\ ctl' = [noted EXCEPT ![c].written = TRUE]
                /\ op' = [step |-> "send", by |-> by, ch |-> c, pct |-> pct, ok |-> TRUE]
        /\ UNCHANGED <<deviceVars, cacheVars>>

(* set_pwm up to the wire.  How long a stop has been timed is not kept: a  *)
(* clock that runs has run past STOP_TIMEOUT and refuses another 0 %.      *)
set_pwm(by, c, pct) ==
    LET noted   == Observed
        target  == AtLeast(pct, noted[c].exitMin)
        refused == target = 0 /\ noted[c].timed
        call    == [step |-> "done", by |-> by, ch |-> c, pct |-> target, ok |-> TRUE]
    IN  /\ op = Idle
        /\ seen' = generation
        /\ IF noted[c].last = target
           THEN ctl' = noted /\ op' = call
           ELSE IF refused
           THEN ctl' = noted /\ op' = [call EXCEPT !.ok = FALSE]
           ELSE /\ ctl' = [noted EXCEPT ![c].written = TRUE]
                /\ op' = [call EXCEPT !.step = "send"]
        /\ UNCHANGED <<deviceVars, cacheVars>>

(* set_openfan_commanded_pwm: nothing is published across an invalidation. *)
set_openfan_commanded_pwm(c, pct) ==
    IF seen = generation THEN [shown EXCEPT ![c] = pct] ELSE shown

(* A duty that landed is kept; one that may or may not have is forgotten,  *)
(* and so is the duty from before unless it was the very duty being put    *)
(* back.                                                                   *)
Confirmed(control, pct) ==
    [control EXCEPT !.last = pct, !.before = NoDuty, !.timed = (pct = 0)]
Unconfirmed(control, pct) ==
    [control EXCEPT !.last = NoDuty, !.timed = FALSE,
                    !.before = IF @ = pct THEN @ ELSE NoDuty]

(* The rest of set_pwm: the serial exchange and what it leaves behind.     *)
(* Nothing the bookkeeping reads is written by the exchange, and the other *)
(* way round, so the two are one step.                                     *)
Exchange ==
    /\ op.step = "send" /\ port = "board"
    /\ board' = [board EXCEPT ![op.ch] = op.pct]
    /\ ctl' = [ctl EXCEPT ![op.ch] = Confirmed(@, op.pct)]
    /\ shown' = set_openfan_commanded_pwm(op.ch, op.pct)
    /\ op' = [op EXCEPT !.step = "done"]
    /\ UNCHANGED <<port, generation, clearing, seen>>

(* The exchange fails; a failed exchange with the board may have landed    *)
(* all the same.                                                           *)
ExchangeFails(lands) ==
    /\ op.step = "send"
    /\ board' = IF lands THEN [board EXCEPT ![op.ch] = op.pct] ELSE board
    /\ ctl' = [ctl EXCEPT ![op.ch] = Unconfirmed(@, op.pct)]
    /\ shown' = [shown EXCEPT ![op.ch] = NoDuty]
    /\ op' = [op EXCEPT !.step = "done", !.ok = FALSE]
    /\ UNCHANGED <<port, generation, clearing, seen>>

(* The call has returned to its caller, whose next step lets the lock go. *)
Returned(by) == op.step = "done" /\ op.by = by

(* apply_exit_floor, up to its writes: every channel's minimum is latched. *)
LatchExitFloor ==
    LET noted == Observed
    IN  /\ op = Idle
        /\ seen' = generation
        /\ ctl' = [c \in Channels |->
             [noted[c] EXCEPT !.exitMin =
                 IF noted[c].written
                 THEN exit_duty(OrElse(noted[c].last, noted[c].before), ExitFloor)
                 ELSE ExitFloor]]
        /\ UNCHANGED <<deviceVars, cacheVars, op>>

----------------------------------------------------------------------------
(* invalidate_openfan_writes: the generation moves first, and the          *)
(* published duties are cleared under the cache's guard after it.          *)
InvalidateBegin(by) ==
    /\ generation' = generation + 1
    /\ clearing' = clearing \cup {by}
    /\ UNCHANGED shown

InvalidateEnd(by) ==
    /\ by \in clearing
    /\ clearing' = clearing \ {by}
    /\ shown' = [c \in Channels |-> NoDuty]
    /\ UNCHANGED <<generation, deviceVars, seen, ctl, op>>

FanInit ==
    /\ port = "board" /\ board = [c \in Channels |-> PowerOn]
    /\ generation = 0 /\ clearing = {}
    /\ shown = [c \in Channels |-> NoDuty]
    /\ seen = 0 /\ ctl = [c \in Channels |-> NoControl]
    /\ op = Idle

Control == [last : Duty \cup {NoDuty}, timed : BOOLEAN, written : BOOLEAN,
            before : Duty \cup {NoDuty}, exitMin : Duty \cup {NoDuty}]

FanTypeOK ==
    /\ port \in {"board", "dead", "none", "lent"} /\ board \in [Channels -> Duty]
    /\ generation \in Nat /\ clearing \subseteq {"poll", "resume", "update"}
    /\ shown \in [Channels -> Duty \cup {NoDuty}]
    /\ seen \in 0..generation /\ ctl \in [Channels -> Control]
    /\ op \in [step : {"idle", "send", "done"},
               by : {"none", "engine", "calibration", "update", "stop"},
               ch : Channels, pct : Duty, ok : BOOLEAN]
=============================================================================
