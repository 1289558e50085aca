--------------------------- MODULE FirmwareUpdate ---------------------------
(***************************************************************************)
(* An OpenFAN firmware update, from its start request to its end           *)
(* (openfan_maintenance/{mod,run,journal}.rs, api/handlers/                *)
(* openfan_firmware.rs), for a board that answers and for a silent one,    *)
(* with what happens around it: the poll loop that lends its port, rescans *)
(* that probe for boards, the engine's writes, cancels, panics, a stop or  *)
(* a crash of the daemon and its next start, and the board and its user.   *)
(*                                                                         *)
(* Every wait of the code has a limit; a limit may run out at any moment   *)
(* here.  A step that changes the record journals it before anything else  *)
(* happens, so record and journal change in one action; a journal that     *)
(* cannot be written is left out (the code logs it and goes on).  Rescans  *)
(* by the user, by the post-boot loop and by the recovery watch are one    *)
(* operation.  The user boots the board by hand and copies a file onto its *)
(* drive only when the daemon asks, or has left the board for it.          *)
(***************************************************************************)
EXTENDS PortLoan

CONSTANTS
    Kinds,         \* the boards updates are started for: "connected", "silent"
    Sectors,       \* the sectors an image covers
    MaxReturns,    \* OPENFAN_MAINT_MAX_BOOTLOADER_RETURNS
    MaxEvents      \* bound on stops, crashes, panics, hangs, restarts and rescans

ASSUME UpdateAssumption ==
    /\ Kinds \subseteq {"connected", "silent"}
    /\ Sectors \in Nat \ {0} /\ MaxReturns \in Nat \ {0} /\ MaxEvents \in Nat

VARIABLES
    flash,       \* "old" (as the run found it), "part", "daemon", "hand"
    exclusive,   \* the bootloader's drive takes no copy (PICOBOOT)
    daemon,      \* "up", "stopping", "down"
    controller,  \* a controller was adopted
    evidence,    \* a probe opened this board and had no answer
    gate,        \* openfan_rescanning: "free", "probe", "run"
    probe,       \* a rescan: "idle", "checked", "open", "lost", "found", "stale"
    writer,      \* the channel an engine write holds the controller lock for
    rec,         \* MaintenanceSlot::record
    journal,     \* the record on disk
    cancel,      \* MaintenanceSlot::cancel
    run,         \* the run's task; "idle" while MaintenanceSlot::alive is free
    started,     \* the runs started so far
    events

outsideVars == <<flash, exclusive, daemon, controller, evidence, gate, probe, writer>>
runVars == <<rec, journal, cancel, run, started>>
vars == <<boardVars, loanVars, link, claim, outsideVars, runVars, events>>

Event == events < MaxEvents /\ events' = events + 1

NoOutcome == "none"
Outcomes == {NoOutcome, "no_firmware_change", "needs_recovery",
             "firmware_copied_board_not_back", "board_back_control_not_restored",
             "completed_build_not_confirmed", "exact_build_verified",
             "back_on_previous_firmware"}

recovery_token(o) == o \in {"needs_recovery", "firmware_copied_board_not_back"}

(* Mutant of when_interrupted: a board that never answered is taken as back. *)
when_interrupted_hopeful(requested, answered) ==
    IF ~requested THEN "no_firmware_change" ELSE "board_back_control_not_restored"

when_interrupted(requested, answered) ==
    IF ~requested THEN "no_firmware_change"
    ELSE IF answered THEN "board_back_control_not_restored" ELSE "needs_recovery"

NoRecord == [run |-> NoRun, kind |-> "none", running |-> FALSE, cancellable |-> FALSE,
             cancelled |-> FALSE, interrupted |-> FALSE, requested |-> FALSE,
             answered |-> FALSE, changed |-> FALSE, verified |-> FALSE, outcome |-> NoOutcome]
NewRecord(id, k) == [NoRecord EXCEPT !.run = id, !.kind = k, !.running = TRUE,
                                     !.cancellable = TRUE]
NoEnd == [outcome |-> NoOutcome, interrupted |-> FALSE, cancelled |-> FALSE]

(* The Runner and its guards: the borrowed transport, the loan, the probe  *)
(* gate, what the ClaimGuard was told, and what the run remembers.  heard: *)
(* a handshake of this run was answered.                                   *)
NoTask == [pc |-> "idle", id |-> NoRun, kind |-> "none", job |-> FALSE, todo |-> {},
           port |-> "none", handle |-> FALSE, gate |-> FALSE,
           requested |-> FALSE, answered |-> FALSE, prior |-> NoRun,
           over |-> FALSE,
           heard |-> FALSE, sectors |-> 0, written |-> FALSE, returns |-> 0,
           waited |-> FALSE, ending |-> NoEnd, end |-> NoEnd]

finish_record(r, o, interrupted) ==
    [r EXCEPT !.running = FALSE, !.cancellable = FALSE, !.outcome = o,
              !.interrupted = @ \/ interrupted]

----------------------------------------------------------------------------
(* What a run's steps have in common. *)

stopping == daemon # "up"

Go(to) == run' = [run EXCEPT !.pc = to]
EndRun(o) == run' = [run EXCEPT !.pc = "finish", !.end = [NoEnd EXCEPT !.outcome = o]]
Cancelled == [NoEnd EXCEPT !.outcome = "no_firmware_change", !.cancelled = TRUE]
EndCancelled == run' = [run EXCEPT !.pc = "finish", !.end = Cancelled]
Interrupted ==
    run' = [run EXCEPT !.pc = "finish",
                !.end = [outcome |-> when_interrupted(rec.requested, rec.answered),
                         interrupted |-> TRUE, cancelled |-> FALSE]]

(* Runner::record: the record, then the journal. *)
Record(r) == rec' = r /\ journal' = r
RecordKept == UNCHANGED <<rec, journal>>

OutsideKept == UNCHANGED <<outsideVars, events, started, cancel>>
LinkKept == UNCHANGED <<link, claim>>
LoanKept == UNCHANGED loanVars
BoardKept == UNCHANGED boardVars

(* The node takes one open at a time (an exclusive flock). *)
OpenedElsewhere == "port" \in {passing, run.port} \/ probe \in {"open", "found"}
Opened == slot = "port" \/ OpenedElsewhere

(* The board restarts: every transport that was open on it is stale, its   *)
(* channels hold nothing the daemon knows, and the drive is free again.    *)
Leaves ==
    /\ board' = "empty" /\ talks' = FALSE /\ duty' = Unknown
    /\ slot' = Restarted(slot) /\ passing' = Restarted(passing)
    /\ exclusive' = FALSE /\ evidence' = FALSE
    /\ probe' = CASE probe = "found" -> "stale" [] probe = "open" -> "lost" [] OTHER -> probe
    /\ UNCHANGED <<loop, ask, accepts, waiting, back, settled>>

----------------------------------------------------------------------------
(* Starting. *)

no_controller_answers == ~controller \/ link = "reconnecting"

(* The handler takes the one task there may be, and checks the board as    *)
(* sysfs shows it, before it claims the controller.                        *)
StartRequest(k, j) ==
    /\ daemon = "up" /\ run = NoTask /\ started + 1 \in RunIds
    /\ board = "firmware"
    /\ IF k = "connected" THEN controller ELSE evidence /\ no_controller_answers
    /\ started' = started + 1 /\ cancel' = FALSE
    /\ run' = [NoTask EXCEPT !.pc = "claiming", !.id = started + 1, !.kind = k, !.job = j]
    /\ BoardKept /\ LoanKept /\ LinkKept /\ RecordKept /\ UNCHANGED <<outsideVars, events>>

(* The claim and the launch.  A silent board's claim is made under the     *)
(* adoption lock.  A stop that has closed registration leaves the record.  *)
Launch ==
    /\ run.pc = "claiming"
    /\ IF run.kind = "connected" THEN try_begin_openfan_maintenance(run.id)
       ELSE no_controller_answers /\ try_begin_silent_openfan_maintenance(run.id)
    /\ rec' = NewRecord(run.id, run.kind)
    /\ run' = [run EXCEPT !.pc = "prepare",
                   !.prior = IF claim.held = "recovery" THEN claim.run ELSE NoRun]
    /\ flash' = IF flash = "part" THEN "part" ELSE "old"
    /\ daemon = "up"
    /\ BoardKept /\ LoanKept
    /\ UNCHANGED <<link, journal, cancel, started, events, exclusive, daemon, controller,
                   evidence, gate, probe, writer>>

StartRefused ==
    /\ run.pc = "claiming" /\ run' = NoTask
    /\ rec' \in IF stopping THEN {rec, NewRecord(run.id, run.kind)} ELSE {rec}
    /\ BoardKept /\ LoanKept /\ LinkKept /\ OutsideKept /\ UNCHANGED journal

(* DELETE: decided under the record's lock. *)
request_cancel ==
    /\ daemon # "down" /\ rec.running /\ rec.cancellable /\ ~cancel
    /\ cancel' = TRUE
    /\ BoardKept /\ LoanKept /\ LinkKept /\ RecordKept
    /\ UNCHANGED <<outsideVars, run, started, events>>

----------------------------------------------------------------------------
(* Stages 1-3 for a board that answers. *)

Plain == BoardKept /\ LoanKept /\ LinkKept /\ OutsideKept

Prepare ==
    /\ run.pc = "prepare" /\ Record(rec)
    /\ \/ board = "firmware" /\ Go(IF run.kind = "silent" THEN "gate" ELSE "prepared")
       \/ EndRun("no_firmware_change")
    /\ Plain

(* Mutant of Prepared: the engine keeps writing while the run parks. *)
PreparedUnsuspended ==
    /\ run.pc = "prepared" /\ Record(rec) /\ LinkKept
    /\ IF cancel THEN EndCancelled
       ELSE IF stopping THEN Interrupted
       ELSE run' = [run EXCEPT !.pc = "park", !.todo = Channels]
    /\ BoardKept /\ LoanKept /\ OutsideKept

Prepared ==
    /\ run.pc = "prepared" /\ Record(rec) /\ UNCHANGED link
    /\ IF cancel THEN EndCancelled /\ UNCHANGED claim
       ELSE IF stopping THEN Interrupted /\ UNCHANGED claim
       ELSE /\ suspend_openfan_writes(run.id)
            /\ run' = [run EXCEPT !.pc = "park", !.todo = Channels]
    /\ BoardKept /\ LoanKept /\ OutsideKept

Park ==
    LET c == CHOOSE x \in run.todo : \A y \in run.todo : x <= y
    IN  /\ run.pc = "park" /\ run.todo # {} /\ writer = {}
        /\ \/ cancel /\ EndCancelled /\ UNCHANGED duty
           \/ /\ ~cancel /\ Answers(slot)
              /\ duty' = [duty EXCEPT ![c] = "full"]
              /\ run' = [run EXCEPT !.todo = @ \ {c}]
           \/ ~cancel /\ EndRun("no_firmware_change") /\ UNCHANGED duty
        /\ RecordKept /\ LoanKept /\ LinkKept /\ OutsideKept /\ UNCHANGED <<board, talks>>

(* Mutant of close_cancel_window: the cancel is read before the window is shut. *)
close_cancel_window_open == UNCHANGED rec

(* One decision with the request, under the record's lock; not journaled. *)
close_cancel_window == rec' = [rec EXCEPT !.cancellable = FALSE]

Parked ==
    /\ run.pc = "park" /\ run.todo = {} /\ close_cancel_window /\ UNCHANGED journal
    /\ IF cancel THEN EndCancelled ELSE IF stopping THEN Interrupted ELSE Go("enter")
    /\ Plain

(* request, up to its wait for the answer; a request that nobody has taken *)
(* yet fills the channel.                                                  *)
Borrow ==
    \/ loop # "none" /\ Request(run.kind = "silent") /\ Go("borrow")
    \/ (loop = "none" \/ ask # "none") /\ EndRun("no_firmware_change") /\ LoanKept

Enter ==
    /\ run.pc = "enter" /\ Record(rec) /\ Borrow
    /\ BoardKept /\ LinkKept /\ OutsideKept

Asked(r) == [r EXCEPT !.requested = TRUE]

(* Mutant of late_answer: a loan that lands as the wait ends goes unread. *)
late_answer_unread ==
    /\ run.pc = "borrow" /\ EndRun("no_firmware_change") /\ RecordKept
    /\ waiting' = FALSE /\ ask' = IF ask \in {"loan", "refused"} THEN "none" ELSE ask
    /\ IF ask = "loan" THEN back' = "nothing" /\ passing' = "none" ELSE UNCHANGED <<back, passing>>
    /\ UNCHANGED <<slot, loop, accepts, settled>> /\ BoardKept /\ LinkKept /\ OutsideKept

(* The answer, or the end of the wait: the channel is closed, then a loan  *)
(* sent before that is taken.  A connected board's run then journals that  *)
(* the bootloader is about to be asked for, before anything is sent.       *)
late_answer ==
    /\ run.pc = "borrow" /\ StopsListening(ask = "loan")
    /\ IF ask # "loan" THEN EndRun("no_firmware_change") /\ RecordKept
       ELSE IF run.kind = "silent"
       THEN run' = [run EXCEPT !.pc = "lent", !.port = passing, !.handle = TRUE] /\ RecordKept
       ELSE /\ Record(Asked(rec))
            /\ run' = [run EXCEPT !.pc = "jump", !.port = passing, !.handle = TRUE,
                                  !.requested = TRUE]
    /\ BoardKept /\ LinkKept /\ OutsideKept

(* >07 leaves the run its port; the 1200-baud signal closes it.  The board *)
(* leaves, or does not.                                                    *)
Jump ==
    /\ run.pc \in {"jump", "touch"} /\ RecordKept
    /\ \E leaves \in BOOLEAN :
        /\ run' = [run EXCEPT !.pc = "left",
                       !.port = IF run.pc = "touch" THEN "none"
                                ELSE IF leaves THEN Restarted(@) ELSE @]
        /\ IF leaves THEN run.port = "port" /\ board = "firmware" /\ Leaves
           ELSE BoardKept /\ LoanKept /\ UNCHANGED <<exclusive, evidence, probe>>
    /\ UNCHANGED <<link, claim, events, started, cancel, flash, daemon, controller, gate, writer>>

(* Whether the board left; a connected one still there gets the second     *)
(* signal, a silent one the user's buttons.                                *)
Left ==
    /\ run.pc = "left" /\ RecordKept
    /\ \/ board # "firmware" /\ Go("appear")
       \/ stopping /\ Interrupted
       \/ Go(IF run.kind = "silent" THEN "press" ELSE IF run.port # "none" THEN "touch" ELSE "answering")
    /\ Plain

Appear ==
    /\ run.pc = "appear" /\ RecordKept
    /\ \/ board = "boot" /\ Go(IF run.kind = "silent" THEN "window" ELSE "boot")
       \/ /\ board = "firmware" /\ run.kind = "connected"
          /\ run' = [run EXCEPT !.pc = "answering", !.port = "none"]
       \/ stopping /\ Interrupted
       \/ IF run.kind = "silent" THEN Go("press") ELSE EndRun("needs_recovery")
    /\ Plain

(* in_firmware: reopened and asked, and given back, or nothing is. *)
in_firmware ==
    /\ run.pc = "answering" /\ RecordKept
    /\ run' = [run EXCEPT !.pc = "giving", !.handle = FALSE]
    /\ \/ Answers("port") /\ ~Opened /\ GivesBack("port", "port")
       \/ GivesBack("nothing", "none")
    /\ BoardKept /\ LinkKept /\ OutsideKept

(* give_back's wait ends when the loop has acted, or is gone, or in time. *)
Given ==
    /\ run.pc = "giving" /\ EndRun("no_firmware_change")
    /\ RecordKept /\ Plain

----------------------------------------------------------------------------
(* Stages 1-3 for a silent board. *)

(* A probe that already runs is waited for, then the loop of an adopted    *)
(* controller is parked; no other is adopted while the run has its claim.  *)
Gate ==
    /\ run.pc = "gate" /\ Record(rec)
    /\ \/ /\ gate = "free" /\ gate' = "run"
          /\ run' = [run EXCEPT !.pc = IF controller THEN "lend" ELSE "lent", !.gate = TRUE]
       \/ /\ gate # "free" /\ UNCHANGED gate
          /\ \/ cancel /\ EndCancelled
             \/ ~cancel /\ EndRun("no_firmware_change")
             \/ ~cancel /\ stopping /\ Interrupted
    /\ BoardKept /\ LoanKept /\ LinkKept
    /\ UNCHANGED <<flash, exclusive, daemon, controller, evidence, probe, writer,
                   events, started, cancel>>

Lend ==
    /\ run.pc = "lend" /\ Borrow
    /\ RecordKept /\ BoardKept /\ LinkKept /\ OutsideKept

Lent ==
    /\ run.pc = "lent"
    /\ IF cancel THEN EndCancelled /\ RecordKept
       ELSE IF stopping THEN Interrupted /\ RecordKept
       ELSE Go("asking") /\ Record(rec)
    /\ Plain

(* hand_over: through the loan, or, with none, by adoption, which a stop,  *)
(* a controller or another's claim refuses.                                *)
Adopts(t) ==
    /\ controller' = TRUE /\ slot' = t /\ loop' = "starting"
    /\ UNCHANGED <<ask, accepts, waiting, passing, back, settled>>
AdoptRefused == stopping \/ controller

hand_over(t) ==
    \/ /\ run.handle /\ GivesBack("port", t) /\ UNCHANGED controller
       /\ run' = [run EXCEPT !.pc = "handing", !.handle = FALSE, !.port = "none", !.heard = TRUE]
    \/ /\ ~run.handle /\ ~AdoptRefused /\ Adopts(t)
       /\ run' = [run EXCEPT !.pc = "handed", !.port = "none", !.heard = TRUE]
    \/ /\ ~run.handle /\ AdoptRefused /\ LoanKept /\ UNCHANGED controller
       /\ run' = [run EXCEPT !.pc = "refused", !.port = "none", !.heard = TRUE]

Reopened == {"none"} \cup IF board = "firmware" /\ ~Opened THEN {"port"} ELSE {}

(* The borrowed port while it is this board's, and otherwise the node. *)
Ask ==
    /\ run.pc = "asking" /\ BoardKept /\ LinkKept
    /\ \E t \in CASE run.port = "port" -> {"port"}
                  [] run.port = "stale" -> {"stale"} \cup Reopened
                  [] OTHER -> Reopened :
        \/ Answers(t) /\ hand_over(t) /\ RecordKept
        \/ /\ t # "none" /\ ~Answers(t) /\ Record(Asked(rec)) /\ LoanKept /\ UNCHANGED controller
           /\ run' = [run EXCEPT !.pc = "touch", !.port = t, !.requested = TRUE]
        \/ /\ t = "none" /\ Record(rec) /\ LoanKept /\ UNCHANGED controller
           /\ run' = [run EXCEPT !.pc = "press", !.port = "none"]
    /\ UNCHANGED <<flash, exclusive, daemon, evidence, gate, probe, writer, events, started, cancel>>

(* wait_for_boot_button. *)
Press ==
    /\ run.pc = "press" /\ Record(Asked(rec))
    /\ run' = [run EXCEPT !.pc = "button", !.requested = TRUE]
    /\ Plain

(* One look at the port.  waited: an empty port has had the time a         *)
(* bootloader takes.  A cancel, or the time running out, ends the wait     *)
(* once the next look still finds no bootloader on its way.                *)
Button ==
    /\ run.pc = "button" /\ RecordKept
    /\ \/ board = "boot" /\ Go("window")
       \/ /\ board = "empty" /\ ~run.waited
          /\ \/ run' = [run EXCEPT !.waited = TRUE]
             \/ run.ending # NoEnd /\ run' = [run EXCEPT !.ending = NoEnd]
       \/ /\ board = "firmware" \/ (board = "empty" /\ run.waited)
          /\ IF run.ending # NoEnd THEN run' = [run EXCEPT !.pc = "finish", !.end = run.ending]
             ELSE run' = [run EXCEPT !.waited = board = "empty",
                              !.ending = IF cancel THEN Cancelled
                                         ELSE [NoEnd EXCEPT !.outcome = "no_firmware_change"]]
       \/ stopping /\ Interrupted
    /\ Plain

(* A cancel that arrives here is noted, and the run goes on. *)
Window ==
    /\ run.pc = "window" /\ close_cancel_window /\ UNCHANGED journal
    /\ Go("boot")
    /\ Plain

----------------------------------------------------------------------------
(* From the bootloader on: the daemon's own write. *)

Boot ==
    /\ run.pc = "boot" /\ Record(rec)
    /\ run' = [run EXCEPT !.pc = IF run.job THEN "identify" ELSE "file", !.port = "none"]
    /\ Plain

WriteKept ==
    BoardKept /\ LoanKept /\ LinkKept
    /\ UNCHANGED <<daemon, controller, evidence, gate, probe, writer, events, started, cancel>>

(* fall_back: the drive is given back, confirmed or not, and the run goes  *)
(* on to the copy by hand; stop_writing: as the daemon stops.              *)
fall_back == Go("file") /\ Record(rec) /\ exclusive' \in {FALSE, exclusive}
stop_writing == Interrupted /\ RecordKept /\ exclusive' \in {FALSE, exclusive}

Identify ==
    /\ run.pc = "identify" /\ UNCHANGED flash
    /\ \/ /\ board = "boot" /\ exclusive' = TRUE /\ Record(rec)
          /\ run' = [run EXCEPT !.pc = "erase"]
       \/ board = "boot" /\ exclusive' = TRUE /\ Go("file") /\ Record(rec)
       \/ fall_back
    /\ WriteKept

(* Journaled before the first erase. *)
Erase ==
    /\ run.pc = "erase" /\ UNCHANGED flash
    /\ \/ stopping /\ stop_writing
       \/ ~stopping /\ fall_back
       \/ /\ ~stopping /\ Record([rec EXCEPT !.changed = TRUE])
          /\ run' = [run EXCEPT !.pc = "sector"] /\ UNCHANGED exclusive
    /\ WriteKept

(* A session with the bootloader ends when the board restarts under it. *)
InSession == board = "boot" /\ exclusive

write_sector ==
    LET n == run.sectors + 1
    IN  /\ run.pc = "sector"
        /\ \/ stopping /\ run.sectors > 0 /\ stop_writing /\ UNCHANGED flash
           \/ (~stopping \/ run.sectors = 0) /\ fall_back
              /\ flash' \in {flash} \cup IF InSession THEN {"part"} ELSE {}
           \/ /\ (~stopping \/ run.sectors = 0) /\ InSession
              /\ flash' \in IF n = Sectors THEN {"daemon", "part"} ELSE {"part"}
              /\ run' = [run EXCEPT !.sectors = n, !.pc = IF n = Sectors THEN "verify" ELSE @]
              /\ RecordKept /\ UNCHANGED exclusive
        /\ WriteKept

(* Every sector read back. *)
verify_sector ==
    /\ run.pc = "verify" /\ UNCHANGED flash
    /\ \/ stopping /\ stop_writing
       \/ ~stopping /\ fall_back
       \/ /\ ~stopping /\ InSession /\ flash = "daemon" /\ Go("reboot") /\ UNCHANGED exclusive
          /\ Record([rec EXCEPT !.verified = TRUE])
    /\ WriteKept

Reboot ==
    /\ run.pc = "reboot" /\ UNCHANGED flash
    /\ \/ stopping /\ stop_writing /\ WriteKept
       \/ ~stopping /\ fall_back /\ WriteKept
       \/ ~stopping /\ InSession /\ Go("rebooted") /\ RecordKept /\ UNCHANGED exclusive /\ WriteKept
       \/ /\ ~stopping /\ InSession /\ Leaves /\ Go("rebooted") /\ RecordKept /\ LinkKept
          /\ UNCHANGED <<daemon, controller, gate, writer, events, started, cancel>>

Rebooted ==
    /\ run.pc = "rebooted" /\ UNCHANGED flash
    /\ \/ /\ board # "boot" /\ Record(rec) /\ UNCHANGED exclusive
          /\ run' = [run EXCEPT !.pc = "return", !.written = TRUE]
       \/ fall_back
       \/ stopping /\ Interrupted /\ RecordKept /\ UNCHANGED exclusive
    /\ WriteKept

----------------------------------------------------------------------------
(* The file, the board's return, and control. *)

File ==
    /\ run.pc = "file" /\ Record(rec)
    /\ \/ board # "boot" /\ Go("return")
       \/ EndRun("needs_recovery")
       \/ stopping /\ Interrupted
    /\ Plain

(* The board is waited for; one that goes back to its bootloader is given  *)
(* a file again, so many times.                                            *)
Return ==
    /\ run.pc = "return" /\ Record(rec)
    /\ \/ board = "firmware" /\ Go("check")
       \/ /\ board = "boot"
          /\ IF run.returns + 1 >= MaxReturns THEN EndRun("needs_recovery")
             ELSE run' = [run EXCEPT !.returns = @ + 1, !.pc = "file"]
       \/ EndRun("firmware_copied_board_not_back")
       \/ stopping /\ Interrupted
    /\ Plain

(* An answer is journaled before anything is done with it. *)
Check ==
    /\ run.pc = "check"
    /\ \/ /\ Answers("port") /\ ~Opened /\ Record([rec EXCEPT !.answered = TRUE])
          /\ run' = [run EXCEPT !.pc = "restore", !.port = "port", !.answered = TRUE,
                                !.heard = TRUE]
       \/ EndRun("firmware_copied_board_not_back") /\ Record(rec)
       \/ stopping /\ Interrupted /\ Record(rec)
    /\ Plain

(* The board's information is read, and the board handed over. *)
Restore ==
    /\ run.pc = "restore" /\ Record(rec)
    /\ \/ hand_over(run.port)
       \/ EndRun("firmware_copied_board_not_back") /\ LoanKept /\ UNCHANGED controller
    /\ BoardKept /\ LinkKept
    /\ UNCHANGED <<flash, exclusive, daemon, evidence, gate, probe, writer, events, started, cancel>>

(* give_back's wait: whether the loop took the port. *)
Handing ==
    /\ run.pc = "handing" /\ RecordKept
    /\ IF settled THEN Go("handed") ELSE Go("refused")
    /\ Plain

Refused ==
    /\ run.pc = "refused" /\ RecordKept
    /\ IF stopping THEN Interrupted ELSE EndRun("board_back_control_not_restored")
    /\ Plain

(* A board that turned out to answer before anything was asked of it is    *)
(* only handed over.  Otherwise the engine's writes must land again.       *)
Handed ==
    /\ run.pc = "handed" /\ RecordKept /\ UNCHANGED link
    /\ IF run.answered
       THEN /\ resume_openfan_writes(run.id)
            /\ run' = [run EXCEPT !.pc = "landing", !.over = TRUE, !.todo = Channels]
       ELSE /\ run' = [run EXCEPT !.pc = "finish", !.over = TRUE,
                           !.end = [NoEnd EXCEPT !.outcome = "no_firmware_change"]]
            /\ UNCHANGED claim
    /\ BoardKept /\ LoanKept /\ OutsideKept

(* Mutant of exact_build: a board that went back to its bootloader counts. *)
exact_build_returned == run.written

(* The daemon wrote it, read it back, and the board restarted from it. *)
exact_build == run.written /\ run.returns = 0

(* What the board reports may or may not match the firmware it ran before. *)
Landing ==
    /\ run.pc = "landing" /\ RecordKept
    /\ \/ /\ run.todo = {}
          /\ \/ EndRun(IF exact_build THEN "exact_build_verified"
                       ELSE "completed_build_not_confirmed")
             \/ EndRun(IF exact_build THEN "completed_build_not_confirmed"
                       ELSE "back_on_previous_firmware")
       \/ run.todo # {} /\ EndRun("board_back_control_not_restored")
       \/ run.todo # {} /\ stopping /\ Interrupted
    /\ Plain

----------------------------------------------------------------------------
(* conclude: the journal, then the port or nothing, then the claim. *)

Finish ==
    /\ run.pc = "finish"
    /\ Record([finish_record(rec, run.end.outcome, run.end.interrupted)
                 EXCEPT !.cancelled = run.end.cancelled])
    /\ IF run.handle THEN Go("giveback") ELSE Go("release")
    /\ Plain

(* Mutant of GiveBack: the loan is kept out. *)
GiveBackForgets ==
    /\ run.pc = "giveback" /\ LoanKept
    /\ run' = [run EXCEPT !.pc = "release", !.handle = FALSE, !.port = "none"]
    /\ RecordKept /\ BoardKept /\ LinkKept /\ OutsideKept

GiveBack ==
    /\ run.pc = "giveback" /\ GivesBack("nothing", "none")
    /\ run' = [run EXCEPT !.pc = "release", !.handle = FALSE, !.port = "none"]
    /\ RecordKept /\ BoardKept /\ LinkKept /\ OutsideKept

GateFreed == gate' = IF run.gate THEN "free" ELSE gate

Unchanged(o, over) == o = "no_firmware_change" /\ ~over

(* The ClaimGuard: what it replaced is put back when nothing changed. *)
ClaimEnds(o, over) ==
    IF Unchanged(o, over) /\ run.prior # NoRun
    THEN end_openfan_maintenance_restoring(run.id, run.prior)
    ELSE end_openfan_maintenance(run.id, recovery_token(o))

(* After give_back's wait, however it ended; the gate goes last. *)
Release ==
    /\ run.pc = "release" /\ ClaimEnds(run.end.outcome, run.over) /\ GateFreed
    /\ run' = NoTask
    /\ BoardKept /\ LoanKept /\ RecordKept
    /\ UNCHANGED <<link, flash, exclusive, daemon, controller, evidence, probe, writer,
                   events, started, cancel>>

(* A panic: the unwinding drops the claim, then the loan and the gate; the *)
(* supervisor records it.                                                  *)
Panic ==
    /\ run.pc \notin {"idle", "claiming", "unwound", "supervised"} /\ Event
    /\ run' = [run EXCEPT !.pc = "unwound", !.port = "none"]
    /\ ClaimEnds(when_interrupted(run.requested, run.answered), FALSE)
    /\ BoardKept /\ LoanKept /\ RecordKept
    /\ UNCHANGED <<link, outsideVars, cancel, started>>

(* A loan that goes unread, or a request, is dropped with its borrower. *)
Unwound ==
    /\ run.pc = "unwound" /\ GateFreed
    /\ run' = [run EXCEPT !.pc = "supervised", !.gate = FALSE, !.handle = FALSE]
    /\ IF waiting /\ ask # "loan" THEN StopsListening(FALSE)
       ELSE IF waiting
       THEN /\ waiting' = FALSE /\ ask' = "none" /\ back' = "nothing" /\ passing' = "none"
            /\ UNCHANGED <<slot, loop, accepts, settled>>
       ELSE IF run.handle THEN GivesBack("nothing", "none") ELSE LoanKept
    /\ BoardKept /\ LinkKept /\ RecordKept
    /\ UNCHANGED <<flash, exclusive, daemon, controller, evidence, probe, writer,
                   events, started, cancel>>

Supervised ==
    /\ run.pc = "supervised" /\ run' = NoTask
    /\ Record(IF rec.running
              THEN finish_record(rec, when_interrupted(rec.requested, rec.answered), FALSE)
              ELSE rec)
    /\ Plain

RunStep ==
    \/ Prepare \/ Prepared \/ Park \/ Parked \/ Enter \/ late_answer \/ Jump \/ Left \/ Appear
    \/ in_firmware \/ Given \/ Gate \/ Lend \/ Lent \/ Ask \/ Press \/ Button \/ Window
    \/ Boot \/ Identify \/ Erase \/ write_sector \/ verify_sector \/ Reboot \/ Rebooted
    \/ File \/ Return \/ Check \/ Restore \/ Handing \/ Refused \/ Handed \/ Landing
    \/ Finish \/ GiveBack \/ Release \/ Unwound \/ Supervised

----------------------------------------------------------------------------
(* The daemon's life. *)

AroundKept == UNCHANGED <<rec, journal, cancel, started, run>>

Memory ==
    /\ claim' = NoClaim /\ link' = "none"
    /\ slot' = "none" /\ loop' = "none" /\ ask' = "none" /\ accepts' = FALSE
    /\ waiting' = FALSE /\ passing' = "none" /\ back' = "none" /\ settled' = FALSE
    /\ controller' = FALSE /\ evidence' = FALSE /\ gate' = "free" /\ probe' = "idle"
    /\ writer' = {} /\ rec' = NoRecord /\ cancel' = FALSE /\ run' = NoTask

Stop ==
    /\ daemon = "up" /\ Event /\ daemon' = "stopping"
    /\ AroundKept /\ BoardKept /\ LoanKept /\ LinkKept
    /\ UNCHANGED <<flash, exclusive, controller, evidence, gate, probe, writer>>

LoopEnds ==
    /\ stopping /\ LoopStops
    /\ AroundKept /\ UNCHANGED <<outsideVars, events>>

(* The stop drains the run and the loop; a drain that times out, and a     *)
(* crash, take both where they are.  The bootloader keeps its drive.       *)
Dies ==
    /\ daemon # "down" /\ daemon' = "down" /\ Memory
    /\ \/ daemon = "stopping" /\ run = NoTask /\ loop = "none" /\ UNCHANGED events
       \/ Event
    /\ BoardKept /\ UNCHANGED <<flash, exclusive, journal, started>>

(* journal::recover: an unfinished run is finished, never resumed. *)
recover(r) ==
    IF r.running THEN finish_record(r, when_interrupted(r.requested, r.answered), TRUE) ELSE r

(* The boot search opens the board and asks it.  A recovery is taken up    *)
(* again while no controller answers and the board is on its port.         *)
Start ==
    LET found == Answers("port")
        r == recover(journal)
    IN  /\ daemon = "down" /\ daemon' = "up"
        /\ controller' = found /\ evidence' = (board = "firmware" /\ ~found)
        /\ slot' = IF found THEN "port" ELSE "none"
        /\ loop' = IF found THEN "starting" ELSE "none"
        /\ rec' = r /\ journal' = r
        /\ IF recovery_token(r.outcome) /\ ~found /\ board # "empty"
           THEN restore_openfan_recovery(r.run) ELSE UNCHANGED claim
        /\ BoardKept
        /\ UNCHANGED <<ask, accepts, waiting, passing, back, settled, link, flash, exclusive,
                       gate, probe, writer, cancel, run, started, events>>

----------------------------------------------------------------------------
(* Rescans. *)

ProbeKept ==
    /\ AroundKept /\ BoardKept /\ LinkKept
    /\ UNCHANGED <<flash, exclusive, daemon, writer>>

(* The early returns; nothing is held between them and the gate. *)
RescanChecks ==
    /\ probe = "idle" /\ daemon = "up" /\ ~openfan_maintenance_running /\ ~controller /\ Event
    /\ probe' = "checked"
    /\ ProbeKept /\ LoanKept /\ UNCHANGED <<controller, evidence, gate>>

(* The flag is taken, and every candidate opened. *)
ProbeOpens ==
    /\ probe = "checked"
    /\ IF gate = "free" /\ board = "firmware" /\ ~Opened THEN probe' = "open" /\ gate' = "probe"
       ELSE probe' = "idle" /\ UNCHANGED gate
    /\ ProbeKept /\ LoanKept /\ UNCHANGED <<controller, evidence, events>>

ProbeAsks ==
    /\ probe \in {"open", "lost"}
    /\ IF probe = "open" /\ Answers("port")
       THEN probe' = "found" /\ UNCHANGED <<gate, evidence>>
       ELSE probe' = "idle" /\ gate' = "free" /\ evidence' = (evidence \/ probe = "open")
    /\ ProbeKept /\ LoanKept /\ UNCHANGED <<controller, events>>

(* adopt_openfan_controller, and the release of the flag. *)
ProbeAdopts ==
    /\ probe \in {"found", "stale"} /\ probe' = "idle" /\ gate' = "free"
    /\ IF AdoptRefused \/ openfan_maintenance_running THEN LoanKept /\ UNCHANGED controller
       ELSE Adopts(IF probe = "found" THEN "port" ELSE "stale")
    /\ ProbeKept /\ UNCHANGED <<evidence, events>>

----------------------------------------------------------------------------
(* The engine, the loop, the board and its user. *)

(* A write reads the gate under the controller lock, which parking takes   *)
(* too, and keeps it until the command is out.                             *)
EngineLocks(c) ==
    /\ controller /\ writer = {} /\ ~openfan_writes_suspended /\ loop # "none"
    /\ writer' = {c}
    /\ AroundKept /\ BoardKept /\ LoanKept /\ LinkKept
    /\ UNCHANGED <<flash, exclusive, daemon, controller, evidence, gate, probe, events>>

EngineSends ==
    /\ writer # {} /\ writer' = {}
    /\ IF Answers(slot)
       THEN /\ duty' = [c \in Channels |-> IF c \in writer THEN "profile" ELSE duty[c]]
            /\ run' = IF run.pc = "landing" THEN [run EXCEPT !.todo = @ \ writer] ELSE run
       ELSE UNCHANGED <<duty, run>>
    /\ LoanKept /\ LinkKept /\ RecordKept
    /\ UNCHANGED <<board, talks, flash, exclusive, daemon, controller, evidence, gate, probe,
                   cancel, started, events>>

(* An attempt that opens the board and has no answer is evidence as well. *)
reconnect_via_survey(others) ==
    /\ Reconnect(others)
    /\ evidence' = (evidence \/ (board = "firmware" /\ ~talks /\ ~others))
    /\ UNCHANGED <<flash, exclusive, daemon, controller, gate, probe, writer>>

LoopStep ==
    /\ \/ (LoopStarts \/ Poll \/ LenderStep) /\ UNCHANGED outsideVars
       \/ \E others \in {TRUE, OpenedElsewhere} : reconnect_via_survey(others)
    /\ AroundKept /\ UNCHANGED events

(* The board comes up: in its firmware while it has one. *)
Settles ==
    /\ board = "empty"
    /\ \/ board' = "boot" /\ talks' = FALSE
       \/ flash # "part" /\ board' = "firmware" /\ talks' \in BOOLEAN
    /\ AroundKept /\ LoanKept /\ LinkKept /\ UNCHANGED <<duty, outsideVars, events>>

Restarts ==
    /\ Leaves /\ run' = [run EXCEPT !.port = Restarted(@)]
    /\ RecordKept /\ LinkKept /\ UNCHANGED <<cancel, started, daemon, controller, gate, writer>>

(* It resets, is unplugged, or its firmware stops answering. *)
Resets == board # "empty" /\ Event /\ Restarts /\ UNCHANGED flash
Hangs ==
    /\ board = "firmware" /\ talks /\ Event /\ talks' = FALSE
    /\ AroundKept /\ LoanKept /\ LinkKept /\ UNCHANGED <<board, duty, outsideVars>>

UserBoots ==
    /\ run.pc = "button" /\ board = "firmware" /\ Event /\ Restarts /\ UNCHANGED flash

LeftForUser ==
    \/ run.pc = "file"
    \/ run.pc = "idle" /\ claim.held = "recovery"
    \/ daemon = "down" /\ recovery_token(recover(journal).outcome)

UserCopies ==
    /\ LeftForUser /\ board = "boot" /\ ~exclusive /\ flash' = "hand"
    /\ Restarts /\ UNCHANGED events

----------------------------------------------------------------------------
Init ==
    /\ board = "firmware" /\ talks \in BOOLEAN /\ duty = Unknown
    /\ slot = "none" /\ loop = "none" /\ ask = "none" /\ accepts = FALSE /\ waiting = FALSE
    /\ passing = "none" /\ back = "none" /\ settled = FALSE
    /\ link = "none" /\ claim = NoClaim
    /\ flash = "old" /\ exclusive = FALSE /\ daemon = "down" /\ controller = FALSE
    /\ evidence = FALSE /\ gate = "free" /\ probe = "idle" /\ writer = {}
    /\ rec = NoRecord /\ journal = NoRecord /\ cancel = FALSE /\ run = NoTask
    /\ started = 0 /\ events = 0

Starting == (\E k \in Kinds, j \in BOOLEAN : StartRequest(k, j)) \/ Launch \/ StartRefused
Probing == RescanChecks \/ ProbeOpens \/ ProbeAsks \/ ProbeAdopts
Engine == EngineSends \/ \E c \in Channels : EngineLocks(c)
Life == Stop \/ LoopEnds \/ Dies \/ Start
BoardStep == Settles \/ Resets \/ Hangs \/ UserBoots \/ UserCopies

Next ==
    \/ RunStep \/ Panic \/ Starting \/ request_cancel \/ Life \/ Probing \/ Engine
    \/ LoopStep \/ BoardStep

Spec == Init /\ [][Next]_vars

(* The tokio runtime runs every task that can run, and each wait of a run  *)
(* has a limit; an engine write ends.                                      *)
Fairness ==
    /\ WF_vars(RunStep) /\ WF_vars(Launch \/ StartRefused) /\ WF_vars(EngineSends)
    /\ WF_vars(LenderStep /\ AroundKept /\ UNCHANGED <<outsideVars, events>>)

FairSpec == Spec /\ Fairness

----------------------------------------------------------------------------
(* Every variable keeps to its values. *)
Transports == {"none", "port", "stale", "lent", "empty"}
TypeOK ==
    /\ board \in {"firmware", "boot", "empty"} /\ talks \in BOOLEAN
    /\ duty \in [Channels -> {"full", "profile", "unknown"}]
    /\ {slot, passing, run.port} \subseteq Transports
    /\ loop \in {"none", "starting", "idle", "swapped", "lent"}
    /\ ask \in {"none", "queued", "taken", "loan", "refused"}
    /\ back \in {"none", "port", "nothing"}
    /\ {accepts, waiting, settled, exclusive, controller, evidence, cancel} \subseteq BOOLEAN
    /\ link \in Links /\ claim \in Claims
    /\ flash \in {"old", "part", "daemon", "hand"}
    /\ daemon \in {"up", "stopping", "down"} /\ gate \in {"free", "probe", "run"}
    /\ probe \in {"idle", "checked", "open", "lost", "found", "stale"}
    /\ writer \subseteq Channels /\ {rec.outcome, journal.outcome} \subseteq Outcomes
    /\ started \in RunIds \cup {NoRun} /\ events \in 0 .. MaxEvents
    /\ run.returns \in 0 .. MaxReturns - 1 /\ run.sectors \in 0 .. Sectors

(* From the moment a channel is parked until the board leaves, no engine   *)
(* write lowers it, one that began before the writes were suspended        *)
(* included.                                                               *)
ParkedIsKept ==
    run.pc \in {"park", "enter", "borrow", "jump", "left", "touch"} /\ run.kind = "connected" =>
        \A c \in Channels \ run.todo : duty[c] # "profile"

(* A cancel answered "requested" ends the update of a board that answers   *)
(* before its bootloader is asked for.                                     *)
CancelStops == cancel /\ rec.kind = "connected" => ~rec.requested

(* The loop is told there is no port to take back only by a run that asked *)
(* the board to leave, by one for a silent board, or by a panic: a wait    *)
(* that runs out while the loop answers loses no port.                     *)
LoanNotWasted ==
    [][back # "nothing" /\ back' = "nothing" =>
         run.requested \/ run.kind = "silent" \/ run.pc = "unwound"]_vars

(* While a silent board's update holds the board, no probe opens it. *)
NoProbeWhileRunHolds == run.gate => probe \notin {"open", "found"}

(* "exact build verified" is said of the bytes the daemon wrote. *)
ExactIsExact == rec.outcome = "exact_build_verified" /\ rec.run = started => flash = "daemon"

(* What the update promises of the board, to any restart of the daemon. *)
Mode ==
    IF daemon = "down" THEN "down"
    ELSE IF claim.held = "none" THEN "control"
    ELSE IF claim.held = "recovery" THEN "recovery"
    ELSE IF run.heard THEN "answered" ELSE IF run.requested THEN "away" ELSE "held"

Board == INSTANCE Custody WITH
    mode <- Mode,
    prior <- IF claim.held = "running" /\ run.prior # NoRun THEN "recovery" ELSE "control",
    disk <- IF recovery_token(recover(journal).outcome) THEN "recovery" ELSE "clean",
    flash <- IF flash = "old" THEN "asFound" ELSE "changed",
    answers <- Answers("port") \/ loop = "starting" \/ back = "port" \/ probe \in {"found", "stale"},
    there <- board # "empty"
KeepsCustody == Board!Spec

(* Every update ends, and the loop gets its port, or the news that there   *)
(* is none, back, whatever the board, a panic or a stop does.              *)
RunEnds == []<>(run.pc = "idle" /\ loop # "lent")
=============================================================================
