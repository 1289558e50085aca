------------------------- MODULE FirmwareUpdateProofs -------------------------
(***************************************************************************)
(* What is proved of FirmwareUpdate, for every set of run ids, channels    *)
(* and kinds of board and every bound: its types; that a parked channel    *)
(* stays parked until the board leaves; that no update goes on past the    *)
(* cancel it accepted; that "exact_build_verified" names the daemon's own  *)
(* bytes; that the loop is told to take nothing back only when a port may  *)
(* be gone; and that an update implements Custody.  They rest on           *)
(* UpdateInv, which ties the claim, the board's flash, the record and its  *)
(* journal to the place the run's task is at.                              *)
(***************************************************************************)
EXTENDS FirmwareUpdate, TLAPS

(* The places a run's task may be at, by what it has asked of the board. *)
Early == {"prepare", "prepared", "park", "enter", "borrow", "gate", "lend", "lent", "asking"}
Going == {"jump", "touch", "left", "appear", "answering", "giving", "button", "window", "boot",
          "identify", "erase"}
Writing == {"sector", "verify", "reboot", "rebooted", "file", "return", "check"}
Back == {"restore", "handing", "refused", "handed", "landing"}
Ending == {"finish", "giveback", "release"}
Claimed == Early \cup Going \cup Writing \cup Back \cup Ending \cup {"press"}
Unwinding == {"unwound", "supervised"}
Places == Claimed \cup Unwinding \cup {"idle", "claiming"}

BoardKinds == {"none", "connected", "silent"}
Runs == RunIds \cup {NoRun}
Ends == [outcome : Outcomes, interrupted : BOOLEAN, cancelled : BOOLEAN]
Records == [run : Runs, kind : BoardKinds, running : BOOLEAN, cancellable : BOOLEAN,
            cancelled : BOOLEAN, interrupted : BOOLEAN, requested : BOOLEAN,
            answered : BOOLEAN, changed : BOOLEAN, verified : BOOLEAN, outcome : Outcomes]
Unmoved == [NoEnd EXCEPT !.outcome = "no_firmware_change"]
Tasks == [pc : Places, id : Runs, kind : BoardKinds, job : BOOLEAN, todo : SUBSET Channels,
          port : Transports, handle : BOOLEAN, gate : BOOLEAN,
          requested : BOOLEAN, answered : BOOLEAN, prior : Runs, over : BOOLEAN,
          heard : BOOLEAN, sectors : 0 .. Sectors, written : BOOLEAN,
          returns : 0 .. MaxReturns - 1, waited : BOOLEAN,
          ending : {NoEnd, Cancelled, Unmoved}, end : Ends]

(* No sector is counted before the first is written. *)
Before == Early \cup Going \cup {"press", "idle", "claiming"}
SectorInv ==
    /\ run.pc \in Before => run.sectors = 0
    /\ run.pc = "sector" => run.sectors < Sectors

Types ==
    /\ board \in {"firmware", "boot", "empty"} /\ talks \in BOOLEAN
    /\ duty \in [Channels -> {"full", "profile", "unknown"}]
    /\ slot \in Transports /\ passing \in Transports
    /\ loop \in {"none", "starting", "idle", "swapped", "lent"}
    /\ ask \in {"none", "queued", "taken", "loan", "refused"}
    /\ back \in {"none", "port", "nothing"}
    /\ accepts \in BOOLEAN /\ waiting \in BOOLEAN /\ settled \in BOOLEAN
    /\ link \in Links /\ claim \in Claims
    /\ flash \in {"old", "part", "daemon", "hand"} /\ exclusive \in BOOLEAN
    /\ daemon \in {"up", "stopping", "down"} /\ controller \in BOOLEAN /\ evidence \in BOOLEAN
    /\ gate \in {"free", "probe", "run"}
    /\ probe \in {"idle", "checked", "open", "lost", "found", "stale"}
    /\ writer \subseteq Channels
    /\ rec \in Records /\ journal \in Records /\ cancel \in BOOLEAN
    /\ run \in Tasks /\ SectorInv /\ started \in Runs /\ events \in 0 .. MaxEvents

(* The claim is a run's exactly while its task is between Prepare and      *)
(* Release; a daemon that is down holds nothing.                           *)
ClaimInv ==
    /\ claim.held = "running" <=> run.pc \in Claimed
    /\ run.pc \in Claimed => claim.run = run.id
    /\ daemon = "down" => /\ run.pc = "idle" /\ claim = NoClaim /\ rec = NoRecord /\ ~cancel
                          /\ loop = "none" /\ back = "none" /\ probe = "idle"

(* What a run has done by its place. *)
Fresh == ~run.requested /\ ~run.heard
TaskInv ==
    /\ run.pc \in Early \cup {"idle", "claiming"} => Fresh
    /\ run.pc \in Going \cup Writing => run.requested /\ ~run.heard
    /\ run.pc = "press" => ~run.heard
    /\ run.pc \in Back => run.heard
    /\ run.pc \in {"restore", "landing"} => run.answered
    /\ run.answered => run.requested /\ run.heard
    /\ run.heard /\ run.requested => run.answered
    /\ run.over => run.heard
    /\ run.written => run.requested /\
                      run.pc \notin Going \cup
                                   {"press", "sector", "verify", "reboot", "rebooted"}

KindOK(p, k) ==
    /\ p \in {"prepared", "park", "enter", "jump", "answering", "giving"} => k = "connected"
    /\ p \in {"gate", "lend", "lent", "asking", "press", "button", "window"} => k = "silent"

(* Which places a board that answers and a silent one pass through, and     *)
(* when the task holds a port.                                             *)
PlaceInv ==
    /\ run.pc # "idle" => run.kind # "none"
    /\ KindOK(run.pc, run.kind)
    /\ run.handle /\ run.kind = "connected" => run.requested
    /\ run.pc = "giveback" => run.handle

(* A half-written board runs no firmware.                                  *)
BoardInv == board = "firmware" => flash # "part"

(* What is on the flash by the task's place and what it has written.       *)
FlashInv ==
    /\ run.pc = "claiming" => flash # "part"
    /\ run.pc \in Claimed /\ ~run.requested => flash = "old"
    /\ run.pc \in Going \cup {"press"} => flash = "old"
    /\ run.pc \in {"reboot", "rebooted"} => flash = "daemon"
    /\ run.written /\ run.returns = 0 => flash = "daemon"
    /\ run.written /\ run.pc = "file" => run.returns > 0

(* How a run may end, by what it has asked of the board and heard from it. *)
EndOK(o, asked, heard, f) ==
    /\ ~asked /\ ~heard => o = "no_firmware_change"
    /\ ~asked /\ heard => o \in {"no_firmware_change", "board_back_control_not_restored"}
    /\ asked /\ ~heard => recovery_token(o) \/ (o = "no_firmware_change" /\ f = "old")
    /\ asked /\ heard => o # "no_firmware_change"
    /\ o = "exact_build_verified" => asked /\ heard /\ f = "daemon"

EndInv ==
    run.pc \in Ending => EndOK(run.end.outcome, run.requested, run.heard, flash)

Same(r, s) == /\ r.run = s.run /\ r.running = s.running /\ r.requested = s.requested
              /\ r.answered = s.answered /\ r.outcome = s.outcome
WellFormed(r, n) ==
    /\ r.running => r.outcome = NoOutcome
    /\ r.run = NoRun => ~r.running /\ r.outcome = NoOutcome
    /\ r.run <= n

(* The record says what the task has asked and heard, and the journal says *)
(* the record, but for a run that dies before its first entry.             *)
RecordInv ==
    /\ WellFormed(rec, started) /\ WellFormed(journal, started)
    /\ run.pc = "claiming" \/ run.pc \in Claimed => run.id = started
    /\ run.pc \notin {"idle"} => started # NoRun
    /\ run.pc = "claiming" => rec.run < started
    /\ run.pc \in {"claiming", "prepare"} => journal.run < started
    /\ run.pc \in Claimed \cup Unwinding =>
          /\ rec.run = started /\ rec.kind = run.kind
          /\ rec.requested = run.requested /\ rec.answered = run.answered
    /\ run.pc \in Claimed => (rec.running <=> run.pc \notin {"giveback", "release"})
    /\ run.pc \in {"giveback", "release"} => rec.outcome = run.end.outcome
    /\ run.pc \in Claimed \ {"prepare"} => Same(journal, rec)
    /\ run.pc \in Unwinding =>
          \/ Same(journal, rec)
          \/ rec.running /\ ~rec.requested /\ flash = "old" /\ journal.run < started

(* The window to cancel closes before the loop is asked for the port.      *)
CancelInv ==
    /\ rec.kind = "connected" /\ rec.requested => ~rec.cancellable /\ ~cancel
    /\ run.kind = "connected" /\ run.pc \in {"enter", "borrow"} => ~rec.cancellable /\ ~cancel
    /\ \A r \in {rec, journal} : r.cancellable => r.running

(* From parking until the board leaves, the engine is suspended and an     *)
(* engine write holds only a channel that is still to be parked.           *)
ParkInv ==
    run.pc \in {"park", "enter", "borrow", "jump", "left", "touch"} /\ run.kind = "connected" =>
        /\ claim.suspended /\ writer \subseteq run.todo
        /\ \A c \in Channels \ run.todo : duty[c] # "profile"

(* A verified end of the latest run names the daemon's bytes.              *)
ExactInv == \A r \in {rec, journal} :
    r.outcome = "exact_build_verified" /\ r.run = started =>
        flash = "daemon" /\ claim.held # "recovery"

UpdateInv ==
    /\ Types /\ ClaimInv /\ TaskInv /\ PlaceInv /\ BoardInv /\ FlashInv
    /\ EndInv /\ RecordInv /\ CancelInv /\ ParkInv /\ ExactInv

USE UpdateAssumption, RunIdsAssumption

----------------------------------------------------------------------------
(* What an assignment to the task leaves of it. *)

CoreKept ==
    /\ run'.id = run.id /\ run'.kind = run.kind /\ run'.prior = run.prior
    /\ run'.requested = run.requested /\ run'.answered = run.answered
    /\ run'.heard = run.heard /\ run'.over = run.over
    /\ run'.written = run.written /\ run'.returns = run.returns
RestKept ==
    /\ run'.todo = run.todo /\ run'.handle = run.handle /\ run'.sectors = run.sectors

(* Go changes the place. *)
LEMMA GoFields ==
    ASSUME run \in Tasks, NEW to \in Places, Go(to)
    PROVE  /\ run' \in Tasks /\ run'.pc = to /\ CoreKept /\ RestKept
           /\ run'.end = run.end /\ run'.port = run.port
  BY SMTT(20) DEF Go, Tasks, CoreKept, RestKept

LEMMA NoEndType == NoEnd \in Ends /\ Cancelled \in Ends /\ Unmoved \in Ends
  BY DEF NoEnd, Cancelled, Unmoved, Ends, Outcomes, NoOutcome

(* EndRun, EndCancelled and Interrupted end it. *)
LEMMA EndFields ==
    ASSUME run \in Tasks, NEW e \in Ends, run' = [run EXCEPT !.pc = "finish", !.end = e]
    PROVE  /\ run' \in Tasks /\ run'.pc = "finish" /\ CoreKept /\ RestKept
           /\ run'.end = e
  <1>1. "finish" \in Places
    BY DEF Places, Claimed, Ending
  <1>2. run' \in Tasks
    BY <1>1, Zenon DEF Tasks
  <1>3. run'.pc = "finish" /\ run'.end = e
    BY SMTT(20) DEF Tasks
  <1> QED  BY <1>2, <1>3, SMTT(20) DEF Tasks, CoreKept, RestKept

LEMMA EndRunFields ==
    ASSUME run \in Tasks, NEW o \in Outcomes, EndRun(o)
    PROVE  /\ run' \in Tasks /\ run'.pc = "finish" /\ CoreKept /\ RestKept
           /\ run'.end.outcome = o
  <1> DEFINE e == [NoEnd EXCEPT !.outcome = o]
  <1>1. e \in Ends /\ e.outcome = o
    BY DEF NoEnd, Ends
  <1>2. run' = [run EXCEPT !.pc = "finish", !.end = e]
    BY DEF EndRun
  <1> HIDE DEF e
  <1> QED  BY <1>1, <1>2, EndFields

LEMMA EndCancelledFields ==
    ASSUME run \in Tasks, EndCancelled
    PROVE  /\ run' \in Tasks /\ run'.pc = "finish" /\ CoreKept /\ RestKept
           /\ run'.end.outcome = "no_firmware_change"
  <1>1. Cancelled.outcome = "no_firmware_change"
    BY DEF Cancelled, NoEnd
  <1> QED  BY <1>1, NoEndType, EndFields DEF EndCancelled

LEMMA InterruptedFields ==
    ASSUME run \in Tasks, rec \in Records, Interrupted
    PROVE  /\ run' \in Tasks /\ run'.pc = "finish" /\ CoreKept /\ RestKept
           /\ run'.end.outcome = when_interrupted(rec.requested, rec.answered)
  <1> DEFINE w == when_interrupted(rec.requested, rec.answered)
             e == [outcome |-> w, interrupted |-> TRUE, cancelled |-> FALSE]
  <1>1. w \in Outcomes
    BY DEF when_interrupted, Outcomes
  <1> HIDE DEF w
  <1>2. e \in Ends /\ e.outcome = w
    BY <1>1 DEF Ends
  <1>3. run' = [run EXCEPT !.pc = "finish", !.end = e]
    BY DEF Interrupted, w
  <1> HIDE DEF e
  <1> QED  BY <1>2, <1>3, EndFields DEF w

----------------------------------------------------------------------------
(* A step of a run that goes on: its claim, and what the record and the    *)
(* journal say of it.                                                      *)

RecFrame ==
    /\ rec'.run = rec.run /\ rec'.kind = rec.kind /\ rec'.running = rec.running
    /\ rec'.outcome = rec.outcome
    /\ rec'.requested = run'.requested /\ rec'.answered = run'.answered
    /\ Same(journal', rec')
ClaimFrame ==
    /\ claim'.held = claim.held /\ claim'.run = claim.run
    /\ daemon' = daemon /\ started' = started
RunFrame ==
    /\ run.pc \in Claimed \ {"giveback", "release"}
    /\ run'.pc \in Claimed \ {"prepare", "giveback", "release"}
    /\ run'.id = run.id /\ run'.kind = run.kind
    /\ RecFrame /\ ClaimFrame

(* Such a step keeps the claim, the records and what they promise. *)
LEMMA FrameKeeps ==
    ASSUME UpdateInv, RunFrame
    PROVE  ClaimInv' /\ RecordInv' /\ ExactInv'
  <1> USE DEF UpdateInv, RunFrame, ClaimFrame
  <1>1. run.pc # "idle" /\ run'.pc # "idle" /\ run'.pc # "claiming"
        /\ run'.pc \notin Unwinding /\ run'.pc \notin {"claiming", "prepare"}
    BY DEF Claimed, Early, Going, Writing, Back, Ending, Unwinding
  <1>2. ClaimInv'
    BY <1>1 DEF ClaimInv
  <1>3. RecordInv'
    BY <1>1 DEF RecordInv, RecFrame, Same, WellFormed
  <1>4. ExactInv'
    BY DEF ExactInv, RecordInv, RecFrame, Same, WellFormed, NoOutcome
  <1> QED  BY <1>2, <1>3, <1>4

(* The places a run may go on to from its place, when all it has done so   *)
(* far is kept.                                                            *)
Drafts == {"sector", "verify", "reboot", "rebooted"}
Onward(p, q) ==
    \/ p \in Early /\ q \in Early \cup {"press"}
    \/ p \in Going /\ q \in Going \cup {"press"}
    \/ p \in Going \cup Drafts /\ q \in Drafts \cup {"file"}
    \/ p \in {"file", "return"} /\ q \in {"return", "check"}
    \/ p \in Back /\ q \in {"handing", "refused", "handed"}
    \/ q = "finish"
Walk ==
    /\ RunFrame /\ CoreKept /\ flash' = flash
    /\ Onward(run.pc, run'.pc) /\ KindOK(run'.pc, run.kind)
    /\ run'.pc \in {"reboot", "rebooted"} => flash = "daemon"
    /\ run'.pc = "finish" => EndOK(run'.end.outcome, run.requested, run.heard, flash)
    /\ run'.handle => run.handle \/ run.kind = "silent" \/ run.requested

LEMMA WalkKeeps ==
    ASSUME UpdateInv, Walk
    PROVE  TaskInv' /\ PlaceInv' /\ FlashInv' /\ EndInv'
  <1> USE DEF UpdateInv, Walk, RunFrame, CoreKept
  <1>1. TaskInv'
    BY DEF TaskInv, Fresh, Onward, Claimed, Early, Going, Writing, Drafts, Back, Ending
  <1>2. PlaceInv'
    BY DEF PlaceInv, KindOK, Claimed, Early, Going, Writing, Back, Ending
  <1>3. FlashInv'
    BY DEF FlashInv, TaskInv, Fresh, Onward, Claimed, Early, Going, Writing, Drafts, Back, Ending
  <1>4. EndInv'
    BY DEF EndInv, EndOK, Claimed, Early, Going, Writing, Back, Ending
  <1> QED  BY <1>1, <1>2, <1>3, <1>4

----------------------------------------------------------------------------
(* Which steps of a run are such walks. *)

Active == Claimed \ {"giveback", "release"}
Quiet == ClaimFrame /\ flash' = flash

(* A record that stays, or is journaled as it is, or can no longer be      *)
(* cancelled.                                                              *)
RecordStays ==
    \/ Record(rec)
    \/ RecordKept /\ run.pc # "prepare"
    \/ close_cancel_window /\ UNCHANGED journal /\ run.pc # "prepare"

LEMMA RecordStaysFrame ==
    ASSUME UpdateInv, run.pc \in Active, RecordStays, CoreKept
    PROVE  RecFrame
  <1> USE DEF UpdateInv, Active
  <1>1. /\ rec'.run = rec.run /\ rec'.kind = rec.kind /\ rec'.running = rec.running
        /\ rec'.outcome = rec.outcome /\ rec'.requested = rec.requested
        /\ rec'.answered = rec.answered
    BY DEF RecordStays, Record, RecordKept, close_cancel_window, Types, Records
  <1>2. Same(journal', rec')
    <2>1. CASE Record(rec)
      BY <2>1 DEF Record, Same
    <2>2. CASE run.pc # "prepare" /\ journal' = journal
      BY <1>1, <2>2 DEF RecordInv, Same
    <2> QED  BY <2>1, <2>2 DEF RecordStays, RecordKept
  <1> QED  BY <1>1, <1>2 DEF RecFrame, RecordInv, CoreKept

LEMMA PlainQuiet == Plain => Quiet
  BY DEF Plain, LinkKept, OutsideKept, outsideVars, Quiet, ClaimFrame

LEMMA GoWalks ==
    ASSUME UpdateInv, run.pc \in Active, RecordStays, Quiet,
           NEW to \in Active \ {"prepare", "finish"}, Go(to),
           Onward(run.pc, to), KindOK(to, run.kind),
           to \in {"reboot", "rebooted"} => flash = "daemon"
    PROVE  Walk
  <1>1. to \in Places
    BY DEF Active, Places
  <1>2. run'.pc = to /\ CoreKept /\ RestKept
    BY <1>1, GoFields DEF UpdateInv, Types
  <1> QED  BY <1>2, RecordStaysFrame DEF Walk, RunFrame, CoreKept, RestKept, Quiet, Active

LEMMA EndWalks ==
    ASSUME UpdateInv, run.pc \in Active, RecordStays, Quiet,
           NEW o \in Outcomes, EndRun(o), EndOK(o, run.requested, run.heard, flash)
    PROVE  Walk
  <1>1. run'.pc = "finish" /\ CoreKept /\ RestKept /\ run'.end.outcome = o
    BY EndRunFields DEF UpdateInv, Types
  <1>2. RecFrame
    BY <1>1, RecordStaysFrame
  <1>3. Onward(run.pc, run'.pc) /\ KindOK(run'.pc, run.kind)
    BY <1>1 DEF Onward, KindOK
  <1>4. RunFrame
    BY <1>1, <1>2 DEF RunFrame, CoreKept, Quiet, Active, Claimed, Ending
  <1> QED  BY <1>1, <1>3, <1>4 DEF Walk, RestKept, Quiet

LEMMA CancelWalks ==
    ASSUME UpdateInv, run.pc \in Active, RecordStays, Quiet, EndCancelled,
           ~run.heard /\ (~run.requested \/ flash = "old")
    PROVE  Walk
  <1>1. /\ run'.pc = "finish" /\ CoreKept /\ RestKept
        /\ run'.end.outcome = "no_firmware_change"
    BY EndCancelledFields DEF UpdateInv, Types
  <1>2. RecFrame
    BY <1>1, RecordStaysFrame
  <1>3. Onward(run.pc, run'.pc) /\ KindOK(run'.pc, run.kind)
    BY <1>1 DEF Onward, KindOK
  <1>4. RunFrame
    BY <1>1, <1>2 DEF RunFrame, CoreKept, Quiet, Active, Claimed, Ending
  <1>5. EndOK(run'.end.outcome, run.requested, run.heard, flash)
    BY <1>1 DEF EndOK
  <1> QED  BY <1>1, <1>3, <1>4, <1>5 DEF Walk, RestKept, Quiet

(* A stop may interrupt a run anywhere: what it says of the board is what  *)
(* it has asked of it and heard from it.                                   *)
LEMMA InterruptWalks ==
    ASSUME UpdateInv, run.pc \in Active, RecordStays, Quiet, Interrupted
    PROVE  Walk
  <1> DEFINE w == when_interrupted(rec.requested, rec.answered)
  <1>1. run'.pc = "finish" /\ CoreKept /\ RestKept /\ run'.end.outcome = w
    BY InterruptedFields DEF UpdateInv, Types
  <1>2. RecFrame
    BY <1>1, RecordStaysFrame
  <1>3. Onward(run.pc, run'.pc) /\ KindOK(run'.pc, run.kind)
    BY <1>1 DEF Onward, KindOK
  <1>4. RunFrame
    BY <1>1, <1>2 DEF RunFrame, CoreKept, Quiet, Active, Claimed, Ending
  <1>5. rec.requested = run.requested /\ rec.answered = run.answered
        /\ (run.answered => run.requested /\ run.heard)
        /\ (run.heard /\ run.requested => run.answered)
    BY DEF UpdateInv, RecordInv, TaskInv, Active
  <1>6. EndOK(w, run.requested, run.heard, flash)
    BY <1>5 DEF EndOK, when_interrupted, recovery_token
  <1> QED  BY <1>1, <1>3, <1>4, <1>6 DEF Walk, RestKept, Quiet

LEMMA KeptQuiet == LinkKept /\ OutsideKept => Quiet
  BY DEF LinkKept, OutsideKept, outsideVars, Quiet, ClaimFrame

LEMMA WriteQuiet == WriteKept /\ flash' = flash => Quiet
  BY DEF WriteKept, LinkKept, Quiet, ClaimFrame

(* Where each place stands. *)
LEMMA EarlyFacts ==
    ASSUME UpdateInv, run.pc \in Early
    PROVE  /\ run.pc \in Active /\ ~run.requested /\ ~run.heard
           /\ \A o : o = "no_firmware_change" =>
                 o \in Outcomes /\ EndOK(o, run.requested, run.heard, flash)
  BY DEF UpdateInv, TaskInv, Fresh, Active, Claimed, Early, EndOK, recovery_token, Outcomes

LEMMA GoingFacts ==
    ASSUME UpdateInv, run.pc \in Going \cup {"press"}
    PROVE  /\ run.pc \in Active /\ ~run.heard /\ flash = "old" /\ run.pc # "prepare"
           /\ run.pc # "press" => run.requested
           /\ \A o : o = "no_firmware_change" =>
                 o \in Outcomes /\ EndOK(o, run.requested, run.heard, flash)
  BY DEF UpdateInv, TaskInv, FlashInv, Active, Claimed, Going, EndOK, recovery_token, Outcomes

LEMMA WritingFacts ==
    ASSUME UpdateInv, run.pc \in Going \cup Writing
    PROVE  /\ run.pc \in Active /\ ~run.heard /\ run.requested /\ run.pc # "prepare"
           /\ \A o : o \in {"needs_recovery", "firmware_copied_board_not_back"} =>
                 o \in Outcomes /\ EndOK(o, run.requested, run.heard, flash)
  BY DEF UpdateInv, TaskInv, Active, Claimed, Going, Writing, EndOK, recovery_token, Outcomes

LEMMA BackFacts ==
    ASSUME UpdateInv, run.pc \in Back
    PROVE  /\ run.pc \in Active /\ run.heard /\ run.pc # "prepare"
           /\ run.requested <=> run.answered
           /\ \A o : o = "board_back_control_not_restored" =>
                 o \in Outcomes /\ EndOK(o, run.requested, run.heard, flash)
  BY DEF UpdateInv, TaskInv, Active, Claimed, Back, EndOK, recovery_token, Outcomes

LEMMA PrepareWalks == ASSUME UpdateInv, Prepare PROVE Walk
  <1>1. run.pc = "prepare" /\ run.pc \in Early /\ RecordStays /\ Quiet
    BY PlainQuiet DEF Prepare, Early, RecordStays
  <1>2. run.kind # "none" /\ run.kind \in BoardKinds
    BY <1>1 DEF UpdateInv, PlaceInv, Types, Tasks
  <1>3. CASE Go(IF run.kind = "silent" THEN "gate" ELSE "prepared")
    <2> DEFINE to == IF run.kind = "silent" THEN "gate" ELSE "prepared"
    <2>1. /\ to \in Active \ {"prepare", "finish"} /\ Onward(run.pc, to) /\ KindOK(to, run.kind)
          /\ to \notin {"reboot", "rebooted"} /\ Go(to)
      BY <1>1, <1>2, <1>3 DEF Active, Claimed, Early, Onward, KindOK, BoardKinds
    <2> HIDE DEF to
    <2> QED  BY <1>1, <2>1, EarlyFacts, GoWalks
  <1>4. CASE EndRun("no_firmware_change")
    BY <1>1, <1>4, EarlyFacts, EndWalks
  <1> QED  BY <1>3, <1>4 DEF Prepare

LEMMA PreparedWalks == ASSUME UpdateInv, Prepared PROVE Walk
  <1>1. run.pc = "prepared" /\ run.pc \in Early /\ RecordStays
    BY DEF Prepared, Early, RecordStays
  <1>2. Quiet
    BY DEF Prepared, suspend_openfan_writes, OutsideKept, outsideVars, Quiet, ClaimFrame,
           UpdateInv, Types, Claims, NoClaim
  <1>3. CASE EndCancelled
    BY <1>1, <1>2, <1>3, EarlyFacts, CancelWalks
  <1>4. CASE Interrupted
    BY <1>1, <1>2, <1>4, EarlyFacts, InterruptWalks
  <1>5. CASE run' = [run EXCEPT !.pc = "park", !.todo = Channels]
    <2>1. run'.pc = "park" /\ CoreKept /\ run'.handle = run.handle
      BY <1>5 DEF UpdateInv, Types, Tasks, CoreKept
    <2>2. KindOK("park", run.kind)
      BY <1>1 DEF KindOK, UpdateInv, PlaceInv
    <2>3. run.pc \in Active /\ "park" \in Active /\ Onward(run.pc, "park")
      BY <1>1 DEF Active, Claimed, Early, Onward
    <2> QED  BY <1>1, <1>2, <2>1, <2>2, <2>3, RecordStaysFrame
             DEF Walk, RunFrame, CoreKept, Quiet, Active
  <1> QED  BY <1>3, <1>4, <1>5 DEF Prepared

LEMMA ParkWalks == ASSUME UpdateInv, Park PROVE Walk
  <1>1. run.pc = "park" /\ run.pc \in Early /\ RecordStays /\ Quiet
    BY KeptQuiet DEF Park, Early, RecordStays
  <1>2. CASE EndCancelled
    BY <1>1, <1>2, EarlyFacts, CancelWalks
  <1>3. CASE EndRun("no_firmware_change")
    BY <1>1, <1>3, EarlyFacts, EndWalks
  <1>4. CASE \E c : run' = [run EXCEPT !.todo = @ \ {c}]
    <2>1. run'.pc = "park" /\ CoreKept /\ run'.handle = run.handle
      BY <1>1, <1>4 DEF UpdateInv, Types, Tasks, CoreKept
    <2>2. KindOK("park", run.kind)
      BY <1>1 DEF KindOK, UpdateInv, PlaceInv
    <2>3. run.pc \in Active /\ "park" \in Active /\ Onward(run.pc, "park")
      BY <1>1 DEF Active, Claimed, Early, Onward
    <2> QED  BY <1>1, <2>1, <2>2, <2>3, RecordStaysFrame
             DEF Walk, RunFrame, CoreKept, Quiet, Active
  <1> QED  BY <1>2, <1>3, <1>4 DEF Park

LEMMA ParkedWalks == ASSUME UpdateInv, Parked PROVE Walk
  <1>1. run.pc = "park" /\ run.pc \in Early /\ RecordStays /\ Quiet
    BY PlainQuiet DEF Parked, Early, RecordStays
  <1>2. CASE EndCancelled
    BY <1>1, <1>2, EarlyFacts, CancelWalks
  <1>3. CASE Interrupted
    BY <1>1, <1>3, EarlyFacts, InterruptWalks
  <1>4. CASE Go("enter")
    <2>1. /\ "enter" \in Active \ {"prepare", "finish"} /\ Onward(run.pc, "enter")
          /\ KindOK("enter", run.kind)
      BY <1>1 DEF Active, Claimed, Early, Onward, KindOK, UpdateInv, PlaceInv
    <2> QED  BY <1>1, <1>4, <2>1, EarlyFacts, GoWalks
  <1> QED  BY <1>2, <1>3, <1>4 DEF Parked

(* The port is asked for. *)
LEMMA BorrowWalks ==
    ASSUME UpdateInv, run.pc \in {"enter", "lend"}, Borrow, RecordStays, Quiet
    PROVE  Walk
  <1>1. run.pc \in Early
    BY DEF Early
  <1>2. CASE EndRun("no_firmware_change")
    BY <1>1, <1>2, EarlyFacts, EndWalks
  <1>3. CASE Go("borrow")
    <2>1. /\ "borrow" \in Active \ {"prepare", "finish"} /\ Onward(run.pc, "borrow")
          /\ KindOK("borrow", run.kind)
      BY <1>1 DEF Active, Claimed, Early, Onward, KindOK
    <2> QED  BY <1>1, <1>3, <2>1, EarlyFacts, GoWalks
  <1> QED  BY <1>2, <1>3 DEF Borrow

LEMMA EnterWalks == ASSUME UpdateInv, Enter PROVE Walk
  BY BorrowWalks, KeptQuiet DEF Enter, RecordStays

LEMMA LendWalks == ASSUME UpdateInv, Lend PROVE Walk
  BY BorrowWalks, KeptQuiet DEF Lend, RecordStays

LEMMA JumpWalks == ASSUME UpdateInv, Jump PROVE Walk
  <1>1. run.pc \in {"jump", "touch"} /\ run.pc \in Going /\ run.pc \in Active
    BY DEF Jump, Going, Active, Claimed
  <1>2. RecordStays /\ Quiet
    BY <1>1 DEF Jump, RecordStays, Quiet, ClaimFrame, LinkKept
  <1>3. run'.pc = "left" /\ CoreKept /\ run'.handle = run.handle
    BY DEF Jump, UpdateInv, Types, Tasks, CoreKept
  <1>4. "left" \in Active \ {"prepare"} /\ Onward(run.pc, "left") /\ KindOK("left", run.kind)
    BY <1>1 DEF Active, Claimed, Going, Onward, KindOK
  <1> QED  BY <1>1, <1>2, <1>3, <1>4, RecordStaysFrame
           DEF Walk, RunFrame, CoreKept, Quiet, Active

LEMMA LeftWalks == ASSUME UpdateInv, Left PROVE Walk
  <1>1. run.pc = "left" /\ run.pc \in Going /\ RecordStays /\ Quiet
    BY PlainQuiet DEF Left, Going, RecordStays
  <1>2. run.kind # "none" /\ run.kind \in BoardKinds
    BY <1>1 DEF UpdateInv, PlaceInv, Types, Tasks
  <1>3. CASE Interrupted
    BY <1>1, <1>3, GoingFacts, InterruptWalks
  <1>4. CASE ~Interrupted
    <2>1. PICK to \in {"appear", "press", "touch", "answering"} :
            /\ Go(to) /\ (to = "press" => run.kind = "silent")
            /\ (to = "answering" => run.kind # "silent")
      BY <1>4 DEF Left
    <2>2. /\ to \in Active \ {"prepare", "finish"} /\ Onward(run.pc, to) /\ KindOK(to, run.kind)
          /\ to \notin {"reboot", "rebooted"}
      BY <1>1, <1>2, <2>1 DEF Active, Claimed, Going, Onward, KindOK, BoardKinds
    <2> QED  BY <1>1, <2>1, <2>2, GoingFacts, GoWalks
  <1> QED  BY <1>3, <1>4

LEMMA AppearWalks == ASSUME UpdateInv, Appear PROVE Walk
  <1>1. run.pc = "appear" /\ run.pc \in Going /\ RecordStays /\ Quiet
    BY PlainQuiet DEF Appear, Going, RecordStays
  <1>2. CASE Interrupted
    BY <1>1, <1>2, GoingFacts, InterruptWalks
  <1>3. CASE EndRun("needs_recovery")
    BY <1>1, <1>3, WritingFacts, EndWalks
  <1>4. CASE run' = [run EXCEPT !.pc = "answering", !.port = "none"] /\ run.kind = "connected"
    <2>1. run'.pc = "answering" /\ CoreKept /\ run'.handle = run.handle
      BY <1>4 DEF UpdateInv, Types, Tasks, CoreKept
    <2>2. run.pc \in Active /\ "answering" \in Active /\ Onward(run.pc, "answering")
          /\ KindOK("answering", run.kind)
      BY <1>1, <1>4 DEF Active, Claimed, Going, Onward, KindOK
    <2> QED  BY <1>1, <2>1, <2>2, RecordStaysFrame DEF Walk, RunFrame, CoreKept, Quiet, Active
  <1>5. CASE \E to \in {"window", "boot", "press"} :
               Go(to) /\ (to \in {"window", "press"} => run.kind = "silent")
    <2>1. PICK to \in {"window", "boot", "press"} :
            Go(to) /\ (to \in {"window", "press"} => run.kind = "silent")
      BY <1>5
    <2>2. /\ to \in Active \ {"prepare", "finish"} /\ Onward(run.pc, to) /\ KindOK(to, run.kind)
          /\ to \notin {"reboot", "rebooted"}
      BY <1>1, <2>1 DEF Active, Claimed, Going, Onward, KindOK
    <2> QED  BY <1>1, <2>1, <2>2, GoingFacts, GoWalks
  <1> QED  BY <1>2, <1>3, <1>4, <1>5 DEF Appear

LEMMA InFirmwareWalks == ASSUME UpdateInv, in_firmware PROVE Walk
  <1>1. run.pc = "answering" /\ run.pc \in Going /\ run.pc \in Active
    BY DEF in_firmware, Going, Active, Claimed
  <1>2. RecordStays /\ Quiet
    BY <1>1, KeptQuiet DEF in_firmware, RecordStays
  <1>3. run'.pc = "giving" /\ CoreKept /\ ~run'.handle
    BY DEF in_firmware, UpdateInv, Types, Tasks, CoreKept
  <1>4. "giving" \in Active /\ Onward(run.pc, "giving") /\ KindOK("giving", run.kind)
    BY <1>1 DEF Active, Claimed, Going, Onward, KindOK, UpdateInv, PlaceInv
  <1> QED  BY <1>1, <1>2, <1>3, <1>4, RecordStaysFrame
           DEF Walk, RunFrame, CoreKept, Quiet, Active

LEMMA GivenWalks == ASSUME UpdateInv, Given PROVE Walk
  <1>1. run.pc = "giving" /\ run.pc \in Going /\ RecordStays /\ Quiet
    BY PlainQuiet DEF Given, Going, RecordStays
  <1> QED  BY <1>1, GoingFacts, EndWalks DEF Given

LEMMA GateWalks == ASSUME UpdateInv, Gate PROVE Walk
  <1>1. run.pc = "gate" /\ run.pc \in Early /\ RecordStays
    BY DEF Gate, Early, RecordStays
  <1>2. Quiet
    BY DEF Gate, LinkKept, Quiet, ClaimFrame
  <1>3. CASE EndCancelled
    BY <1>1, <1>2, <1>3, EarlyFacts, CancelWalks
  <1>4. CASE EndRun("no_firmware_change")
    BY <1>1, <1>2, <1>4, EarlyFacts, EndWalks
  <1>5. CASE Interrupted
    BY <1>1, <1>2, <1>5, EarlyFacts, InterruptWalks
  <1>6. CASE run' = [run EXCEPT !.pc = IF controller THEN "lend" ELSE "lent", !.gate = TRUE]
    <2>1. run'.pc \in {"lend", "lent"} /\ CoreKept /\ run'.handle = run.handle
      BY <1>6 DEF UpdateInv, Types, Tasks, CoreKept
    <2>2. /\ run.pc \in Active /\ run'.pc \in Active \ {"prepare", "finish"}
          /\ Onward(run.pc, run'.pc) /\ KindOK(run'.pc, run.kind)
          /\ run'.pc \notin {"reboot", "rebooted"}
      BY <1>1, <2>1 DEF Active, Claimed, Early, Onward, KindOK, UpdateInv, PlaceInv
    <2> QED  BY <1>1, <1>2, <2>1, <2>2, RecordStaysFrame
             DEF Walk, RunFrame, CoreKept, Quiet, Active
  <1> QED  BY <1>3, <1>4, <1>5, <1>6 DEF Gate

LEMMA LentWalks == ASSUME UpdateInv, Lent PROVE Walk
  <1>1. run.pc = "lent" /\ run.pc \in Early /\ RecordStays /\ Quiet
    BY PlainQuiet DEF Lent, Early, RecordStays
  <1>2. CASE EndCancelled
    BY <1>1, <1>2, EarlyFacts, CancelWalks
  <1>3. CASE Interrupted
    BY <1>1, <1>3, EarlyFacts, InterruptWalks
  <1>4. CASE Go("asking")
    <2>1. /\ "asking" \in Active \ {"prepare", "finish"} /\ Onward(run.pc, "asking")
          /\ KindOK("asking", run.kind)
      BY <1>1 DEF Active, Claimed, Early, Onward, KindOK, UpdateInv, PlaceInv
    <2> QED  BY <1>1, <1>4, <2>1, EarlyFacts, GoWalks
  <1> QED  BY <1>2, <1>3, <1>4 DEF Lent

LEMMA ButtonWalks == ASSUME UpdateInv, Button PROVE Walk
  <1>1. run.pc = "button" /\ run.pc \in Going /\ RecordStays /\ Quiet
    BY PlainQuiet DEF Button, Going, RecordStays
  <1>2. run.pc \in Active /\ Onward(run.pc, "button") /\ KindOK("button", run.kind)
    BY <1>1 DEF Active, Claimed, Going, Onward, KindOK, UpdateInv, PlaceInv
  <1>3. CASE Go("window")
    <2>1. /\ "window" \in Active \ {"prepare", "finish"} /\ Onward(run.pc, "window")
          /\ KindOK("window", run.kind)
      BY <1>1, <1>2 DEF Active, Claimed, Going, Onward, KindOK
    <2> QED  BY <1>1, <1>3, <2>1, GoingFacts, GoWalks
  <1>4. CASE Interrupted
    BY <1>1, <1>4, GoingFacts, InterruptWalks
  <1>5. CASE run.ending # NoEnd /\ run' = [run EXCEPT !.pc = "finish", !.end = run.ending]
    <2>1. run.ending \in {Cancelled, Unmoved}
      BY <1>5 DEF UpdateInv, Types, Tasks
    <2>2. run.ending \in Ends /\ run.ending.outcome = "no_firmware_change"
      BY <2>1, NoEndType DEF Cancelled, Unmoved, NoEnd
    <2>3. /\ run'.pc = "finish" /\ CoreKept /\ RestKept
          /\ run'.end.outcome = "no_firmware_change"
      BY <1>5, <2>2, EndFields DEF UpdateInv, Types
    <2>4. EndOK(run'.end.outcome, run.requested, run.heard, flash)
      BY <1>1, <2>3, GoingFacts
    <2>5. Onward(run.pc, run'.pc) /\ KindOK(run'.pc, run.kind) /\ "finish" \in Active
      BY <2>3 DEF Onward, KindOK, Active, Claimed, Ending
    <2> QED  BY <1>1, <1>2, <2>3, <2>4, <2>5, RecordStaysFrame
             DEF Walk, RunFrame, CoreKept, RestKept, Quiet, Active
  <1>6. CASE run'.pc = "button" /\ CoreKept /\ run'.handle = run.handle
    BY <1>1, <1>2, <1>6, RecordStaysFrame DEF Walk, RunFrame, CoreKept, Quiet, Active
  <1>7. ASSUME NEW w, NEW e, \/ run' = [run EXCEPT !.waited = w]
                             \/ run' = [run EXCEPT !.ending = e]
                             \/ run' = [run EXCEPT !.waited = w, !.ending = e]
        PROVE  run'.pc = "button" /\ CoreKept /\ run'.handle = run.handle
    <2>1. CASE run' = [run EXCEPT !.waited = w]
      BY <1>1, <2>1 DEF UpdateInv, Types, Tasks, CoreKept
    <2>2. CASE run' = [run EXCEPT !.ending = e]
      BY <1>1, <2>2 DEF UpdateInv, Types, Tasks, CoreKept
    <2>3. CASE run' = [run EXCEPT !.waited = w, !.ending = e]
      BY <1>1, <2>3 DEF UpdateInv, Types, Tasks, CoreKept
    <2> QED  BY <1>7, <2>1, <2>2, <2>3
  <1> QED  BY ZenonT(60), <1>3, <1>4, <1>5, <1>6, <1>7 DEF Button

LEMMA WindowWalks == ASSUME UpdateInv, Window PROVE Walk
  <1>1. run.pc = "window" /\ run.pc \in Going /\ RecordStays /\ Quiet
    BY PlainQuiet DEF Window, Going, RecordStays
  <1>2. /\ "boot" \in Active \ {"prepare", "finish"} /\ Onward(run.pc, "boot")
        /\ KindOK("boot", run.kind)
    BY <1>1 DEF Active, Claimed, Going, Onward, KindOK
  <1> QED  BY <1>1, <1>2, GoingFacts, GoWalks DEF Window

LEMMA BootWalks == ASSUME UpdateInv, Boot PROVE Walk
  <1>1. run.pc = "boot" /\ run.pc \in Going /\ RecordStays /\ Quiet
    BY PlainQuiet DEF Boot, Going, RecordStays
  <1>2. run'.pc \in {"identify", "file"} /\ CoreKept /\ run'.handle = run.handle
    BY DEF Boot, UpdateInv, Types, Tasks, CoreKept
  <1>3. /\ run.pc \in Active /\ run'.pc \in Active \ {"prepare", "finish"}
        /\ Onward(run.pc, run'.pc) /\ KindOK(run'.pc, run.kind)
        /\ run'.pc \notin {"reboot", "rebooted"}
    BY <1>1, <1>2 DEF Active, Claimed, Going, Writing, Drafts, Onward, KindOK
  <1> QED  BY <1>1, <1>2, <1>3, RecordStaysFrame
           DEF Walk, RunFrame, CoreKept, Quiet, Active

(* The ways out of the daemon's own write. *)
LEMMA FallBackWalks ==
    ASSUME UpdateInv, run.pc \in {"identify", "erase"} \cup Drafts, fall_back, Quiet
    PROVE  Walk
  <1>1. RecordStays
    BY DEF fall_back, RecordStays
  <1>2. /\ "file" \in Active \ {"prepare", "finish"} /\ Onward(run.pc, "file")
        /\ KindOK("file", run.kind) /\ run.pc \in Active
    BY DEF Active, Claimed, Going, Writing, Drafts, Onward, KindOK
  <1> QED  BY <1>1, <1>2, GoWalks DEF fall_back

LEMMA StopWritingWalks ==
    ASSUME UpdateInv, run.pc \in {"identify", "erase"} \cup Drafts, Interrupted, RecordKept, Quiet
    PROVE  Walk
  <1>1. RecordStays /\ run.pc \in Active
    BY DEF RecordStays, Active, Claimed, Going, Writing, Drafts
  <1> QED  BY <1>1, InterruptWalks

LEMMA IdentifyWalks == ASSUME UpdateInv, Identify PROVE Walk
  <1>1. run.pc = "identify" /\ Quiet
    BY WriteQuiet DEF Identify
  <1>2. CASE fall_back
    BY <1>1, <1>2, FallBackWalks
  <1>3. CASE Record(rec) /\ \E to \in {"erase", "file"} : Go(to)
    <2>1. PICK to \in {"erase", "file"} : Go(to)
      BY <1>3
    <2>2. /\ to \in Active \ {"prepare", "finish"} /\ Onward(run.pc, to) /\ KindOK(to, run.kind)
          /\ to \notin {"reboot", "rebooted"} /\ run.pc \in Active /\ RecordStays
      BY <1>1, <1>3, <2>1 DEF Active, Claimed, Going, Writing, Drafts, Onward, KindOK, RecordStays
    <2> QED  BY <1>1, <2>1, <2>2, GoWalks
  <1> QED  BY <1>2, <1>3 DEF Identify, Go

LEMMA EraseWalks == ASSUME UpdateInv, Erase PROVE Walk
  <1>1. run.pc = "erase" /\ run.pc \in Active /\ Quiet
    BY WriteQuiet DEF Erase, Active, Claimed, Going
  <1>2. CASE fall_back
    BY <1>1, <1>2, FallBackWalks
  <1>3. CASE stop_writing
    BY <1>1, <1>3, StopWritingWalks DEF stop_writing
  <1>4. CASE Record([rec EXCEPT !.changed = TRUE]) /\ run' = [run EXCEPT !.pc = "sector"]
    <2>1. run'.pc = "sector" /\ CoreKept /\ run'.handle = run.handle
      BY <1>4 DEF UpdateInv, Types, Tasks, CoreKept
    <2>2. /\ rec'.run = rec.run /\ rec'.kind = rec.kind /\ rec'.running = rec.running
          /\ rec'.outcome = rec.outcome /\ rec'.requested = rec.requested
          /\ rec'.answered = rec.answered /\ journal' = rec'
      BY <1>4 DEF Record, UpdateInv, Types, Records
    <2>3. RecFrame
      BY <1>1, <2>1, <2>2 DEF RecFrame, Same, UpdateInv, RecordInv, Active, CoreKept
    <2>4. "sector" \in Active /\ Onward(run.pc, "sector") /\ KindOK("sector", run.kind)
      BY <1>1 DEF Active, Claimed, Going, Writing, Drafts, Onward, KindOK
    <2> QED  BY <1>1, <2>1, <2>3, <2>4 DEF Walk, RunFrame, CoreKept, Quiet, Active
  <1> QED  BY <1>2, <1>3, <1>4 DEF Erase

LEMMA VerifyWalks == ASSUME UpdateInv, verify_sector PROVE Walk
  <1>1. run.pc = "verify" /\ run.pc \in Active /\ Quiet
    BY WriteQuiet DEF verify_sector, Active, Claimed, Writing
  <1>2. CASE fall_back
    BY <1>1, <1>2, FallBackWalks DEF Drafts
  <1>3. CASE stop_writing
    BY <1>1, <1>3, StopWritingWalks DEF stop_writing, Drafts
  <1>4. CASE Record([rec EXCEPT !.verified = TRUE]) /\ Go("reboot") /\ flash = "daemon"
    <2>1. run'.pc = "reboot" /\ CoreKept /\ run'.handle = run.handle
      BY <1>4 DEF Go, UpdateInv, Types, Tasks, CoreKept
    <2>2. /\ rec'.run = rec.run /\ rec'.kind = rec.kind /\ rec'.running = rec.running
          /\ rec'.outcome = rec.outcome /\ rec'.requested = rec.requested
          /\ rec'.answered = rec.answered /\ journal' = rec'
      BY <1>4 DEF Record, UpdateInv, Types, Records
    <2>3. RecFrame
      BY <1>1, <2>1, <2>2 DEF RecFrame, Same, UpdateInv, RecordInv, Active, CoreKept
    <2>4. "reboot" \in Active /\ Onward(run.pc, "reboot") /\ KindOK("reboot", run.kind)
      BY <1>1 DEF Active, Claimed, Going, Writing, Drafts, Onward, KindOK
    <2> QED  BY <1>1, <1>4, <2>1, <2>3, <2>4 DEF Walk, RunFrame, CoreKept, Quiet, Active
  <1> QED  BY <1>2, <1>3, <1>4 DEF verify_sector

LEMMA RebootWalks == ASSUME UpdateInv, Reboot PROVE Walk
  <1>1. run.pc = "reboot" /\ run.pc \in Active /\ flash = "daemon"
    BY DEF Reboot, Active, Claimed, Writing, UpdateInv, FlashInv
  <1>2. Quiet
    <2>1. CASE WriteKept
      BY <2>1, WriteQuiet DEF Reboot
    <2>2. CASE LinkKept /\ UNCHANGED <<daemon, started>>
      BY <2>2 DEF Reboot, LinkKept, Quiet, ClaimFrame
    <2> QED  BY <2>1, <2>2 DEF Reboot
  <1>3. CASE fall_back
    BY <1>1, <1>2, <1>3, FallBackWalks DEF Drafts
  <1>4. CASE stop_writing
    BY <1>1, <1>2, <1>4, StopWritingWalks DEF stop_writing, Drafts
  <1>5. CASE Go("rebooted") /\ RecordKept
    <2>1. /\ "rebooted" \in Active \ {"prepare", "finish"} /\ Onward(run.pc, "rebooted")
          /\ KindOK("rebooted", run.kind) /\ RecordStays
      BY <1>1, <1>5 DEF Active, Claimed, Going, Writing, Drafts, Onward, KindOK, RecordStays
    <2> QED  BY <1>1, <1>2, <1>5, <2>1, GoWalks
  <1> QED  BY <1>3, <1>4, <1>5 DEF Reboot

----------------------------------------------------------------------------
(* Every step of a run up to its end is a turn: all it has asked and heard *)
(* is kept, or it asks the board to leave, or hears its answer, or writes. *)

Same3 ==
    run'.requested = run.requested /\ run'.heard = run.heard /\ run'.answered = run.answered
Steady == Same3 /\ flash' = flash
Asks == /\ ~run.requested /\ ~run.heard /\ run'.requested /\ ~run'.heard /\ ~run'.answered
        /\ flash' = flash /\ (run.kind = "connected" => run.pc = "borrow")
Hears == /\ ~run.heard /\ run'.heard /\ Answers("port") /\ flash' = flash
         /\ run'.requested = run.requested
Writes == Same3 /\ run.requested /\ ~run.heard /\ (flash' = flash \/ flash' # "old")
Turn ==
    /\ RunFrame /\ run'.prior = run.prior
    /\ Steady \/ Asks \/ Hears \/ Writes
    /\ TaskInv' /\ PlaceInv' /\ FlashInv' /\ EndInv'

LEMMA WalkTurns == UpdateInv /\ Walk => Turn
  BY WalkKeeps DEF Walk, Turn, CoreKept, Same3, Steady

(* The board has restarted from what the daemon wrote. *)
LEMMA RebootedTurns == ASSUME UpdateInv, Rebooted PROVE Turn
  <1>1. /\ run.pc = "rebooted" /\ run.pc \in Active /\ flash = "daemon"
        /\ run.requested /\ ~run.heard
    BY DEF Rebooted, Active, Claimed, Writing, UpdateInv, FlashInv, TaskInv
  <1>2. Quiet
    BY WriteQuiet DEF Rebooted
  <1>3. CASE fall_back
    BY <1>1, <1>2, <1>3, FallBackWalks, WalkTurns DEF Drafts
  <1>4. CASE Interrupted /\ RecordKept
    BY <1>1, <1>2, <1>4, StopWritingWalks, WalkTurns DEF Drafts
  <1>5. CASE Record(rec) /\ run' = [run EXCEPT !.pc = "return", !.written = TRUE]
    <2>1. /\ run'.pc = "return" /\ run'.written /\ run'.id = run.id /\ run'.kind = run.kind
          /\ run'.requested = run.requested /\ run'.answered = run.answered
          /\ run'.heard = run.heard /\ run'.over = run.over /\ run'.handle = run.handle
          /\ run'.prior = run.prior
      BY <1>5 DEF UpdateInv, Types, Tasks
    <2>2. RecFrame
      BY <1>1, <1>5, <2>1 DEF Record, RecFrame, Same, UpdateInv, RecordInv, Active
    <2>3. RunFrame
      BY <1>1, <1>2, <2>1, <2>2 DEF RunFrame, Quiet, Active, Claimed, Writing
    <2>4. TaskInv' /\ PlaceInv' /\ FlashInv' /\ EndInv'
      BY <1>1, <1>2, <2>1 DEF UpdateInv, TaskInv, PlaceInv, KindOK, FlashInv, EndInv, Quiet,
           Early, Going, Writing, Back, Ending, Claimed
    <2> QED  BY <1>2, <2>1, <2>3, <2>4 DEF Turn, Same3, Steady, Quiet
  <1> QED  BY <1>3, <1>4, <1>5 DEF Rebooted

LEMMA FileWalks == ASSUME UpdateInv, File PROVE Walk
  <1>1. run.pc = "file" /\ run.pc \in Writing /\ RecordStays /\ Quiet
    BY PlainQuiet DEF File, Writing, RecordStays
  <1>2. CASE Go("return")
    <2>1. /\ "return" \in Active \ {"prepare", "finish"} /\ Onward(run.pc, "return")
          /\ KindOK("return", run.kind)
      BY <1>1 DEF Active, Claimed, Writing, Onward, KindOK
    <2> QED  BY <1>1, <1>2, <2>1, WritingFacts, GoWalks
  <1>3. CASE EndRun("needs_recovery")
    BY <1>1, <1>3, WritingFacts, EndWalks
  <1>4. CASE Interrupted
    BY <1>1, <1>4, WritingFacts, InterruptWalks
  <1> QED  BY <1>2, <1>3, <1>4 DEF File

LEMMA ReturnTurns == ASSUME UpdateInv, Return PROVE Turn
  <1>1. run.pc = "return" /\ run.pc \in Writing /\ RecordStays /\ Quiet
    BY PlainQuiet DEF Return, Writing, RecordStays
  <1>2. CASE Go("check")
    <2>1. /\ "check" \in Active \ {"prepare", "finish"} /\ Onward(run.pc, "check")
          /\ KindOK("check", run.kind)
      BY <1>1 DEF Active, Claimed, Writing, Onward, KindOK
    <2> QED  BY <1>1, <1>2, <2>1, WritingFacts, GoWalks, WalkTurns
  <1>3. CASE EndRun("needs_recovery")
    BY <1>1, <1>3, WritingFacts, EndWalks, WalkTurns
  <1>4. CASE EndRun("firmware_copied_board_not_back")
    BY <1>1, <1>4, WritingFacts, EndWalks, WalkTurns
  <1>5. CASE Interrupted
    BY <1>1, <1>5, WritingFacts, InterruptWalks, WalkTurns
  <1>6. CASE run' = [run EXCEPT !.returns = @ + 1, !.pc = "file"]
    <2>1. /\ run'.pc = "file" /\ run'.written = run.written
          /\ run'.id = run.id /\ run'.kind = run.kind
          /\ run'.requested = run.requested /\ run'.answered = run.answered
          /\ run'.heard = run.heard /\ run'.over = run.over /\ run'.handle = run.handle
          /\ run'.prior = run.prior
      BY <1>6 DEF UpdateInv, Types, Tasks
    <2>2. run'.returns > 0
      BY <1>6 DEF UpdateInv, Types, Tasks
    <2>3. RecFrame
      BY <1>1, <2>1, WritingFacts DEF Return, Record, RecFrame, Same, UpdateInv, RecordInv, Active
    <2>4. RunFrame
      BY <1>1, <2>1, <2>3, WritingFacts DEF RunFrame, Quiet, Active, Claimed, Writing
    <2>5. TaskInv' /\ PlaceInv' /\ FlashInv' /\ EndInv'
      BY <1>1, <2>1, <2>2 DEF UpdateInv, TaskInv, PlaceInv, KindOK, FlashInv, EndInv, Quiet,
           Early, Going, Writing, Back, Ending, Claimed
    <2> QED  BY <1>1, <2>1, <2>4, <2>5 DEF Turn, Same3, Steady, Quiet
  <1> QED  BY <1>2, <1>3, <1>4, <1>5, <1>6 DEF Return

(* The board answers. *)
LEMMA CheckTurns == ASSUME UpdateInv, Check PROVE Turn
  <1>1. run.pc = "check" /\ run.pc \in Writing /\ Quiet
    BY PlainQuiet DEF Check, Writing
  <1>2. CASE EndRun("firmware_copied_board_not_back") /\ Record(rec)
    BY <1>1, <1>2, WritingFacts, EndWalks, WalkTurns DEF RecordStays
  <1>3. CASE Interrupted /\ Record(rec)
    BY <1>1, <1>3, WritingFacts, InterruptWalks, WalkTurns DEF RecordStays
  <1>4. CASE /\ Answers("port") /\ Record([rec EXCEPT !.answered = TRUE])
             /\ run' = [run EXCEPT !.pc = "restore", !.port = "port", !.answered = TRUE,
                                   !.heard = TRUE]
    <2>1. /\ run'.pc = "restore" /\ run'.written = run.written
          /\ run'.id = run.id /\ run'.kind = run.kind
          /\ run'.requested = run.requested /\ run'.over = run.over
          /\ run'.handle = run.handle /\ run'.returns = run.returns
          /\ run'.prior = run.prior
      BY <1>4 DEF UpdateInv, Types, Tasks
    <2>2. run'.answered = TRUE /\ run'.heard = TRUE
      BY <1>4 DEF UpdateInv, Types, Tasks
    <2>3. /\ rec'.run = rec.run /\ rec'.kind = rec.kind /\ rec'.running = rec.running
          /\ rec'.outcome = rec.outcome /\ rec'.requested = rec.requested
          /\ rec'.answered = TRUE /\ journal' = rec'
      BY <1>4 DEF Record, UpdateInv, Types, Records
    <2>4. RecFrame
      BY <1>1, <2>1, <2>2, <2>3, WritingFacts DEF RecFrame, Same, UpdateInv, RecordInv, Active
    <2>5. RunFrame
      BY <1>1, <2>1, <2>4, WritingFacts DEF RunFrame, Quiet, Active, Claimed, Back
    <2>6. TaskInv' /\ PlaceInv' /\ FlashInv' /\ EndInv'
      BY <1>1, <2>1, <2>2, WritingFacts DEF UpdateInv, TaskInv, PlaceInv, KindOK, FlashInv, EndInv,
           Quiet, Early, Going, Writing, Back, Ending, Claimed
    <2>7. Hears
      BY <1>1, <1>4, <2>1, <2>2, WritingFacts DEF Hears, Quiet
    <2> QED  BY <2>1, <2>5, <2>6, <2>7 DEF Turn
  <1> QED  BY <1>2, <1>3, <1>4 DEF Check

(* The board is handed over. *)
LEMMA HandOverFields ==
    ASSUME run \in Tasks, NEW t, hand_over(t)
    PROVE  /\ run'.pc \in {"handing", "handed", "refused"} /\ run'.heard = TRUE
           /\ run'.id = run.id /\ run'.kind = run.kind /\ run'.prior = run.prior
           /\ run'.requested = run.requested /\ run'.answered = run.answered
           /\ run'.over = run.over /\ run'.written = run.written /\ run'.returns = run.returns
           /\ run'.handle => run.handle
  <1>1. CASE run' = [run EXCEPT !.pc = "handing", !.handle = FALSE, !.port = "none",
                                !.heard = TRUE]
    BY <1>1 DEF Tasks
  <1>2. CASE run' = [run EXCEPT !.pc = "handed", !.port = "none", !.heard = TRUE]
    BY <1>2 DEF Tasks
  <1>3. CASE run' = [run EXCEPT !.pc = "refused", !.port = "none", !.heard = TRUE]
    BY <1>3 DEF Tasks
  <1> QED  BY <1>1, <1>2, <1>3 DEF hand_over

LEMMA RestoreWalks == ASSUME UpdateInv, Restore PROVE Walk
  <1>1. run.pc = "restore" /\ run.pc \in Back /\ RecordStays /\ Quiet
    BY DEF Restore, Back, RecordStays, LinkKept, Quiet, ClaimFrame
  <1>2. run.answered /\ run.requested /\ run.heard = TRUE
    BY <1>1, BackFacts DEF UpdateInv, TaskInv, Types, Tasks
  <1>3. CASE EndRun("firmware_copied_board_not_back")
    <2>1. LET o == "firmware_copied_board_not_back"
          IN  o \in Outcomes /\ EndOK(o, run.requested, run.heard, flash)
      BY <1>2 DEF EndOK, Outcomes
    <2> QED  BY <1>1, <1>3, <2>1, BackFacts, EndWalks
  <1>4. CASE hand_over(run.port)
    <2>1. /\ run'.pc \in {"handing", "handed", "refused"} /\ CoreKept
          /\ run'.handle => run.handle
      BY <1>2, <1>4, HandOverFields DEF UpdateInv, Types, CoreKept
    <2>2. /\ run.pc \in Active /\ run'.pc \in Active \ {"prepare", "finish"}
          /\ Onward(run.pc, run'.pc) /\ KindOK(run'.pc, run.kind)
          /\ run'.pc \notin {"reboot", "rebooted"}
      BY <1>1, <2>1 DEF Active, Claimed, Back, Onward, KindOK
    <2> QED  BY <1>1, <2>1, <2>2, RecordStaysFrame
             DEF Walk, RunFrame, CoreKept, Quiet, Active
  <1> QED  BY <1>3, <1>4 DEF Restore

LEMMA HandingWalks == ASSUME UpdateInv, Handing PROVE Walk
  <1>1. run.pc = "handing" /\ run.pc \in Back /\ RecordStays /\ Quiet
    BY PlainQuiet DEF Handing, Back, RecordStays
  <1>2. PICK to \in {"handed", "refused"} : Go(to)
    BY DEF Handing
  <1>3. /\ to \in Active \ {"prepare", "finish"} /\ Onward(run.pc, to) /\ KindOK(to, run.kind)
        /\ to \notin {"reboot", "rebooted"}
    BY <1>1, <1>2 DEF Active, Claimed, Back, Onward, KindOK
  <1> QED  BY <1>1, <1>2, <1>3, BackFacts, GoWalks

LEMMA RefusedWalks == ASSUME UpdateInv, Refused PROVE Walk
  <1>1. run.pc = "refused" /\ run.pc \in Back /\ RecordStays /\ Quiet
    BY PlainQuiet DEF Refused, Back, RecordStays
  <1>2. CASE Interrupted
    BY <1>1, <1>2, BackFacts, InterruptWalks
  <1>3. CASE EndRun("board_back_control_not_restored")
    BY <1>1, <1>3, BackFacts, EndWalks
  <1> QED  BY <1>2, <1>3 DEF Refused

LEMMA LandingWalks == ASSUME UpdateInv, Landing PROVE Walk
  <1>1. run.pc = "landing" /\ run.pc \in Back /\ RecordStays /\ Quiet
    BY PlainQuiet DEF Landing, Back, RecordStays
  <1>2. run.answered /\ run.requested /\ run.heard
    BY <1>1 DEF UpdateInv, TaskInv
  <1>3. CASE Interrupted
    BY <1>1, <1>3, BackFacts, InterruptWalks
  <1>4. CASE ~Interrupted
    <2>1. PICK o \in {"exact_build_verified", "completed_build_not_confirmed",
                      "back_on_previous_firmware", "board_back_control_not_restored"} :
            EndRun(o) /\ (o = "exact_build_verified" => exact_build)
      BY <1>4 DEF Landing
    <2>2. o \in Outcomes /\ EndOK(o, run.requested, run.heard, flash)
      BY <1>2, <2>1 DEF EndOK, Outcomes, exact_build, UpdateInv, FlashInv
    <2> QED  BY <1>1, <2>1, <2>2, BackFacts, EndWalks
  <1> QED  BY <1>3, <1>4

(* Control is the engine's again, or the board only turned out to answer. *)
LEMMA HandedTurns == ASSUME UpdateInv, Handed PROVE Turn
  <1>1. run.pc = "handed" /\ run.pc \in Back /\ RecordStays
    BY DEF Handed, Back, RecordStays
  <1>2. Quiet
    BY ZenonT(60) DEF Handed, resume_openfan_writes, OutsideKept, outsideVars, Quiet, ClaimFrame,
           UpdateInv, Types, Claims, NoClaim
  <1>3. ASSUME /\ run'.id = run.id /\ run'.kind = run.kind /\ run'.prior = run.prior
               /\ run'.requested = run.requested /\ run'.answered = run.answered
               /\ run'.heard = run.heard /\ run'.written = run.written
               /\ run'.returns = run.returns /\ run'.handle = run.handle,
               \/ run'.pc = "landing" /\ run.answered
               \/ /\ run'.pc = "finish" /\ ~run.answered
                  /\ run'.end.outcome = "no_firmware_change"
        PROVE  Turn
    <2>1. RecFrame
      BY <1>1, <1>3, BackFacts DEF Handed, RecordKept, RecFrame, Same, UpdateInv, RecordInv, Active
    <2>2. RunFrame
      BY <1>1, <1>2, <1>3, <2>1, BackFacts DEF RunFrame, Quiet, Active, Claimed, Back, Ending
    <2>3. TaskInv' /\ PlaceInv' /\ FlashInv'
      BY <1>1, <1>2, <1>3, BackFacts DEF UpdateInv, TaskInv, PlaceInv, KindOK, FlashInv,
           Quiet, Early, Going, Writing, Back, Ending, Claimed
    <2>4. EndInv'
      BY <1>1, <1>2, <1>3, BackFacts DEF EndInv, EndOK, Ending, Quiet
    <2> QED  BY <1>2, <1>3, <2>2, <2>3, <2>4 DEF Turn, Same3, Steady, Quiet
  <1>4. CASE run' = [run EXCEPT !.pc = "landing", !.over = TRUE, !.todo = Channels]
             /\ run.answered
    BY <1>3, <1>4 DEF UpdateInv, Types, Tasks
  <1>5. CASE run' = [run EXCEPT !.pc = "finish", !.over = TRUE, !.end = Unmoved] /\ ~run.answered
    <2>1. run'.end = Unmoved /\ Unmoved.outcome = "no_firmware_change"
      BY <1>5 DEF UpdateInv, Types, Tasks, Unmoved, NoEnd
    <2> HIDE DEF Unmoved
    <2> QED  BY <1>3, <1>5, <2>1 DEF UpdateInv, Types, Tasks
  <1> QED  BY <1>4, <1>5 DEF Handed, Unmoved

(* The board is asked to leave, once that is written down. *)
LEMMA AskTurns ==
    ASSUME UpdateInv, Record(Asked(rec)), Quiet,
           \/ run.pc = "borrow" /\ run'.pc = "jump" /\ run.kind = "connected"
           \/ run.pc = "asking" /\ run'.pc = "touch"
           \/ run.pc = "press" /\ run'.pc = "button",
           run'.id = run.id, run'.kind = run.kind, run'.prior = run.prior,
           run'.requested = TRUE, run'.answered = run.answered, run'.heard = run.heard,
           run'.over = run.over, run'.written = run.written, run'.returns = run.returns
    PROVE  Turn
  <1>1. /\ rec'.run = rec.run /\ rec'.kind = rec.kind /\ rec'.running = rec.running
        /\ rec'.outcome = rec.outcome /\ rec'.answered = rec.answered
        /\ rec'.requested = TRUE /\ journal' = rec'
    BY DEF Record, Asked, UpdateInv, Types, Records
  <1>2. run.pc \in Active /\ run'.pc \in Active /\ run'.pc # "prepare" /\ run'.pc \in Going
    BY DEF Active, Claimed, Early, Going
  <1>3. RecFrame
    BY <1>1, <1>2 DEF RecFrame, Same, UpdateInv, RecordInv, Active
  <1>4. RunFrame
    BY <1>2, <1>3 DEF RunFrame, Quiet, Active
  <1>5. ~run.heard /\ ~run.answered /\ ~run.written /\ flash = "old"
    BY <1>2 DEF UpdateInv, TaskInv, FlashInv, Fresh, Early, Going, Active
  <1>6. TaskInv' /\ PlaceInv' /\ FlashInv' /\ EndInv'
    BY <1>2, <1>5 DEF UpdateInv, TaskInv, PlaceInv, KindOK, FlashInv, EndInv,
         Quiet, Early, Going, Writing, Back, Ending, Claimed
  <1>7. Steady \/ Asks
    BY <1>5 DEF Same3, Steady, Asks, Quiet, UpdateInv, Types, Tasks, PlaceInv, KindOK
  <1> QED  BY <1>4, <1>6, <1>7 DEF Turn

LEMMA LateAnswerTurns == ASSUME UpdateInv, late_answer PROVE Turn
  <1>1. run.pc = "borrow" /\ run.pc \in Early /\ Quiet
    BY KeptQuiet DEF late_answer, Early
  <1>2. run.kind # "none" /\ run.kind \in BoardKinds
    BY <1>1 DEF UpdateInv, PlaceInv, Types, Tasks
  <1>3. CASE EndRun("no_firmware_change") /\ RecordKept
    BY <1>1, <1>3, EarlyFacts, EndWalks, WalkTurns DEF RecordStays
  <1>4. CASE /\ run' = [run EXCEPT !.pc = "lent", !.port = passing, !.handle = TRUE]
             /\ RecordKept /\ run.kind = "silent"
    <2>1. run'.pc = "lent" /\ CoreKept
      BY <1>4 DEF UpdateInv, Types, Tasks, CoreKept
    <2>2. /\ run.pc \in Active /\ "lent" \in Active /\ Onward(run.pc, "lent")
          /\ KindOK("lent", run.kind) /\ RecordStays
      BY <1>1, <1>4 DEF Active, Claimed, Early, Onward, KindOK, RecordStays
    <2>3. Walk
      BY <1>1, <1>4, <2>1, <2>2, RecordStaysFrame DEF Walk, RunFrame, CoreKept, Quiet, Active
    <2> QED  BY <2>3, WalkTurns
  <1>5. CASE /\ run' = [run EXCEPT !.pc = "jump", !.port = passing, !.handle = TRUE,
                                   !.requested = TRUE]
             /\ Record(Asked(rec)) /\ run.kind # "silent"
    <2>1. /\ run'.pc = "jump" /\ run'.id = run.id /\ run'.kind = run.kind
          /\ run'.prior = run.prior /\ run'.requested = TRUE /\ run'.answered = run.answered
          /\ run'.heard = run.heard /\ run'.over = run.over /\ run'.written = run.written
          /\ run'.returns = run.returns
      BY <1>5 DEF UpdateInv, Types, Tasks
    <2>2. run.kind = "connected"
      BY <1>2, <1>5 DEF BoardKinds
    <2> QED  BY <1>1, <1>5, <2>1, <2>2, AskTurns
  <1> QED  BY <1>3, <1>4, <1>5 DEF late_answer

LEMMA AskingTurns == ASSUME UpdateInv, Ask PROVE Turn
  <1>1. run.pc = "asking" /\ run.pc \in Early /\ run.pc \in Active /\ Quiet
    BY DEF Ask, Early, Active, Claimed, LinkKept, Quiet, ClaimFrame
  <1>2. CASE \E t : Answers(t) /\ hand_over(t) /\ RecordKept
    <2>1. PICK t : Answers(t) /\ hand_over(t) /\ RecordKept
      BY <1>2
    <2>2. /\ run'.pc \in {"handing", "handed", "refused"} /\ run'.heard = TRUE
          /\ run'.id = run.id /\ run'.kind = run.kind /\ run'.prior = run.prior
          /\ run'.requested = run.requested /\ run'.answered = run.answered
          /\ run'.over = run.over /\ run'.written = run.written /\ run'.returns = run.returns
          /\ run'.handle => run.handle
      BY <2>1, HandOverFields DEF UpdateInv, Types
    <2>3. RecFrame
      BY <1>1, <2>1, <2>2 DEF RecordKept, RecFrame, Same, UpdateInv, RecordInv, Active
    <2>4. RunFrame
      BY <1>1, <2>2, <2>3 DEF RunFrame, Quiet, Active, Claimed, Back
    <2>5. ~run.heard /\ ~run.answered /\ ~run.requested /\ ~run.written /\ flash = "old"
      BY <1>1, EarlyFacts DEF UpdateInv, TaskInv, FlashInv, Active
    <2>6. TaskInv' /\ PlaceInv' /\ FlashInv' /\ EndInv'
      BY <1>1, <2>2, <2>5 DEF UpdateInv, TaskInv, PlaceInv, KindOK, FlashInv, EndInv,
           Quiet, Early, Going, Writing, Back, Ending, Claimed
    <2>7. Hears
      BY <1>1, <2>1, <2>2, <2>5 DEF Hears, Answers, Quiet
    <2> QED  BY <2>2, <2>4, <2>6, <2>7 DEF Turn
  <1>3. CASE \E t : /\ Record(Asked(rec))
                    /\ run' = [run EXCEPT !.pc = "touch", !.port = t, !.requested = TRUE]
    <2>1. /\ run'.pc = "touch" /\ run'.id = run.id /\ run'.kind = run.kind
          /\ run'.prior = run.prior /\ run'.requested = TRUE /\ run'.answered = run.answered
          /\ run'.heard = run.heard /\ run'.over = run.over /\ run'.written = run.written
          /\ run'.returns = run.returns
      BY <1>3 DEF UpdateInv, Types, Tasks
    <2> QED  BY <1>1, <1>3, <2>1, AskTurns
  <1>4. CASE Record(rec) /\ run' = [run EXCEPT !.pc = "press", !.port = "none"]
    <2>1. run'.pc = "press" /\ CoreKept /\ run'.handle = run.handle
      BY <1>4 DEF UpdateInv, Types, Tasks, CoreKept
    <2>2. /\ "press" \in Active /\ Onward(run.pc, "press") /\ KindOK("press", run.kind)
          /\ RecordStays
      BY <1>1, <1>4 DEF Active, Claimed, Early, Onward, KindOK, RecordStays, UpdateInv, PlaceInv
    <2>3. Walk
      BY <1>1, <2>1, <2>2, RecordStaysFrame DEF Walk, RunFrame, CoreKept, Quiet, Active
    <2> QED  BY <2>3, WalkTurns
  <1> QED  BY <1>2, <1>3, <1>4 DEF Ask

LEMMA PressTurns == ASSUME UpdateInv, Press PROVE Turn
  <1>1. run.pc = "press" /\ Record(Asked(rec)) /\ Quiet
    BY PlainQuiet DEF Press
  <1>2. /\ run'.pc = "button" /\ run'.id = run.id /\ run'.kind = run.kind
        /\ run'.prior = run.prior /\ run'.requested = TRUE /\ run'.answered = run.answered
        /\ run'.heard = run.heard /\ run'.over = run.over /\ run'.written = run.written
        /\ run'.returns = run.returns
    BY DEF Press, UpdateInv, Types, Tasks
  <1> QED  BY <1>1, <1>2, AskTurns

(* The daemon writes the flash. *)
LEMMA WriteSectorTurns == ASSUME UpdateInv, write_sector PROVE Turn
  <1>1. run.pc = "sector" /\ run.pc \in Writing /\ run.pc \in Active
    BY DEF write_sector, Writing, Active, Claimed
  <1>2. ClaimFrame
    BY DEF write_sector, WriteKept, LinkKept, ClaimFrame
  <1>3. run.requested /\ ~run.heard /\ ~run.written
    BY <1>1, WritingFacts DEF UpdateInv, TaskInv
  <1>4. CASE stop_writing /\ flash' = flash
    BY <1>1, <1>2, <1>4, StopWritingWalks, WalkTurns DEF stop_writing, Drafts, Quiet
  <1>5. ASSUME run'.pc \in {"file", "sector", "verify"}, CoreKept, run'.handle = run.handle,
               rec' = rec, journal' = rec \/ journal' = journal,
               flash' = flash \/ flash' # "old"
        PROVE  Turn
    <2>1. RecFrame
      BY <1>1, <1>5 DEF RecFrame, Same, UpdateInv, RecordInv, Active, CoreKept
    <2>2. RunFrame
      BY <1>1, <1>2, <1>5, <2>1 DEF RunFrame, Active, Claimed, Writing, CoreKept
    <2>3. TaskInv' /\ PlaceInv' /\ FlashInv' /\ EndInv'
      BY <1>1, <1>3, <1>5 DEF UpdateInv, TaskInv, PlaceInv, KindOK, FlashInv, EndInv,
           CoreKept, Early, Going, Writing, Back, Ending, Claimed
    <2> QED  BY <1>3, <1>5, <2>2, <2>3 DEF Turn, Same3, Writes, CoreKept
  <1>6. CASE fall_back /\ (flash' = flash \/ flash' # "old")
    <2>1. "file" \in Places
      BY DEF Places, Claimed, Writing
    <2> QED  BY <1>5, <1>6, <2>1, GoFields DEF fall_back, Record, RestKept, UpdateInv, Types
  <1>7. CASE /\ run' = [run EXCEPT !.sectors = run.sectors + 1,
                                   !.pc = IF run.sectors + 1 = Sectors THEN "verify" ELSE @]
             /\ RecordKept /\ flash' # "old"
    <2>1. run'.pc \in {"sector", "verify"} /\ CoreKept /\ run'.handle = run.handle
      BY <1>1, <1>7 DEF UpdateInv, Types, Tasks, CoreKept
    <2> QED  BY <1>5, <1>7, <2>1 DEF RecordKept
  <1> QED  BY <1>4, <1>6, <1>7 DEF write_sector

(* A run's steps up to the record of its end. *)
Onwards ==
    \/ Prepare \/ Prepared \/ Park \/ Parked \/ Enter \/ late_answer \/ Jump \/ Left \/ Appear
    \/ in_firmware \/ Given \/ Gate \/ Lend \/ Lent \/ Ask \/ Press \/ Button \/ Window
    \/ Boot \/ Identify \/ Erase \/ write_sector \/ verify_sector \/ Reboot \/ Rebooted
    \/ File \/ Return \/ Check \/ Restore \/ Handing \/ Refused \/ Handed \/ Landing

LEMMA OnwardsTurns == ASSUME UpdateInv, Onwards PROVE Turn
  <1>1. CASE \/ Prepare \/ Prepared \/ Park \/ Parked \/ Enter \/ Jump \/ Left \/ Appear
             \/ in_firmware \/ Given \/ Gate \/ Lend \/ Lent
    BY <1>1, PrepareWalks, PreparedWalks, ParkWalks, ParkedWalks, EnterWalks, JumpWalks,
       LeftWalks, AppearWalks, InFirmwareWalks, GivenWalks, GateWalks, LendWalks, LentWalks,
       WalkTurns
  <1>2. CASE \/ Button \/ Window \/ Boot \/ Identify \/ Erase \/ verify_sector \/ Reboot
             \/ File \/ Restore \/ Handing \/ Refused \/ Landing
    BY <1>2, ButtonWalks, WindowWalks, BootWalks, IdentifyWalks, EraseWalks, VerifyWalks,
       RebootWalks, FileWalks, RestoreWalks, HandingWalks, RefusedWalks, LandingWalks, WalkTurns
  <1>3. CASE \/ late_answer \/ Ask \/ Press \/ write_sector \/ Rebooted \/ Return \/ Check
             \/ Handed
    BY <1>3, LateAnswerTurns, AskingTurns, PressTurns, WriteSectorTurns, RebootedTurns,
       ReturnTurns, CheckTurns, HandedTurns
  <1> QED  BY <1>1, <1>2, <1>3 DEF Onwards

Core == ClaimInv /\ TaskInv /\ PlaceInv /\ FlashInv /\ EndInv /\ RecordInv /\ ExactInv

LEMMA TurnKeeps == UpdateInv /\ Turn => Core'
  BY FrameKeeps DEF Turn, Core

----------------------------------------------------------------------------
(* The end of a run. *)

LEMMA FinishKeeps ==
    ASSUME UpdateInv, Finish
    PROVE  /\ Core' /\ CoreKept /\ run'.end = run.end /\ ClaimFrame /\ flash' = flash
           /\ journal'.running = FALSE /\ journal'.outcome = run.end.outcome
           /\ run.pc = "finish"
  <1>1. run.pc = "finish" /\ ClaimFrame /\ flash' = flash
    BY DEF Finish, Plain, LinkKept, OutsideKept, outsideVars, ClaimFrame
  <1>2. PICK to \in {"giveback", "release"} : Go(to) /\ (to = "giveback" => run.handle)
    BY DEF Finish
  <1>3. to \in Places
    BY <1>2 DEF Places, Claimed, Ending
  <1>4. run'.pc \in {"giveback", "release"} /\ CoreKept /\ RestKept /\ run'.end = run.end
        /\ (run'.pc = "giveback" => run'.handle)
    BY <1>2, <1>3, GoFields DEF UpdateInv, Types, RestKept
  <1>5. /\ rec'.run = rec.run /\ rec'.kind = rec.kind /\ rec'.running = FALSE
        /\ rec'.outcome = run.end.outcome /\ rec'.requested = rec.requested
        /\ rec'.answered = rec.answered /\ journal' = rec'
    BY DEF Finish, Record, finish_record, UpdateInv, Types, Records
  <1>6. ClaimInv'
    BY <1>1, <1>4 DEF UpdateInv, ClaimInv, ClaimFrame, CoreKept, Claimed, Ending
  <1>7. TaskInv' /\ PlaceInv' /\ FlashInv' /\ EndInv'
    BY <1>1, <1>4 DEF UpdateInv, TaskInv, PlaceInv, KindOK, FlashInv, EndInv,
         CoreKept, RestKept, Early, Going, Writing, Back, Ending, Claimed
  <1>8. RecordInv'
    BY <1>1, <1>4, <1>5 DEF UpdateInv, RecordInv, Same, WellFormed, ClaimFrame, CoreKept,
         Early, Going, Writing, Back, Ending, Claimed, Unwinding
  <1>9. ExactInv'
    BY <1>1, <1>4, <1>5 DEF UpdateInv, ExactInv, EndInv, EndOK, ClaimInv, ClaimFrame, Ending, Claimed
  <1> QED  BY <1>1, <1>4, <1>5, <1>6, <1>7, <1>8, <1>9 DEF Core

LEMMA GiveBackKeeps ==
    ASSUME UpdateInv, GiveBack
    PROVE  /\ Core' /\ CoreKept /\ ClaimFrame /\ flash' = flash /\ journal' = journal
           /\ run.pc = "giveback"
  <1>1. /\ run.pc = "giveback" /\ ClaimFrame /\ flash' = flash /\ rec' = rec
        /\ journal' = journal
    BY DEF GiveBack, RecordKept, LinkKept, OutsideKept, outsideVars, ClaimFrame
  <1>2. run'.pc = "release" /\ CoreKept /\ run'.end = run.end /\ ~run'.handle
    BY DEF GiveBack, UpdateInv, Types, Tasks, CoreKept
  <1>3. ClaimInv'
    BY <1>1, <1>2 DEF UpdateInv, ClaimInv, ClaimFrame, CoreKept, Claimed, Ending
  <1>4. TaskInv' /\ PlaceInv' /\ FlashInv' /\ EndInv'
    BY <1>1, <1>2 DEF UpdateInv, TaskInv, PlaceInv, KindOK, FlashInv, EndInv,
         CoreKept, Early, Going, Writing, Back, Ending, Claimed
  <1>5. RecordInv'
    BY <1>1, <1>2 DEF UpdateInv, RecordInv, Same, WellFormed, ClaimFrame, CoreKept,
         Early, Going, Writing, Back, Ending, Claimed, Unwinding
  <1>6. ExactInv'
    BY <1>1 DEF UpdateInv, ExactInv, ClaimFrame
  <1> QED  BY <1>1, <1>2, <1>3, <1>4, <1>5, <1>6 DEF Core

(* How the claim may end. *)
LEMMA ClaimEndsFields ==
    ASSUME UpdateInv, run.pc \in Claimed, NEW o \in Outcomes, NEW over \in BOOLEAN,
           ClaimEnds(o, over)
    PROVE  /\ claim' \in Claims /\ claim'.held \in {"none", "recovery"}
           /\ claim'.held = "none" => claim' = NoClaim
           /\ claim'.held = "recovery" <=>
                 \/ Unchanged(o, over) /\ run.prior # NoRun
                 \/ recovery_token(o)
  <1>1. claim.held = "running" /\ claim.run = run.id /\ claim.run \in RunIds
    <2>1. claim.held = "running" /\ claim.run = run.id
      BY DEF UpdateInv, ClaimInv
    <2>2. claim # NoClaim /\ claim \in Claims
      BY <2>1 DEF NoClaim, UpdateInv, Types
    <2>3. claim.run \in RunIds
      BY <2>2 DEF Claims
    <2> QED  BY <2>1, <2>3
  <1>2. run.prior \in Runs
    BY DEF UpdateInv, Types, Tasks
  <1>3. CASE Unchanged(o, over) /\ run.prior # NoRun
    <2>1. claim' = NeedsRecovery(run.prior) /\ run.prior \in RunIds
      BY <1>1, <1>2, <1>3 DEF ClaimEnds, end_openfan_maintenance_restoring, Owns,
           openfan_maintenance_running, Runs
    <2> QED  BY <1>3, <2>1 DEF Claims, NeedsRecovery
  <1>4. CASE ~(Unchanged(o, over) /\ run.prior # NoRun)
    <2>1. claim' = IF recovery_token(o) THEN NeedsRecovery(run.id) ELSE NoClaim
      BY <1>1, <1>4 DEF ClaimEnds, end_openfan_maintenance, Owns, openfan_maintenance_running
    <2> QED  BY <1>1, <1>4, <2>1 DEF Claims, NeedsRecovery, NoClaim
  <1> QED  BY <1>3, <1>4

LEMMA NoTaskFields ==
    ASSUME run' = NoTask
    PROVE  /\ run'.pc = "idle" /\ run'.requested = FALSE /\ run'.answered = FALSE
           /\ run'.heard = FALSE /\ run'.over = FALSE /\ run'.written = FALSE
           /\ run'.handle = FALSE /\ run'.kind = "none" /\ run'.sectors = 0
           /\ run'.returns = 0 /\ run'.port = "none"
  BY DEF NoTask

(* A run that ends leaves the rest as it is. *)
LEMMA IdleKeeps ==
    ASSUME UpdateInv, run' = NoTask, flash' = flash, started' = started
    PROVE  TaskInv' /\ PlaceInv' /\ FlashInv' /\ EndInv'
  BY NoTaskFields DEF UpdateInv, TaskInv, Fresh, PlaceInv, KindOK, FlashInv, EndInv,
     Early, Going, Writing, Back, Ending, Claimed

LEMMA ReleaseKeeps ==
    ASSUME UpdateInv, Release
    PROVE  /\ Core' /\ ClaimEnds(run.end.outcome, run.over) /\ flash' = flash
           /\ journal' = journal /\ daemon' = daemon /\ run.pc = "release"
  <1>1. /\ run.pc = "release" /\ run.pc \in Claimed /\ flash' = flash /\ rec' = rec
        /\ journal' = journal /\ daemon' = daemon /\ started' = started
    BY DEF Release, RecordKept, Claimed, Ending
  <1>2. run.end.outcome \in Outcomes /\ run.over \in BOOLEAN
    BY DEF UpdateInv, Types, Tasks, Ends
  <1>3. /\ claim'.held \in {"none", "recovery"}
        /\ claim'.held = "recovery" <=>
              \/ Unchanged(run.end.outcome, run.over) /\ run.prior # NoRun
              \/ recovery_token(run.end.outcome)
    BY <1>1, <1>2, ClaimEndsFields DEF Release
  <1>4. TaskInv' /\ PlaceInv' /\ FlashInv' /\ EndInv'
    BY <1>1, IdleKeeps DEF Release
  <1>5. run'.pc = "idle"
    BY NoTaskFields DEF Release
  <1>6. ClaimInv'
    BY <1>1, <1>3, <1>5 DEF UpdateInv, ClaimInv, Claimed, Early, Going, Writing, Back, Ending
  <1>7. RecordInv'
    BY <1>1, <1>5 DEF UpdateInv, RecordInv, WellFormed, Early, Going, Writing, Back, Ending,
         Claimed, Unwinding
  <1>8. ExactInv'
    <2>1. rec.outcome = run.end.outcome /\ journal.outcome = run.end.outcome
      BY <1>1 DEF UpdateInv, RecordInv, Same
    <2> QED  BY <1>1, <1>3, <2>1 DEF UpdateInv, ExactInv, Unchanged, recovery_token
  <1> QED  BY <1>1, <1>4, <1>6, <1>7, <1>8 DEF Core, Release

LEMMA PanicKeeps ==
    ASSUME UpdateInv, Panic
    PROVE  /\ Core' /\ flash' = flash /\ journal' = journal /\ daemon' = daemon
           /\ run.pc \in Claimed
           /\ ClaimEnds(when_interrupted(run.requested, run.answered), FALSE)
  <1> DEFINE o == when_interrupted(run.requested, run.answered)
  <1>1. /\ flash' = flash /\ rec' = rec /\ journal' = journal /\ daemon' = daemon
        /\ started' = started
    BY DEF Panic, RecordKept, outsideVars
  <1>2. run.pc \in Claimed
    BY DEF Panic, UpdateInv, Types, Tasks, Places, Unwinding
  <1>3. run'.pc = "unwound" /\ CoreKept /\ run'.handle = run.handle
    BY DEF Panic, UpdateInv, Types, Tasks, CoreKept
  <1>4. o \in Outcomes
    BY DEF when_interrupted, Outcomes
  <1>5. /\ claim'.held \in {"none", "recovery"}
        /\ claim'.held = "recovery" <=> (Unchanged(o, FALSE) /\ run.prior # NoRun) \/ recovery_token(o)
    <2> HIDE DEF o
    <2> QED  BY <1>2, <1>4, ClaimEndsFields DEF Panic, o
  <1>6. ClaimInv'
    BY <1>1, <1>2, <1>3, <1>5 DEF UpdateInv, ClaimInv, Claimed, Early, Going, Writing, Back, Ending
  <1>7. TaskInv' /\ PlaceInv' /\ FlashInv' /\ EndInv'
    BY <1>1, <1>2, <1>3 DEF UpdateInv, TaskInv, PlaceInv, KindOK, FlashInv, EndInv,
         CoreKept, Early, Going, Writing, Back, Ending, Claimed
  <1>8. RecordInv'
    <2>1. CASE run.pc = "prepare"
      <3>1. ~run.requested /\ flash = "old" /\ rec.running /\ ~rec.requested /\ journal.run < started
        BY <2>1 DEF UpdateInv, TaskInv, Fresh, FlashInv, RecordInv, Early, Claimed
      <3> QED  BY <1>1, <1>2, <1>3, <3>1 DEF UpdateInv, RecordInv, WellFormed, CoreKept,
                  Early, Going, Writing, Back, Ending, Claimed, Unwinding
    <2>2. CASE run.pc # "prepare"
      <3>1. Same(journal, rec)
        BY <1>2, <2>2 DEF UpdateInv, RecordInv
      <3> QED  BY <1>1, <1>2, <1>3, <3>1 DEF UpdateInv, RecordInv, WellFormed, Same, CoreKept,
                  Early, Going, Writing, Back, Ending, Claimed, Unwinding
    <2> QED  BY <2>1, <2>2
  <1>9. ExactInv'
    <2>1. CASE claim'.held = "none"
      BY <1>1, <2>1 DEF UpdateInv, ExactInv
    <2>2. CASE claim'.held = "recovery"
      <3>1. ~run.answered
        BY <1>5, <2>2 DEF when_interrupted, Unchanged, recovery_token, UpdateInv, TaskInv
      <3>2. rec.outcome # "exact_build_verified"
        BY <1>2, <3>1 DEF UpdateInv, RecordInv, WellFormed, NoOutcome, EndInv, EndOK, Ending,
             TaskInv
      <3>3. journal.outcome # "exact_build_verified" \/ journal.run # started
        BY <1>2, <3>2 DEF UpdateInv, RecordInv, Same, Types, Records, Runs, NoRun
      <3> QED  BY <1>1, <3>2, <3>3 DEF ExactInv
    <2> QED  BY <1>5, <2>1, <2>2
  <1> QED  BY <1>1, <1>2, <1>6, <1>7, <1>8, <1>9 DEF Core, Panic

LEMMA UnwoundKeeps ==
    ASSUME UpdateInv, Unwound
    PROVE  /\ Core' /\ flash' = flash /\ journal' = journal /\ daemon' = daemon
           /\ claim' = claim /\ claim.held # "running" /\ claim'.held # "running"
  <1>1. /\ run.pc = "unwound" /\ flash' = flash /\ rec' = rec /\ journal' = journal
        /\ daemon' = daemon /\ started' = started /\ claim' = claim
    BY DEF Unwound, RecordKept, LinkKept
  <1>2. run'.pc = "supervised" /\ CoreKept /\ ~run'.handle
    BY DEF Unwound, UpdateInv, Types, Tasks, CoreKept
  <1>3. run.pc \notin Claimed /\ run'.pc \notin Claimed
    BY <1>1, <1>2 DEF Claimed, Early, Going, Writing, Back, Ending
  <1>4. ClaimInv'
    BY <1>1, <1>2, <1>3 DEF UpdateInv, ClaimInv
  <1>5. TaskInv' /\ PlaceInv' /\ FlashInv' /\ EndInv'
    BY <1>1, <1>2 DEF UpdateInv, TaskInv, PlaceInv, KindOK, FlashInv, EndInv,
         CoreKept, Early, Going, Writing, Back, Ending, Claimed
  <1>6. RecordInv'
    BY <1>1, <1>2, <1>3 DEF UpdateInv, RecordInv, WellFormed, Same, CoreKept, Unwinding
  <1>7. ExactInv'
    BY <1>1 DEF UpdateInv, ExactInv
  <1> QED  BY <1>1, <1>3, <1>4, <1>5, <1>6, <1>7 DEF Core, UpdateInv, ClaimInv

LEMMA SupervisedKeeps ==
    ASSUME UpdateInv, Supervised
    PROVE  /\ Core' /\ flash' = flash /\ daemon' = daemon /\ run.pc = "supervised"
           /\ claim' = claim /\ claim.held # "running" /\ claim'.held # "running"
           /\ journal' = rec'
           /\ \/ rec' = rec /\ ~rec.running
              \/ /\ rec.running /\ ~journal'.running
                 /\ journal'.outcome = when_interrupted(rec.requested, rec.answered)
  <1>1. /\ run.pc = "supervised" /\ flash' = flash /\ daemon' = daemon /\ started' = started
        /\ claim' = claim /\ run' = NoTask
    BY PlainQuiet DEF Supervised, Plain, OutsideKept, outsideVars, LinkKept
  <1>2. run'.pc = "idle"
    BY <1>1, NoTaskFields
  <1>3. run.pc \notin Claimed /\ run'.pc \notin Claimed
    BY <1>1, <1>2 DEF Claimed, Early, Going, Writing, Back, Ending
  <1>4. ClaimInv'
    BY <1>1, <1>2, <1>3 DEF UpdateInv, ClaimInv
  <1>5. TaskInv' /\ PlaceInv' /\ FlashInv' /\ EndInv'
    BY <1>1, IdleKeeps
  <1>6. journal' = rec' /\ rec'.run = rec.run /\ (~rec.running => rec' = rec)
    BY DEF Supervised, Record, finish_record, UpdateInv, Types, Records
  <1>7. ASSUME rec.running
        PROVE  ~rec'.running /\ rec'.outcome = when_interrupted(rec.requested, rec.answered)
    BY <1>7 DEF Supervised, Record, finish_record, UpdateInv, Types, Records
  <1>8. RecordInv'
    BY <1>1, <1>2, <1>3, <1>6, <1>7 DEF UpdateInv, RecordInv, WellFormed, Unwinding
  <1>9. ExactInv'
    BY <1>1, <1>6, <1>7 DEF UpdateInv, ExactInv, when_interrupted
  <1> QED  BY <1>1, <1>3, <1>4, <1>5, <1>6, <1>7, <1>8, <1>9 DEF Core, UpdateInv, ClaimInv

----------------------------------------------------------------------------
(* The start of a run. *)

(* Runs are numbered: a record is of this run or an earlier one. *)
LEMMA Numbers ==
    ASSUME Types
    PROVE  started \in Nat /\ rec.run \in Nat /\ journal.run \in Nat /\ NoRun \notin RunIds
  <1>1. started \in Runs /\ rec.run \in Runs /\ journal.run \in Runs
    BY DEF Types, Records
  <1>2. \A n \in Runs : n \in Nat
    BY RunIdsAssumption DEF Runs, NoRun
  <1>3. NoRun \notin RunIds
    BY RunIdsAssumption DEF NoRun
  <1> QED  BY <1>1, <1>2, <1>3

LEMMA StartRequestKeeps ==
    ASSUME UpdateInv, NEW k \in Kinds, NEW j \in BOOLEAN, StartRequest(k, j)
    PROVE  /\ Core' /\ flash' = flash /\ journal' = journal /\ daemon' = daemon
           /\ claim' = claim /\ claim.held # "running" /\ claim'.held # "running"
  <1>1. /\ run = NoTask /\ flash' = flash /\ rec' = rec /\ journal' = journal
        /\ daemon' = daemon /\ daemon = "up" /\ claim' = claim /\ started' = started + 1
        /\ board = "firmware"
    BY DEF StartRequest, RecordKept, LinkKept, outsideVars
  <1>2. run.pc = "idle"
    BY <1>1 DEF NoTask
  <1>3. /\ run'.pc = "claiming" /\ run'.id = started + 1 /\ run'.kind = k
        /\ run'.requested = FALSE /\ run'.answered = FALSE /\ run'.heard = FALSE
        /\ run'.over = FALSE /\ run'.written = FALSE /\ run'.handle = FALSE
    BY DEF StartRequest, NoTask
  <1>4. run.pc \notin Claimed /\ run'.pc \notin Claimed
    BY <1>2, <1>3 DEF Claimed, Early, Going, Writing, Back, Ending
  <1>5. ClaimInv'
    BY <1>1, <1>3, <1>4 DEF UpdateInv, ClaimInv
  <1>6. k # "none"
    OBVIOUS
  <1>7. TaskInv' /\ PlaceInv' /\ FlashInv' /\ EndInv'
    BY <1>1, <1>3, <1>6 DEF UpdateInv, BoardInv, TaskInv, Fresh, PlaceInv, KindOK, FlashInv, EndInv,
         Early, Going, Writing, Back, Ending, Claimed
  <1>8. rec.run < started' /\ journal.run < started'
    BY <1>1, Numbers DEF UpdateInv, RecordInv, WellFormed
  <1>9. RecordInv'
    BY <1>1, <1>3, <1>4, <1>8, Numbers DEF UpdateInv, RecordInv, WellFormed, Unwinding, NoRun
  <1>10. ExactInv'
    BY <1>1, <1>8, Numbers DEF UpdateInv, ExactInv
  <1> QED  BY <1>1, <1>4, <1>5, <1>7, <1>9, <1>10 DEF Core, UpdateInv, ClaimInv

LEMMA LaunchKeeps ==
    ASSUME UpdateInv, Launch
    PROVE  /\ Core' /\ flash' = "old" /\ journal' = journal /\ daemon' = daemon /\ daemon = "up"
           /\ claim.held # "running" /\ claim'.held = "running"
           /\ ~run'.requested /\ ~run'.heard
           /\ run'.prior = IF claim.held = "recovery" THEN claim.run ELSE NoRun
  <1>1. /\ run.pc = "claiming" /\ journal' = journal /\ daemon' = daemon /\ daemon = "up"
        /\ started' = started /\ rec' = NewRecord(run.id, run.kind)
    BY DEF Launch
  <1>2. flash' = "old"
    BY <1>1 DEF Launch, UpdateInv, FlashInv
  <1>3. claim'.held = "running" /\ claim'.run = run.id
    BY DEF Launch, try_begin_openfan_maintenance, try_begin_silent_openfan_maintenance, Running
  <1>4. /\ run'.pc = "prepare" /\ run'.id = run.id /\ run'.kind = run.kind
        /\ run'.requested = run.requested /\ run'.answered = run.answered
        /\ run'.heard = run.heard /\ run'.over = run.over /\ run'.written = run.written
        /\ run'.returns = run.returns /\ run'.handle = run.handle
        /\ run'.prior = IF claim.held = "recovery" THEN claim.run ELSE NoRun
    BY DEF Launch, UpdateInv, Types, Tasks
  <1>5. ~run.requested /\ ~run.heard /\ run.pc \notin Claimed /\ run'.pc \in Claimed
    BY <1>1, <1>4 DEF UpdateInv, TaskInv, Fresh, Claimed, Early, Going, Writing, Back, Ending
  <1>6. ClaimInv'
    BY <1>1, <1>3, <1>4, <1>5 DEF UpdateInv, ClaimInv
  <1>7. TaskInv' /\ PlaceInv' /\ FlashInv' /\ EndInv'
    BY <1>1, <1>2, <1>4, <1>5 DEF UpdateInv, TaskInv, Fresh, PlaceInv, KindOK, FlashInv, EndInv,
         Early, Going, Writing, Back, Ending, Claimed
  <1>10. /\ rec'.run = run.id /\ rec'.kind = run.kind /\ rec'.running = TRUE
         /\ rec'.requested = FALSE /\ rec'.answered = FALSE /\ rec'.outcome = NoOutcome
    BY <1>1 DEF NewRecord, NoRecord
  <1>11. run'.requested = FALSE /\ run'.answered = FALSE
    BY <1>4, <1>5 DEF UpdateInv, TaskInv, Types, Tasks
  <1>8. RecordInv'
    <2>1. run.id = started /\ started # NoRun /\ journal.run < started
          /\ WellFormed(journal, started) /\ started \in Nat
      BY <1>1, Numbers DEF UpdateInv, RecordInv
    <2>2. WellFormed(rec', started) /\ WellFormed(journal', started)
      BY <1>1, <1>10, <2>1 DEF WellFormed
    <2>3. run'.pc \notin Unwinding /\ run'.pc \notin {"idle", "claiming", "giveback", "release"}
      BY <1>4 DEF Unwinding
    <2> QED  BY <1>1, <1>4, <1>10, <1>11, <2>1, <2>2, <2>3 DEF RecordInv
  <1>9. ExactInv'
    BY <1>1, <1>10, Numbers DEF UpdateInv, ExactInv, RecordInv, NoOutcome
  <1> QED  BY <1>1, <1>2, <1>3, <1>4, <1>5, <1>6, <1>7, <1>8, <1>9
           DEF Core, UpdateInv, ClaimInv

LEMMA StartRefusedKeeps ==
    ASSUME UpdateInv, StartRefused
    PROVE  /\ Core' /\ flash' = flash /\ journal' = journal /\ daemon' = daemon
           /\ claim' = claim /\ claim.held # "running" /\ claim'.held # "running"
  <1>1. /\ run.pc = "claiming" /\ run' = NoTask /\ flash' = flash /\ journal' = journal
        /\ daemon' = daemon /\ claim' = claim /\ started' = started
        /\ rec' \in {rec, NewRecord(run.id, run.kind)}
    BY DEF StartRefused, OutsideKept, outsideVars, LinkKept
  <1>2. run'.pc = "idle" /\ run.pc \notin Claimed /\ run'.pc \notin Claimed
    BY <1>1, NoTaskFields DEF Claimed, Early, Going, Writing, Back, Ending
  <1>3. ClaimInv'
    BY <1>1, <1>2 DEF UpdateInv, ClaimInv
  <1>4. TaskInv' /\ PlaceInv' /\ FlashInv' /\ EndInv'
    BY <1>1, IdleKeeps
  <1>5. run.id = started /\ started # NoRun
    BY <1>1 DEF UpdateInv, RecordInv
  <1>8. \/ rec' = rec
        \/ rec'.run = run.id /\ rec'.running = TRUE /\ rec'.outcome = NoOutcome
    BY <1>1 DEF NewRecord, NoRecord
  <1>6. RecordInv'
    BY <1>1, <1>2, <1>5, <1>8, Numbers DEF UpdateInv, RecordInv, WellFormed, Unwinding, NoRun
  <1>7. ExactInv'
    BY <1>1, <1>8 DEF UpdateInv, ExactInv, NoOutcome
  <1> QED  BY <1>1, <1>2, <1>3, <1>4, <1>6, <1>7 DEF Core, UpdateInv, ClaimInv

----------------------------------------------------------------------------
(* What happens around a run. *)

Around ==
    /\ CoreKept /\ run'.pc = run.pc /\ run'.end = run.end /\ run'.handle = run.handle
    /\ rec' = rec /\ journal' = journal /\ started' = started /\ flash' = flash
    /\ \/ claim' = claim
       \/ /\ claim.held = "recovery" /\ claim' = NoClaim
          /\ Answers("port") \/ loop = "starting" \/ back = "port"
    /\ daemon' = daemon \/ (daemon = "up" /\ daemon' = "stopping")
    /\ daemon = "down" => loop' = "none" /\ back' = "none" /\ probe' = "idle" /\ cancel' = cancel

LEMMA AroundKeeps ==
    ASSUME UpdateInv, Around
    PROVE  Core'
  <1> USE DEF UpdateInv, Around
  <1>1. \/ claim'.held = claim.held /\ claim'.run = claim.run
        \/ claim.held = "recovery" /\ claim'.held = "none"
    BY DEF NoClaim
  <1>2. ClaimInv'
    BY <1>1 DEF ClaimInv, CoreKept, NoClaim
  <1>3. TaskInv' /\ PlaceInv' /\ FlashInv' /\ EndInv'
    BY DEF TaskInv, Fresh, PlaceInv, KindOK, FlashInv, EndInv, CoreKept
  <1>4. RecordInv'
    BY DEF RecordInv, CoreKept, WellFormed, Same
  <1>5. ExactInv'
    BY <1>1 DEF ExactInv
  <1> QED  BY <1>2, <1>3, <1>4, <1>5 DEF Core

(* Nothing of the run, its record or its claim is touched. *)
LEMMA UntouchedAround ==
    ASSUME UpdateInv, CoreKept, run'.pc = run.pc, run'.end = run.end, run'.handle = run.handle,
           RecordKept, started' = started, flash' = flash, claim' = claim,
           daemon' = daemon \/ (daemon = "up" /\ daemon' = "stopping"),
           daemon = "down" =>
               loop' = "none" /\ back' = "none" /\ probe' = "idle" /\ cancel' = cancel
    PROVE  Around
  BY DEF Around, RecordKept

LEMMA TaskStays == run' = run => CoreKept /\ run'.pc = run.pc /\ run'.end = run.end
                                 /\ run'.handle = run.handle /\ RestKept
  BY DEF CoreKept, RestKept

LEMMA DownFacts ==
    ASSUME UpdateInv, daemon = "down"
    PROVE  /\ run.pc = "idle" /\ claim = NoClaim /\ rec = NoRecord /\ ~cancel
           /\ loop = "none" /\ back = "none" /\ probe = "idle"
  BY DEF UpdateInv, ClaimInv

LEMMA RequestCancelAround == ASSUME UpdateInv, request_cancel PROVE Around
  BY TaskStays, UntouchedAround DEF request_cancel, outsideVars, LinkKept

LEMMA StopAround == ASSUME UpdateInv, Stop PROVE Around
  BY TaskStays, UntouchedAround DEF Stop, AroundKept, RecordKept, LinkKept

LEMMA LoopEndsAround == ASSUME UpdateInv, LoopEnds PROVE Around
  BY TaskStays, UntouchedAround, DownFacts
     DEF LoopEnds, LoopStops, AroundKept, RecordKept, outsideVars

LEMMA ProbingAround == ASSUME UpdateInv, Probing PROVE Around
  <1>1. /\ RecordKept /\ run' = run /\ started' = started /\ cancel' = cancel
        /\ flash' = flash /\ claim' = claim /\ daemon' = daemon
    BY DEF Probing, RescanChecks, ProbeOpens, ProbeAsks, ProbeAdopts, ProbeKept, AroundKept,
           RecordKept, LinkKept
  <1>2. daemon # "down"
    BY DownFacts DEF Probing, RescanChecks, ProbeOpens, ProbeAsks, ProbeAdopts
  <1> QED  BY <1>1, <1>2, TaskStays, UntouchedAround

LEMMA EngineAround == ASSUME UpdateInv, Engine PROVE Around
  <1>1. /\ RecordKept /\ started' = started /\ cancel' = cancel /\ flash' = flash
        /\ claim' = claim /\ daemon' = daemon /\ loop' = loop /\ back' = back /\ probe' = probe
    BY DEF Engine, EngineLocks, EngineSends, AroundKept, RecordKept, LinkKept, LoanKept, loanVars
  <1>2. CASE run' = run
    BY <1>1, <1>2, TaskStays, UntouchedAround, DownFacts
  <1>3. CASE run' = [run EXCEPT !.todo = @ \ writer]
    <2>1. CoreKept /\ run'.pc = run.pc /\ run'.end = run.end /\ run'.handle = run.handle
      BY <1>3 DEF UpdateInv, Types, Tasks, CoreKept
    <2> QED  BY <1>1, <2>1, UntouchedAround, DownFacts
  <1> QED  BY <1>2, <1>3 DEF Engine, EngineLocks, EngineSends, AroundKept

(* The link is reported: only a board that answers ends a recovery. *)
LEMMA LoopStepAround == ASSUME UpdateInv, LoopStep PROVE Around
  <1>1. /\ RecordKept /\ run' = run /\ started' = started /\ cancel' = cancel
        /\ flash' = flash /\ daemon' = daemon
    BY DEF LoopStep, AroundKept, RecordKept, outsideVars, reconnect_via_survey
  <1>2. daemon # "down"
    BY DownFacts DEF LoopStep, LoopStarts, Poll, LenderStep, LendTakes, LendAnswers, LoanEnds,
       reconnect_via_survey, Reconnect
  <1>3. \/ claim' = claim
        \/ /\ claim.held = "recovery" /\ claim' = NoClaim
           /\ Answers("port") \/ loop = "starting" \/ back = "port"
    <2>1. CASE LoopStarts
      BY <2>1 DEF LoopStarts, set_openfan_link
    <2>2. CASE Poll
      BY <2>2 DEF Poll, set_openfan_link, AfterPoll, Answers
    <2>3. CASE LendTakes \/ LendAnswers
      BY <2>3 DEF LendTakes, LendAnswers
    <2>4. CASE LoanEnds
      BY <2>4 DEF LoanEnds, set_openfan_link
    <2>5. CASE \E others \in {TRUE, OpenedElsewhere} : Reconnect(others)
      <3>1. PICK others \in {TRUE, OpenedElsewhere} : Reconnect(others)
        BY <2>5
      <3> QED  BY <3>1 DEF Reconnect, set_openfan_link, Answers
    <2> QED  BY <2>1, <2>2, <2>3, <2>4, <2>5 DEF LoopStep, LenderStep, reconnect_via_survey
  <1> QED  BY <1>1, <1>2, <1>3, TaskStays DEF Around, RecordKept

(* The board's own moves, but a copy by its user. *)
LEMMA BoardAround == ASSUME UpdateInv, Settles \/ Resets \/ Hangs \/ UserBoots PROVE Around
  <1>1. /\ RecordKept /\ started' = started /\ cancel' = cancel /\ flash' = flash
        /\ claim' = claim /\ daemon' = daemon
    BY DEF Settles, Resets, Hangs, UserBoots, Restarts, AroundKept, RecordKept, LinkKept,
           outsideVars
  <1>2. daemon = "down" => loop' = "none" /\ back' = "none" /\ probe' = "idle"
    BY DownFacts DEF Settles, Resets, Hangs, UserBoots, Restarts, Leaves, LoanKept, loanVars,
       outsideVars
  <1>3. CASE run' = run
    BY <1>1, <1>2, <1>3, TaskStays, UntouchedAround
  <1>4. CASE run' = [run EXCEPT !.port = Restarted(@)]
    <2>1. CoreKept /\ run'.pc = run.pc /\ run'.end = run.end /\ run'.handle = run.handle
      BY <1>4 DEF UpdateInv, Types, Tasks, CoreKept
    <2> QED  BY <1>1, <1>2, <2>1, UntouchedAround
  <1> QED  BY <1>3, <1>4 DEF Settles, Resets, Hangs, UserBoots, Restarts, AroundKept

(* The user copies a file where the daemon has left the board for one. *)
LEMMA UserCopiesKeeps ==
    ASSUME UpdateInv, UserCopies
    PROVE  /\ Core' /\ CoreKept /\ run'.pc = run.pc /\ journal' = journal
           /\ ClaimFrame /\ LeftForUser
  <1>1. /\ rec' = rec /\ journal' = journal /\ started' = started /\ cancel' = cancel
        /\ claim' = claim /\ daemon' = daemon /\ loop' = loop /\ back' = back
        /\ probe = "idle" => probe' = "idle"
        /\ LeftForUser
    BY DEF UserCopies, Restarts, Leaves, RecordKept, LinkKept
  <1>2. CoreKept /\ run'.pc = run.pc /\ run'.end = run.end /\ run'.handle = run.handle
    BY DEF UserCopies, Restarts, UpdateInv, Types, Tasks, CoreKept
  <1>3. ClaimInv'
    BY <1>1, <1>2, DownFacts DEF UpdateInv, ClaimInv, CoreKept
  <1>4. TaskInv' /\ PlaceInv'
    BY <1>2 DEF UpdateInv, TaskInv, Fresh, PlaceInv, KindOK, CoreKept
  <1>5. run.pc \in {"file", "idle"}
    BY <1>1, DownFacts DEF LeftForUser
  <1>6. FlashInv' /\ EndInv' /\ RecordInv'
    BY <1>1, <1>2, <1>4, <1>5 DEF UpdateInv, FlashInv, TaskInv, Fresh, EndInv, RecordInv, WellFormed,
       Same, CoreKept, Early, Going, Writing, Back, Ending, Claimed, Unwinding
  <1>7. ASSUME NEW r \in {rec, journal}, r.outcome = "exact_build_verified", r.run = started
        PROVE  FALSE
    <2>1. CASE run.pc = "file"
      <3>1. rec.running /\ journal.running
        BY <2>1 DEF UpdateInv, RecordInv, Same, Claimed, Writing
      <3> QED  BY <1>7, <3>1 DEF UpdateInv, RecordInv, WellFormed, NoOutcome
    <2>2. CASE claim.held = "recovery"
      BY <1>7, <2>2 DEF UpdateInv, ExactInv
    <2>3. CASE daemon = "down" /\ recovery_token(recover(journal).outcome)
      <3>1. rec.outcome = NoOutcome
        BY <2>3, DownFacts DEF NoRecord
      <3>2. ~journal.running
        BY <1>7, <3>1 DEF UpdateInv, RecordInv, WellFormed, NoOutcome
      <3> QED  BY <1>7, <2>3, <3>1, <3>2 DEF recover, recovery_token, NoOutcome
    <2> QED  BY <1>1, <2>1, <2>2, <2>3 DEF LeftForUser
  <1>8. ExactInv'
    BY <1>1, <1>7 DEF ExactInv
  <1> QED  BY <1>1, <1>2, <1>3, <1>4, <1>6, <1>8 DEF Core, ClaimFrame

----------------------------------------------------------------------------
(* The daemon dies, and starts again. *)

LEMMA NoRecordFields ==
    /\ NoRecord.run = NoRun /\ NoRecord.kind = "none" /\ NoRecord.running = FALSE
    /\ NoRecord.cancellable = FALSE /\ NoRecord.requested = FALSE
    /\ NoRecord.outcome = NoOutcome /\ NoRecord.answered = FALSE
  BY DEF NoRecord

LEMMA DiesKeeps ==
    ASSUME UpdateInv, Dies
    PROVE  /\ Core' /\ flash' = flash /\ journal' = journal /\ daemon # "down"
           /\ daemon' = "down" /\ claim' = NoClaim
  <1>1. /\ daemon # "down" /\ daemon' = "down" /\ run' = NoTask /\ claim' = NoClaim
        /\ rec' = NoRecord /\ cancel' = FALSE /\ loop' = "none" /\ back' = "none"
        /\ probe' = "idle" /\ flash' = flash /\ journal' = journal /\ started' = started
    BY DEF Dies, Memory
  <1>2. run'.pc = "idle" /\ run'.pc \notin Claimed
    BY <1>1, NoTaskFields DEF Claimed, Early, Going, Writing, Back, Ending
  <1>3. ClaimInv'
    BY <1>1, <1>2 DEF ClaimInv, NoClaim
  <1>4. TaskInv' /\ PlaceInv' /\ FlashInv' /\ EndInv'
    BY <1>1, IdleKeeps
  <1>5. RecordInv'
    BY <1>1, <1>2, NoRecordFields, Numbers DEF UpdateInv, RecordInv, WellFormed, Unwinding, NoRun
  <1>6. ExactInv'
    BY <1>1 DEF UpdateInv, ExactInv, NoClaim, NoRecord, NoOutcome
  <1> QED  BY <1>1, <1>3, <1>4, <1>5, <1>6 DEF Core

(* What a start makes of the journal. *)
LEMMA RecoverFields ==
    ASSUME journal \in Records
    PROVE  /\ recover(journal).run = journal.run /\ recover(journal).kind = journal.kind
           /\ ~recover(journal).running
           /\ recover(journal).requested = journal.requested
           /\ recover(journal).outcome =
                 IF journal.running THEN when_interrupted(journal.requested, journal.answered)
                 ELSE journal.outcome
           /\ journal.running => ~recover(journal).cancellable
           /\ ~journal.running => recover(journal) = journal
  <1>1. CASE journal.running
    BY <1>1 DEF recover, finish_record, Records
  <1>2. CASE ~journal.running
    BY <1>2 DEF recover
  <1> QED  BY <1>1, <1>2

LEMMA StartKeeps ==
    ASSUME UpdateInv, Start
    PROVE  /\ Core' /\ flash' = flash /\ journal' = recover(journal)
           /\ daemon = "down" /\ daemon' = "up" /\ claim = NoClaim
           /\ claim' = IF /\ recovery_token(recover(journal).outcome)
                          /\ ~Answers("port") /\ board # "empty"
                       THEN NeedsRecovery(recover(journal).run) ELSE NoClaim
           /\ loop = "none" /\ back = "none" /\ probe = "idle"
  <1> DEFINE r == recover(journal)
  <1>1. /\ daemon = "down" /\ daemon' = "up" /\ run' = run /\ rec' = r /\ journal' = r
        /\ flash' = flash /\ started' = started /\ cancel' = cancel
        /\ claim = NoClaim /\ run.pc = "idle" /\ loop = "none" /\ back = "none" /\ probe = "idle"
    BY DownFacts DEF Start
  <1>2. claim' = IF recovery_token(r.outcome) /\ ~Answers("port") /\ board # "empty"
                 THEN NeedsRecovery(r.run) ELSE NoClaim
    BY <1>1 DEF Start, restore_openfan_recovery, NoClaim
  <1>3. /\ r.run = journal.run /\ ~r.running
        /\ r.outcome = IF journal.running
                       THEN when_interrupted(journal.requested, journal.answered)
                       ELSE journal.outcome
    BY RecoverFields DEF UpdateInv, Types
  <1> HIDE DEF r
  <1>4. run'.pc = "idle" /\ run'.pc \notin Claimed /\ claim'.held # "running"
    BY <1>1, <1>2 DEF Claimed, Early, Going, Writing, Back, Ending, NoClaim, NeedsRecovery
  <1>5. ClaimInv'
    BY <1>1, <1>4 DEF ClaimInv
  <1>6. TaskInv' /\ PlaceInv' /\ FlashInv' /\ EndInv'
    BY <1>1 DEF UpdateInv, TaskInv, Fresh, PlaceInv, KindOK, FlashInv, EndInv
  <1>7. RecordInv'
    BY <1>1, <1>3, <1>4 DEF UpdateInv, RecordInv, WellFormed, Unwinding
  <1>8. ASSUME r.outcome = "exact_build_verified", r.run = started
        PROVE  flash = "daemon" /\ claim'.held # "recovery"
    <2>1. journal.outcome = "exact_build_verified"
      BY <1>3, <1>8 DEF when_interrupted
    <2> QED  BY <1>2, <1>3, <1>8, <2>1 DEF UpdateInv, ExactInv, recovery_token, NoClaim
  <1>9. ExactInv'
    BY <1>1, <1>8 DEF ExactInv
  <1> QED  BY <1>1, <1>2, <1>5, <1>6, <1>7, <1>9 DEF Core, r

----------------------------------------------------------------------------
(* Every step keeps these. *)

LEMMA CoreStep == UpdateInv /\ [Next]_vars => Core'
  <1> SUFFICES ASSUME UpdateInv, [Next]_vars PROVE Core'
    OBVIOUS
  <1>1. CASE Onwards
    BY <1>1, OnwardsTurns, TurnKeeps
  <1>2. CASE Finish \/ GiveBack \/ Release \/ Panic \/ Unwound \/ Supervised
    BY <1>2, FinishKeeps, GiveBackKeeps, ReleaseKeeps, PanicKeeps, UnwoundKeeps, SupervisedKeeps
  <1>3. CASE Starting
    BY <1>3, StartRequestKeeps, LaunchKeeps, StartRefusedKeeps DEF Starting
  <1>4. CASE request_cancel \/ Stop \/ LoopEnds \/ Probing \/ Engine \/ LoopStep
             \/ Settles \/ Resets \/ Hangs \/ UserBoots
    BY <1>4, RequestCancelAround, StopAround, LoopEndsAround, ProbingAround, EngineAround,
       LoopStepAround, BoardAround, AroundKeeps
  <1>5. CASE Dies \/ Start \/ UserCopies
    BY <1>5, DiesKeeps, StartKeeps, UserCopiesKeeps
  <1>6. CASE UNCHANGED vars
    BY <1>6 DEF vars, boardVars, loanVars, outsideVars, runVars, UpdateInv, Core, ClaimInv,
       TaskInv, Fresh, PlaceInv, KindOK, FlashInv, EndInv, EndOK, RecordInv, WellFormed, Same, ExactInv
  <1> QED  BY <1>1, <1>2, <1>3, <1>4, <1>5, <1>6 DEF Next, RunStep, Onwards, Life, BoardStep

----------------------------------------------------------------------------
(* Types: the task and the records. *)

TaskTypes == run \in Tasks /\ SectorInv

LEMMA GoTyped ==
    ASSUME TaskTypes, NEW to \in Places, Go(to), to \in Before \cup {"sector"} => run.pc \in Before
    PROVE  TaskTypes'
  <1>1. run' \in Tasks /\ run'.pc = to /\ run'.sectors = run.sectors
    BY GoFields DEF TaskTypes, RestKept
  <1>2. "sector" \notin Before
    BY DEF Before, Early, Going
  <1> QED  BY <1>1, <1>2 DEF TaskTypes, SectorInv

LEMMA FinishNotBefore == "finish" \notin Before /\ "sector" \notin Before
  BY DEF Before, Early, Going

LEMMA EndTyped ==
    ASSUME TaskTypes, rec \in Records,
           EndCancelled \/ Interrupted \/ \E o \in Outcomes : EndRun(o)
    PROVE  TaskTypes'
  <1>1. run' \in Tasks /\ run'.pc = "finish"
    BY EndCancelledFields, InterruptedFields, EndRunFields DEF TaskTypes
  <1> QED  BY <1>1, FinishNotBefore DEF TaskTypes, SectorInv

(* A task that goes back to no place of the beginning. *)
LEMMA StepTyped ==
    ASSUME TaskTypes, run' \in Tasks, run'.sectors = run.sectors,
           \/ run'.pc = run.pc
           \/ (run'.pc \in Before => run.pc \in Before) /\ run'.pc # "sector"
    PROVE  TaskTypes'
  BY DEF TaskTypes, SectorInv

LEMMA InPlaces ==
    /\ Early \subseteq Places /\ Going \subseteq Places /\ Writing \subseteq Places
    /\ Back \subseteq Places /\ Ending \subseteq Places /\ Unwinding \subseteq Places
    /\ {"press", "idle", "claiming"} \subseteq Places
  BY DEF Places, Claimed

LEMMA PortTypes ==
    /\ \A t \in Transports : Restarted(t) \in Transports
    /\ "none" \in Transports /\ "port" \in Transports /\ "stale" \in Transports
  BY DEF Transports, Restarted

LEMMA FirstStagesTyped ==
    ASSUME Types, Prepare \/ Prepared \/ Park \/ Parked \/ Enter \/ Lend \/ Jump \/ Left
    PROVE  TaskTypes'
  <1> USE InPlaces, FinishNotBefore
  <1>0. TaskTypes /\ rec \in Records /\ run \in Tasks /\ "no_firmware_change" \in Outcomes
    BY DEF Types, TaskTypes, Outcomes
  <1>1. CASE EndCancelled \/ Interrupted \/ \E o \in Outcomes : EndRun(o)
    BY <1>0, <1>1, EndTyped
  <1>2. CASE \E to \in {"prepared", "gate", "enter", "borrow"} : Go(to) /\ run.pc \in Early
    <2>1. PICK to \in {"prepared", "gate", "enter", "borrow"} : Go(to) /\ run.pc \in Early
      BY <1>2
    <2>2. to \in Places /\ run.pc \in Before
      BY <2>1 DEF Early, Before
    <2> QED  BY <1>0, <2>1, <2>2, GoTyped
  <1>3. CASE \E to \in {"appear", "press", "touch", "answering"} : Go(to) /\ run.pc = "left"
    <2>1. PICK to \in {"appear", "press", "touch", "answering"} : Go(to) /\ run.pc = "left"
      BY <1>3
    <2>2. to \in Places /\ run.pc \in Before
      BY <2>1 DEF Going, Before
    <2> QED  BY <1>0, <2>1, <2>2, GoTyped
  <1>4. CASE run' = [run EXCEPT !.pc = "park", !.todo = Channels] /\ run.pc = "prepared"
    <2>1. "park" \in Places /\ run.pc \in Before /\ "park" # "sector" /\ Channels \in SUBSET Channels
      BY <1>4 DEF Early, Before
    <2>2. run' \in Tasks
      BY <1>0, <1>4, <2>1, Zenon DEF Tasks
    <2>3. run'.pc = "park" /\ run'.sectors = run.sectors
      BY <1>0, <1>4 DEF Tasks
    <2> QED  BY <1>0, <2>1, <2>2, <2>3, StepTyped
  <1>5. CASE \E c : run' = [run EXCEPT !.todo = @ \ {c}]
    <2>1. PICK c : run' = [run EXCEPT !.todo = @ \ {c}]
      BY <1>5
    <2>2. run.todo \ {c} \in SUBSET Channels
      BY <1>0 DEF Tasks
    <2>3. run' \in Tasks
      BY <1>0, <2>1, <2>2, Zenon DEF Tasks
    <2>4. run'.pc = run.pc /\ run'.sectors = run.sectors
      BY <1>0, <2>1 DEF Tasks
    <2> QED  BY <1>0, <2>3, <2>4, StepTyped
  <1>6. CASE Jump
    <2>1. PICK leaves \in BOOLEAN :
            run' = [run EXCEPT !.pc = "left",
                         !.port = IF run.pc = "touch" THEN "none"
                                  ELSE IF leaves THEN Restarted(@) ELSE @]
      BY <1>6 DEF Jump
    <2>2. "left" \in Places /\ run.pc \in Before /\ "left" # "sector"
      BY <1>6 DEF Jump, Going, Before
    <2> DEFINE p == IF run.pc = "touch" THEN "none"
                    ELSE IF leaves THEN Restarted(run.port) ELSE run.port
    <2>3. p \in Transports /\ run' = [run EXCEPT !.pc = "left", !.port = p]
      BY <1>0, <2>1, PortTypes DEF Tasks
    <2> HIDE DEF p
    <2>4. run' \in Tasks
      BY <1>0, <2>2, <2>3, Zenon DEF Tasks
    <2>5. run'.pc = "left" /\ run'.sectors = run.sectors
      BY <1>0, <2>3 DEF Tasks
    <2> QED  BY <1>0, <2>2, <2>4, <2>5, StepTyped
  <1>7. CASE Prepare \/ Prepared \/ Park
    <2>1. Prepare => \E to \in {"prepared", "gate"} : (Go(to) /\ run.pc \in Early) \/ EndRun("no_firmware_change")
      BY DEF Prepare, Early
    <2> QED  BY <1>0, <1>1, <1>2, <1>4, <1>5, <1>7, <2>1 DEF Prepared, Park
  <1>8. CASE Parked \/ Enter \/ Lend
    BY <1>0, <1>1, <1>2, <1>8 DEF Parked, Enter, Lend, Borrow, Early
  <1>9. CASE Left
    BY <1>0, <1>1, <1>3, <1>9 DEF Left
  <1> QED  BY <1>6, <1>7, <1>8, <1>9

(* A handing over leaves the beginning behind.                             *)
LEMMA HandOverTyped ==
    ASSUME TaskTypes, NEW t, hand_over(t)
    PROVE  TaskTypes'
  <1>0. run \in Tasks
    BY DEF TaskTypes
  <1> USE InPlaces, PortTypes
  <1>1. {"handing", "handed", "refused"} \subseteq Places
    BY DEF Back
  <1>2. run' \in Tasks
    <2>1. CASE run' = [run EXCEPT !.pc = "handing", !.handle = FALSE, !.port = "none",
                                  !.heard = TRUE]
      BY <1>0, <1>1, <2>1, Zenon DEF Tasks
    <2>2. CASE run' = [run EXCEPT !.pc = "handed", !.port = "none", !.heard = TRUE]
      BY <1>0, <1>1, <2>2, Zenon DEF Tasks
    <2>3. CASE run' = [run EXCEPT !.pc = "refused", !.port = "none", !.heard = TRUE]
      BY <1>0, <1>1, <2>3, Zenon DEF Tasks
    <2> QED  BY <2>1, <2>2, <2>3 DEF hand_over
  <1>3. run'.sectors = run.sectors
    <2>1. CASE run' = [run EXCEPT !.pc = "handing", !.handle = FALSE, !.port = "none",
                                  !.heard = TRUE]
      BY <1>0, <2>1 DEF Tasks
    <2>2. CASE run' = [run EXCEPT !.pc = "handed", !.port = "none", !.heard = TRUE]
      BY <1>0, <2>2 DEF Tasks
    <2>3. CASE run' = [run EXCEPT !.pc = "refused", !.port = "none", !.heard = TRUE]
      BY <1>0, <2>3 DEF Tasks
    <2> QED  BY <2>1, <2>2, <2>3 DEF hand_over
  <1>4. run'.pc \in {"handing", "handed", "refused"}
    BY <1>0, HandOverFields
  <1>5. run'.pc \notin Before /\ run'.pc # "sector"
    BY <1>4 DEF Before, Early, Going
  <1> QED  BY <1>2, <1>3, <1>5, StepTyped

LEMMA MiddleStagesTyped ==
    ASSUME Types, \/ Appear \/ in_firmware \/ Given \/ Gate \/ Lent \/ late_answer \/ Ask
                  \/ Press \/ Window \/ Boot
    PROVE  TaskTypes'
  <1> USE InPlaces, FinishNotBefore, PortTypes
  <1>0. /\ TaskTypes /\ rec \in Records /\ run \in Tasks /\ passing \in Transports
        /\ {"no_firmware_change", "needs_recovery"} \subseteq Outcomes
    BY DEF Types, TaskTypes, Outcomes
  <1>1. CASE EndCancelled \/ Interrupted \/ \E o \in Outcomes : EndRun(o)
    BY <1>0, <1>1, EndTyped
  <1>2. CASE \E to \in {"window", "press", "boot", "asking"} :
               Go(to) /\ run.pc \in {"appear", "lent", "window"}
    <2>1. PICK to \in {"window", "press", "boot", "asking"} :
            Go(to) /\ run.pc \in {"appear", "lent", "window"}
      BY <1>2
    <2>2. to \in Places /\ run.pc \in Before
      BY <2>1 DEF Going, Early, Before
    <2> QED  BY <1>0, <2>1, <2>2, GoTyped
  <1>3. CASE Appear
    <2>1. CASE run' = [run EXCEPT !.pc = "answering", !.port = "none"]
      <3>1. "answering" \in Places /\ run.pc \in Before /\ "answering" # "sector"
        BY <1>3 DEF Appear, Going, Before
      <3>2. run' \in Tasks
        BY <1>0, <2>1, <3>1, Zenon DEF Tasks
      <3>3. run'.pc = "answering" /\ run'.sectors = run.sectors
        BY <1>0, <2>1 DEF Tasks
      <3> QED  BY <1>0, <3>1, <3>2, <3>3, StepTyped
    <2> QED  BY <1>0, <1>1, <1>2, <1>3, <2>1 DEF Appear
  <1>4. CASE in_firmware
    <2>1. "giving" \in Places /\ run.pc \in Before /\ "giving" # "sector"
      BY <1>4 DEF in_firmware, Going, Before
    <2>2. run' \in Tasks
      BY <1>0, <1>4, <2>1, Zenon DEF in_firmware, Tasks
    <2>3. run'.pc = "giving" /\ run'.sectors = run.sectors
      BY <1>0, <1>4 DEF in_firmware, Tasks
    <2> QED  BY <1>0, <2>1, <2>2, <2>3, StepTyped
  <1>5. CASE Gate
    <2>1. CASE run' = [run EXCEPT !.pc = IF controller THEN "lend" ELSE "lent", !.gate = TRUE]
      <3>1. PICK p \in {"lend", "lent"} : run' = [run EXCEPT !.pc = p, !.gate = TRUE]
        BY <2>1
      <3>2. p \in Places /\ run.pc \in Before /\ p # "sector"
        BY <1>5 DEF Gate, Early, Before
      <3>3. run' \in Tasks
        BY <1>0, <3>1, <3>2, Zenon DEF Tasks
      <3>4. run'.pc = p /\ run'.sectors = run.sectors
        BY <1>0, <3>1 DEF Tasks
      <3> QED  BY <1>0, <3>2, <3>3, <3>4, StepTyped
    <2> QED  BY <1>0, <1>1, <1>5, <2>1 DEF Gate
  <1>6. CASE late_answer
    <2>1. CASE run' = [run EXCEPT !.pc = "lent", !.port = passing, !.handle = TRUE]
      <3>1. "lent" \in Places /\ run.pc \in Before /\ "lent" # "sector"
        BY <1>6 DEF late_answer, Early, Before
      <3>2. run' \in Tasks
        BY <1>0, <2>1, <3>1, Zenon DEF Tasks
      <3>3. run'.pc = "lent" /\ run'.sectors = run.sectors
        BY <1>0, <2>1 DEF Tasks
      <3> QED  BY <1>0, <3>1, <3>2, <3>3, StepTyped
    <2>2. CASE run' = [run EXCEPT !.pc = "jump", !.port = passing, !.handle = TRUE,
                                  !.requested = TRUE]
      <3>1. "jump" \in Places /\ run.pc \in Before /\ "jump" # "sector"
        BY <1>6 DEF late_answer, Early, Going, Before
      <3>2. run' \in Tasks
        BY <1>0, <2>2, <3>1, Zenon DEF Tasks
      <3>3. run'.pc = "jump" /\ run'.sectors = run.sectors
        BY <1>0, <2>2 DEF Tasks
      <3> QED  BY <1>0, <3>1, <3>2, <3>3, StepTyped
    <2> QED  BY <1>0, <1>1, <1>6, <2>1, <2>2 DEF late_answer
  <1>7. CASE Ask
    <2>1. CASE \E t : hand_over(t)
      BY <1>0, <2>1, HandOverTyped
    <2>2. CASE \E t \in Transports :
                 run' = [run EXCEPT !.pc = "touch", !.port = t, !.requested = TRUE]
      <3>1. PICK t \in Transports :
              run' = [run EXCEPT !.pc = "touch", !.port = t, !.requested = TRUE]
        BY <2>2
      <3>2. "touch" \in Places /\ run.pc \in Before /\ "touch" # "sector"
        BY <1>7 DEF Ask, Early, Going, Before
      <3>3. run' \in Tasks
        BY <1>0, <3>1, <3>2, Zenon DEF Tasks
      <3>4. run'.pc = "touch" /\ run'.sectors = run.sectors
        BY <1>0, <3>1 DEF Tasks
      <3> QED  BY <1>0, <3>2, <3>3, <3>4, StepTyped
    <2>3. CASE run' = [run EXCEPT !.pc = "press", !.port = "none"]
      <3>1. "press" \in Places /\ run.pc \in Before /\ "press" # "sector"
        BY <1>7 DEF Ask, Early, Before
      <3>2. run' \in Tasks
        BY <1>0, <2>3, <3>1, Zenon DEF Tasks
      <3>3. run'.pc = "press" /\ run'.sectors = run.sectors
        BY <1>0, <2>3 DEF Tasks
      <3> QED  BY <1>0, <3>1, <3>2, <3>3, StepTyped
    <2>4. \A t : t \in {"port"} \cup {"stale"} \cup Reopened => t \in Transports
      BY DEF Reopened
    <2> QED  BY <1>7, <2>1, <2>2, <2>3, <2>4 DEF Ask
  <1>8. CASE Press
    <2>1. "button" \in Places /\ run.pc \in Before /\ "button" # "sector"
      BY <1>8 DEF Press, Going, Before
    <2>2. run' \in Tasks
      BY <1>0, <1>8, <2>1, Zenon DEF Press, Tasks
    <2>3. run'.pc = "button" /\ run'.sectors = run.sectors
      BY <1>0, <1>8 DEF Press, Tasks
    <2> QED  BY <1>0, <2>1, <2>2, <2>3, StepTyped
  <1>9. CASE Boot
    <2>1. PICK p \in {"identify", "file"} : run' = [run EXCEPT !.pc = p, !.port = "none"]
      BY <1>9 DEF Boot
    <2>2. p \in Places /\ run.pc \in Before /\ p # "sector"
      BY <1>9, <2>1 DEF Boot, Going, Writing, Before
    <2>3. run' \in Tasks
      BY <1>0, <2>1, <2>2, Zenon DEF Tasks
    <2>4. run'.pc = p /\ run'.sectors = run.sectors
      BY <1>0, <2>1 DEF Tasks
    <2> QED  BY <1>0, <2>2, <2>3, <2>4, StepTyped
  <1>10. CASE Given \/ Lent \/ Window
    BY <1>0, <1>1, <1>2, <1>10 DEF Given, Lent, Window
  <1> QED  BY <1>3, <1>4, <1>5, <1>6, <1>7, <1>8, <1>9, <1>10

LEMMA ButtonTyped == ASSUME Types, Button PROVE TaskTypes'
  <1> USE InPlaces, FinishNotBefore
  <1>0. /\ TaskTypes /\ rec \in Records /\ run \in Tasks /\ run.pc = "button"
        /\ run.ending \in {NoEnd, Cancelled, Unmoved}
    BY DEF Types, TaskTypes, Button, Tasks
  <1>1. CASE Go("window")
    <2>1. "window" \in Places /\ run.pc \in Before
      BY <1>0 DEF Going, Before
    <2> QED  BY <1>0, <1>1, <2>1, GoTyped
  <1>2. CASE Interrupted
    BY <1>0, <1>2, EndTyped
  <1>3. CASE run' = [run EXCEPT !.pc = "finish", !.end = run.ending]
    <2>1. run.ending \in Ends
      BY <1>0, NoEndType
    <2>2. run' \in Tasks /\ run'.pc = "finish"
      BY <1>0, <1>3, <2>1, EndFields
    <2> QED  BY <2>2, FinishNotBefore DEF TaskTypes, SectorInv
  <1>4. CASE \E w \in BOOLEAN, e \in {NoEnd, Cancelled, Unmoved} :
               run' = [run EXCEPT !.waited = w, !.ending = e]
    <2>1. PICK w \in BOOLEAN, e \in {NoEnd, Cancelled, Unmoved} :
            run' = [run EXCEPT !.waited = w, !.ending = e]
      BY <1>4
    <2>2. run' \in Tasks
      BY ZenonT(60), <1>0, <2>1, Zenon DEF Tasks
    <2>3. run'.pc = run.pc /\ run'.sectors = run.sectors
      BY <1>0, <2>1 DEF Tasks
    <2> QED  BY <1>0, <2>2, <2>3, StepTyped
  <1>5. CASE run' = [run EXCEPT !.waited = TRUE]
    <2>1. run' \in Tasks
      BY <1>0, <1>5, Zenon DEF Tasks
    <2>2. run'.pc = run.pc /\ run'.sectors = run.sectors
      BY <1>0, <1>5 DEF Tasks
    <2> QED  BY <1>0, <2>1, <2>2, StepTyped
  <1>6. CASE run' = [run EXCEPT !.ending = NoEnd]
    <2>1. run' \in Tasks
      BY <1>0, <1>6, Zenon DEF Tasks
    <2>2. run'.pc = run.pc /\ run'.sectors = run.sectors
      BY <1>0, <1>6 DEF Tasks
    <2> QED  BY <1>0, <2>1, <2>2, StepTyped
  <1>7. CASE run' = [run EXCEPT !.waited = board = "empty",
                                !.ending = IF cancel THEN Cancelled ELSE Unmoved]
    <2> DEFINE e == IF cancel THEN Cancelled ELSE Unmoved
               w == board = "empty"
    <2>1. e \in {NoEnd, Cancelled, Unmoved} /\ w \in BOOLEAN
      OBVIOUS
    <2>2. run' = [run EXCEPT !.waited = w, !.ending = e]
      BY <1>7
    <2> HIDE DEF e, w
    <2> QED  BY <1>4, <2>1, <2>2
  <1> QED  BY <1>1, <1>2, <1>3, <1>5, <1>6, <1>7 DEF Button, Unmoved

LEMMA WritingStagesTyped ==
    ASSUME Types, \/ Identify \/ Erase \/ verify_sector \/ Reboot \/ Rebooted
                  \/ File \/ Return \/ Check
    PROVE  TaskTypes'
  <1> USE InPlaces, FinishNotBefore, PortTypes
  <1>0. /\ TaskTypes /\ rec \in Records /\ run \in Tasks
        /\ {"needs_recovery", "firmware_copied_board_not_back"} \subseteq Outcomes
    BY DEF Types, TaskTypes, Outcomes
  <1>1. CASE Interrupted \/ \E o \in Outcomes : EndRun(o)
    BY <1>0, <1>1, EndTyped
  <1>2. CASE \E to \in {"erase", "file", "sector", "reboot", "rebooted", "return", "check"} :
               Go(to) /\ (to \in {"erase", "sector"} => run.pc \in {"identify", "erase"})
    <2>1. PICK to \in {"erase", "file", "sector", "reboot", "rebooted", "return", "check"} :
            Go(to) /\ (to \in {"erase", "sector"} => run.pc \in {"identify", "erase"})
      BY <1>2
    <2>2. to \in Places /\ (to \in Before \cup {"sector"} => run.pc \in Before)
      BY <2>1 DEF Going, Writing, Early, Before
    <2> QED  BY <1>0, <2>1, <2>2, GoTyped
  <1>3. CASE Identify \/ Erase \/ verify_sector \/ Reboot \/ File
    BY <1>1, <1>2, <1>3, <1>0
       DEF Identify, Erase, verify_sector, Reboot, File, fall_back, stop_writing, Go
  <1>4. CASE Rebooted
    <2>1. CASE run' = [run EXCEPT !.pc = "return", !.written = TRUE]
      <3>1. "return" \in Places /\ "return" \notin Before
        BY DEF Writing, Early, Going, Before
      <3>2. run' \in Tasks
        BY <1>0, <2>1, <3>1, Zenon DEF Tasks
      <3>3. run'.pc = "return" /\ run'.sectors = run.sectors
        BY <1>0, <2>1 DEF Tasks
      <3> QED  BY <1>0, <3>1, <3>2, <3>3, StepTyped
    <2> QED  BY <1>1, <1>2, <1>4, <2>1 DEF Rebooted, fall_back
  <1>5. CASE Return
    <2>1. CASE run.returns + 1 < MaxReturns /\ run' = [run EXCEPT !.returns = @ + 1, !.pc = "file"]
      <3>1. "file" \in Places /\ "file" \notin Before
        BY DEF Writing, Early, Going, Before
      <3>2. run.returns + 1 \in 0 .. MaxReturns - 1
        BY <1>0, <2>1 DEF Tasks
      <3>3. run' \in Tasks
        BY <1>0, <2>1, <3>1, <3>2, Zenon DEF Tasks
      <3>4. run'.pc = "file" /\ run'.sectors = run.sectors
        BY <1>0, <2>1 DEF Tasks
      <3> QED  BY <1>0, <3>1, <3>3, <3>4, StepTyped
    <2>2. run.returns \in Nat /\ MaxReturns \in Nat
      BY <1>0 DEF Tasks
    <2> QED  BY <1>0, <1>1, <1>2, <1>5, <2>1, <2>2 DEF Return
  <1>6. CASE Check
    <2>1. CASE run' = [run EXCEPT !.pc = "restore", !.port = "port", !.answered = TRUE,
                                  !.heard = TRUE]
      <3>1. "restore" \in Places /\ "restore" \notin Before
        BY DEF Back, Early, Going, Before
      <3>2. run' \in Tasks
        BY <1>0, <2>1, <3>1, Zenon DEF Tasks
      <3>3. run'.pc = "restore" /\ run'.sectors = run.sectors
        BY <1>0, <2>1 DEF Tasks
      <3> QED  BY <1>0, <3>1, <3>2, <3>3, StepTyped
    <2> QED  BY <1>0, <1>1, <1>6, <2>1 DEF Check
  <1> QED  BY <1>3, <1>4, <1>5, <1>6

LEMMA WriteSectorTyped == ASSUME Types, write_sector PROVE TaskTypes'
  <1> USE InPlaces
  <1>0. TaskTypes /\ rec \in Records /\ run \in Tasks /\ run.pc = "sector"
    BY DEF Types, TaskTypes, write_sector
  <1>1. CASE Interrupted
    BY <1>0, <1>1, EndTyped
  <1>2. CASE Go("file")
    <2>1. "file" \in Places /\ "file" \notin Before \cup {"sector"}
      BY DEF Writing, Early, Going, Before
    <2> QED  BY <1>0, <1>2, <2>1, GoTyped
  <1>3. CASE run' = [run EXCEPT !.sectors = run.sectors + 1,
                                !.pc = IF run.sectors + 1 = Sectors THEN "verify" ELSE @]
    <2> DEFINE n == run.sectors + 1
               p == IF n = Sectors THEN "verify" ELSE "sector"
    <2>1. n \in 0 .. Sectors /\ (p = "sector" => n < Sectors)
      BY <1>0 DEF TaskTypes, SectorInv, Tasks
    <2>2. p \in Places /\ p \notin Before
      BY DEF Writing, Early, Going, Before
    <2>3. run' = [run EXCEPT !.sectors = n, !.pc = p]
      BY <1>0, <1>3
    <2> HIDE DEF n, p
    <2>4. run' \in Tasks
      BY <1>0, <2>1, <2>2, <2>3, Zenon DEF Tasks
    <2>5. run'.pc = p /\ run'.sectors = n
      BY <1>0, <2>3 DEF Tasks
    <2> QED  BY <2>1, <2>2, <2>4, <2>5 DEF TaskTypes, SectorInv
  <1> QED  BY <1>1, <1>2, <1>3 DEF write_sector, stop_writing, fall_back

LEMMA BackStagesTyped ==
    ASSUME Types, Restore \/ Handing \/ Refused \/ Handed \/ Landing
    PROVE  TaskTypes'
  <1> USE InPlaces, FinishNotBefore
  <1>0. /\ TaskTypes /\ rec \in Records /\ run \in Tasks
        /\ {"board_back_control_not_restored", "firmware_copied_board_not_back",
            "exact_build_verified", "completed_build_not_confirmed",
            "back_on_previous_firmware"} \subseteq Outcomes
    BY DEF Types, TaskTypes, Outcomes
  <1>1. CASE Interrupted \/ \E o \in Outcomes : EndRun(o)
    BY <1>0, <1>1, EndTyped
  <1>2. CASE Restore
    BY <1>0, <1>1, <1>2, HandOverTyped DEF Restore
  <1>3. CASE Handing
    <2>1. PICK to \in {"handed", "refused"} : Go(to)
      BY <1>3 DEF Handing
    <2>2. to \in Places /\ to \notin Before \cup {"sector"}
      BY <2>1 DEF Back, Early, Going, Before
    <2> QED  BY <1>0, <2>1, <2>2, GoTyped
  <1>4. CASE Handed
    <2>1. {"landing", "finish"} \subseteq Places /\ {"landing", "finish"} \cap Before = {}
          /\ Channels \in SUBSET Channels /\ Unmoved \in Ends
      BY NoEndType DEF Back, Ending, Early, Going, Before
    <2>2. CASE run' = [run EXCEPT !.pc = "landing", !.over = TRUE, !.todo = Channels]
      <3>1. run' \in Tasks
        BY <1>0, <2>1, <2>2, Zenon DEF Tasks
      <3>2. run'.pc = "landing" /\ run'.sectors = run.sectors
        BY <1>0, <2>2 DEF Tasks
      <3> QED  BY <1>0, <2>1, <3>1, <3>2, StepTyped
    <2>3. CASE run' = [run EXCEPT !.pc = "finish", !.over = TRUE, !.end = Unmoved]
      <3>1. run' \in Tasks
        BY <1>0, <2>1, <2>3, Zenon DEF Tasks
      <3>2. run'.pc = "finish" /\ run'.sectors = run.sectors
        BY <1>0, <2>3 DEF Tasks
      <3> QED  BY <1>0, <2>1, <3>1, <3>2, StepTyped
    <2> QED  BY <1>4, <2>2, <2>3 DEF Handed, Unmoved
  <1>5. CASE Refused \/ Landing
    BY <1>0, <1>1, <1>5 DEF Refused, Landing
  <1> QED  BY <1>2, <1>3, <1>4, <1>5

LEMMA NoTaskTyped == NoTask \in Tasks /\ (run' = NoTask => TaskTypes')
  <1>1. "idle" \in Places /\ "none" \in Transports /\ "none" \in BoardKinds /\ NoRun \in Runs
        /\ {} \in SUBSET Channels /\ 0 \in 0 .. Sectors /\ 0 \in 0 .. MaxReturns - 1
        /\ NoEnd \in Ends
    BY InPlaces, PortTypes, NoEndType DEF BoardKinds, Runs
  <1>2. NoTask \in Tasks
    BY <1>1 DEF NoTask, Tasks
  <1> QED  BY <1>2, NoTaskFields DEF TaskTypes, SectorInv

LEMMA EndStagesTyped ==
    ASSUME Types, \/ Finish \/ GiveBack \/ Release \/ Panic \/ Unwound \/ Supervised
                  \/ StartRefused \/ Dies
    PROVE  TaskTypes'
  <1> USE InPlaces, PortTypes
  <1>0. TaskTypes /\ run \in Tasks
    BY DEF Types, TaskTypes
  <1>1. CASE Release \/ Supervised \/ StartRefused \/ Dies
    BY <1>1, NoTaskTyped DEF Release, Supervised, StartRefused, Dies, Memory
  <1>2. CASE Finish
    <2>1. PICK to \in {"giveback", "release"} : Go(to)
      BY <1>2 DEF Finish
    <2>2. to \in Places /\ to \notin Before \cup {"sector"}
      BY <2>1 DEF Ending, Early, Going, Before
    <2> QED  BY <1>0, <2>1, <2>2, GoTyped
  <1>3. {"release", "unwound", "supervised"} \subseteq Places
        /\ {"release", "unwound", "supervised"} \cap Before = {}
    BY DEF Ending, Unwinding, Early, Going, Before
  <1>4. CASE GiveBack
    <2>1. run' \in Tasks
      BY <1>0, <1>3, <1>4, Zenon DEF GiveBack, Tasks
    <2>2. run'.pc = "release" /\ run'.sectors = run.sectors
      BY <1>0, <1>4 DEF GiveBack, Tasks
    <2> QED  BY <1>0, <1>3, <2>1, <2>2, StepTyped
  <1>5. CASE Panic
    <2>1. run' \in Tasks
      BY <1>0, <1>3, <1>5, Zenon DEF Panic, Tasks
    <2>2. run'.pc = "unwound" /\ run'.sectors = run.sectors
      BY <1>0, <1>5 DEF Panic, Tasks
    <2> QED  BY <1>0, <1>3, <2>1, <2>2, StepTyped
  <1>6. CASE Unwound
    <2>1. run' \in Tasks
      BY <1>0, <1>3, <1>6, Zenon DEF Unwound, Tasks
    <2>2. run'.pc = "supervised" /\ run'.sectors = run.sectors
      BY <1>0, <1>6 DEF Unwound, Tasks
    <2> QED  BY <1>0, <1>3, <2>1, <2>2, StepTyped
  <1> QED  BY <1>1, <1>2, <1>4, <1>5, <1>6

LEMMA ClaimRun ==
    ASSUME claim \in Claims
    PROVE  claim.run \in Runs /\ NoRun \in Runs
  <1>1. CASE claim = NoClaim
    BY <1>1 DEF NoClaim, Runs
  <1>2. CASE claim # NoClaim
    BY <1>2 DEF Claims, Runs
  <1> QED  BY <1>1, <1>2

LEMMA StartStagesTyped ==
    ASSUME Types, Launch \/ \E k \in Kinds, j \in BOOLEAN : StartRequest(k, j)
    PROVE  TaskTypes'
  <1> USE InPlaces, PortTypes
  <1>0. TaskTypes /\ run \in Tasks
    BY DEF Types, TaskTypes
  <1>1. CASE Launch
    <2> DEFINE p == IF claim.held = "recovery" THEN claim.run ELSE NoRun
    <2>1. p \in Runs
      BY ClaimRun DEF Types
    <2>2. run' = [run EXCEPT !.pc = "prepare", !.prior = p]
      BY <1>1 DEF Launch
    <2> HIDE DEF p
    <2>3. "prepare" \in Places /\ run.pc \in Before /\ "prepare" # "sector"
      BY <1>1 DEF Launch, Early, Before
    <2>4. run' \in Tasks
      BY <1>0, <2>1, <2>2, <2>3, Zenon DEF Tasks
    <2>5. run'.pc = "prepare" /\ run'.sectors = run.sectors
      BY <1>0, <2>2 DEF Tasks
    <2> QED  BY <1>0, <2>3, <2>4, <2>5, StepTyped
  <1>2. CASE \E k \in Kinds, j \in BOOLEAN : StartRequest(k, j)
    <2>1. PICK k \in Kinds, j \in BOOLEAN : StartRequest(k, j)
      BY <1>2
    <2>2. /\ run' = [NoTask EXCEPT !.pc = "claiming", !.id = started + 1, !.kind = k, !.job = j]
          /\ started + 1 \in RunIds
      BY <2>1 DEF StartRequest
    <2>3. "claiming" \in Places /\ k \in BoardKinds /\ started + 1 \in Runs
      BY <2>2 DEF BoardKinds, Runs
    <2>4. run' \in Tasks
      BY <2>1, <2>2, <2>3, NoTaskTyped, Zenon DEF Tasks
    <2>5. run'.pc = "claiming" /\ run'.sectors = 0
      BY <2>2, NoTaskTyped DEF Tasks, NoTask
    <2> QED  BY <2>4, <2>5 DEF TaskTypes, SectorInv
  <1> QED  BY <1>1, <1>2

LEMMA AroundTyped ==
    ASSUME Types, \/ run' = run
                  \/ run' = [run EXCEPT !.port = Restarted(@)]
                  \/ run' = [run EXCEPT !.todo = @ \ writer]
    PROVE  TaskTypes'
  <1> USE PortTypes
  <1>0. TaskTypes /\ run \in Tasks
    BY DEF Types, TaskTypes
  <1>1. CASE run' = run
    BY <1>0, <1>1, StepTyped
  <1>2. CASE run' = [run EXCEPT !.port = Restarted(@)]
    <2>1. Restarted(run.port) \in Transports
      BY <1>0 DEF Tasks
    <2>2. run' \in Tasks
      BY <1>0, <1>2, <2>1, Zenon DEF Tasks
    <2>3. run'.pc = run.pc /\ run'.sectors = run.sectors
      BY <1>0, <1>2 DEF Tasks
    <2> QED  BY <1>0, <2>2, <2>3, StepTyped
  <1>3. CASE run' = [run EXCEPT !.todo = @ \ writer]
    <2>1. run.todo \ writer \in SUBSET Channels
      BY <1>0 DEF Tasks
    <2>2. run' \in Tasks
      BY <1>0, <1>3, <2>1, Zenon DEF Tasks
    <2>3. run'.pc = run.pc /\ run'.sectors = run.sectors
      BY <1>0, <1>3 DEF Tasks
    <2> QED  BY <1>0, <2>2, <2>3, StepTyped
  <1> QED  BY <1>1, <1>2, <1>3

(* Every step keeps the task's type. *)
LEMMA TaskStep == Types /\ [Next]_vars => TaskTypes'
  <1> SUFFICES ASSUME Types, [Next]_vars PROVE TaskTypes'
    OBVIOUS
  <1>1. CASE RunStep
    BY <1>1, FirstStagesTyped, MiddleStagesTyped, ButtonTyped, WritingStagesTyped,
       WriteSectorTyped, BackStagesTyped, EndStagesTyped DEF RunStep
  <1>2. CASE Panic \/ Dies
    BY <1>2, EndStagesTyped
  <1>3. CASE Starting
    BY <1>3, StartStagesTyped, EndStagesTyped DEF Starting
  <1>4. CASE request_cancel \/ Stop \/ LoopEnds \/ Start \/ Probing \/ LoopStep
    BY <1>4, AroundTyped
       DEF request_cancel, Stop, LoopEnds, Start, AroundKept, LoopStep, Probing, RescanChecks,
           ProbeOpens, ProbeAsks, ProbeAdopts, ProbeKept
  <1>5. CASE Engine \/ BoardStep
    BY <1>5, AroundTyped
       DEF Engine, EngineSends, EngineLocks, BoardStep, Settles, Resets, Hangs, UserBoots,
           UserCopies, Restarts, AroundKept
  <1>6. CASE UNCHANGED vars
    BY <1>6, AroundTyped DEF vars, runVars
  <1> QED  BY <1>1, <1>2, <1>3, <1>4, <1>5, <1>6 DEF Next, Life

LEMMA RecordForms ==
    ASSUME rec \in Records
    PROVE  /\ [rec EXCEPT !.cancellable = FALSE] \in Records /\ Asked(rec) \in Records
           /\ [rec EXCEPT !.changed = TRUE] \in Records
           /\ [rec EXCEPT !.verified = TRUE] \in Records
           /\ [rec EXCEPT !.answered = TRUE] \in Records
  BY Zenon DEF Asked, Records

LEMMA FinishForm ==
    ASSUME NEW r \in Records, NEW o \in Outcomes, NEW b \in BOOLEAN
    PROVE  finish_record(r, o, b) \in Records
  <1> DEFINE i == r.interrupted \/ b
  <1>1. i \in BOOLEAN
    OBVIOUS
  <1>2. finish_record(r, o, b) = [r EXCEPT !.running = FALSE, !.cancellable = FALSE,
                                           !.outcome = o, !.interrupted = i]
    BY DEF finish_record
  <1> HIDE DEF i
  <1> QED  BY <1>1, <1>2, Zenon DEF Records

LEMMA NewForms ==
    /\ NoRecord \in Records
    /\ \A id \in Runs, k \in BoardKinds : NewRecord(id, k) \in Records
  <1>1. NoRecord \in Records
    BY DEF NoRecord, Records, Runs, BoardKinds, Outcomes
  <1>2. ASSUME NEW id \in Runs, NEW k \in BoardKinds PROVE NewRecord(id, k) \in Records
    BY <1>1, Zenon DEF NewRecord, Records
  <1> QED  BY <1>1, <1>2

LEMMA RecoverForm ==
    ASSUME journal \in Records
    PROVE  recover(journal) \in Records
  <1>1. when_interrupted(journal.requested, journal.answered) \in Outcomes
    BY DEF when_interrupted, Outcomes
  <1> QED  BY <1>1, FinishForm DEF recover

RecordTypes == rec \in Records /\ journal \in Records

(* Every step keeps the records' types. *)
LEMMA RecordStep == Types /\ [Next]_vars => RecordTypes'
  <1> SUFFICES ASSUME Types, [Next]_vars PROVE RecordTypes'
    OBVIOUS
  <1>0. rec \in Records /\ journal \in Records /\ run \in Tasks
    BY DEF Types
  <1>1. ASSUME RecordKept \/ Record(rec) \/ (close_cancel_window /\ UNCHANGED journal)
               \/ Record(Asked(rec)) \/ Record([rec EXCEPT !.changed = TRUE])
               \/ Record([rec EXCEPT !.verified = TRUE]) \/ Record([rec EXCEPT !.answered = TRUE])
        PROVE  RecordTypes'
    BY <1>0, <1>1, RecordForms DEF RecordKept, Record, close_cancel_window, RecordTypes
  <1>2. CASE Onwards
    <2>1. CASE \/ Prepare \/ Prepared \/ Park \/ Parked \/ Enter \/ late_answer \/ Jump \/ Left
               \/ Appear \/ in_firmware \/ Given \/ Gate \/ Lend \/ Lent \/ Ask \/ Press
      BY <1>1, <2>1 DEF Prepare, Prepared, Park, Parked, Enter, late_answer, Jump, Left, Appear,
         in_firmware, Given, Gate, Lend, Lent, Ask, Press
    <2>2. CASE \/ Button \/ Window \/ Boot \/ Identify \/ Erase \/ write_sector \/ verify_sector
               \/ Reboot \/ Rebooted \/ File \/ Return \/ Check \/ Restore \/ Handing \/ Refused
               \/ Handed \/ Landing
      BY <1>1, <2>2 DEF Button, Window, Boot, Identify, Erase, write_sector, verify_sector,
         Reboot, Rebooted, File, Return, Check, Restore, Handing, Refused, Handed, Landing,
         fall_back, stop_writing
    <2> QED  BY <1>2, <2>1, <2>2 DEF Onwards
  <1>3. CASE Finish
    <2> DEFINE r == finish_record(rec, run.end.outcome, run.end.interrupted)
    <2>1. run.end.outcome \in Outcomes /\ run.end.interrupted \in BOOLEAN
          /\ run.end.cancelled \in BOOLEAN
      BY <1>0 DEF Tasks, Ends
    <2>2. r \in Records
      BY <1>0, <2>1, FinishForm
    <2> HIDE DEF r
    <2>3. [r EXCEPT !.cancelled = run.end.cancelled] \in Records
      BY <2>1, <2>2, Zenon DEF Records
    <2> QED  BY <1>3, <2>3 DEF Finish, Record, RecordTypes, r
  <1>4. CASE Supervised
    <2>1. when_interrupted(rec.requested, rec.answered) \in Outcomes
      BY DEF when_interrupted, Outcomes
    <2>2. finish_record(rec, when_interrupted(rec.requested, rec.answered), FALSE) \in Records
      BY <1>0, <2>1, FinishForm
    <2> QED  BY <1>0, <1>4, <2>2 DEF Supervised, Record, RecordTypes
  <1>5. CASE GiveBack \/ Release \/ Panic \/ Unwound
    BY <1>1, <1>5 DEF GiveBack, Release, Panic, Unwound
  <1>6. CASE Starting
    <2>1. NewRecord(run.id, run.kind) \in Records
      BY <1>0, NewForms DEF Tasks
    <2> QED  BY <1>0, <1>6, <2>1
             DEF Starting, StartRequest, Launch, StartRefused, RecordKept, RecordTypes
  <1>7. CASE Dies \/ Start
    BY <1>0, <1>7, NewForms, RecoverForm DEF Dies, Memory, Start, RecordTypes
  <1>8. CASE request_cancel \/ Stop \/ LoopEnds \/ Probing \/ LoopStep \/ Engine \/ BoardStep
             \/ UNCHANGED vars
    <2>1. RecordKept
      BY <1>8 DEF request_cancel, Stop, LoopEnds, AroundKept, LoopStep, Probing, RescanChecks,
         ProbeOpens, ProbeAsks, ProbeAdopts, ProbeKept, Engine, EngineSends, EngineLocks,
         BoardStep, Settles, Resets, Hangs, UserBoots, UserCopies, Restarts, RecordKept,
         vars, runVars
    <2> QED  BY <1>1, <2>1
  <1> QED  BY <1>2, <1>3, <1>4, <1>5, <1>6, <1>7, <1>8 DEF Next, RunStep, Onwards, Life

LoanTypes ==
    /\ slot \in Transports /\ passing \in Transports
    /\ loop \in {"none", "starting", "idle", "swapped", "lent"}
    /\ ask \in {"none", "queued", "taken", "loan", "refused"}
    /\ back \in {"none", "port", "nothing"}
    /\ accepts \in BOOLEAN /\ waiting \in BOOLEAN /\ settled \in BOOLEAN
BoardTypes ==
    /\ board \in {"firmware", "boot", "empty"} /\ talks \in BOOLEAN
    /\ duty \in [Channels -> {"full", "profile", "unknown"}]

(* What the borrower's ends of the exchange, the loop and the board do to  *)
(* the loan.                                                               *)
LEMMA LoanMoves ==
    ASSUME Types,
           \/ LoanKept \/ Leaves \/ Memory \/ LoopStops \/ LenderStep \/ LoopStarts
           \/ \E any \in BOOLEAN : Request(any)
           \/ \E took \in BOOLEAN : StopsListening(took)
           \/ \E t \in Transports : Adopts(t) \/ GivesBack("port", t) \/ GivesBack("nothing", t)
           \/ \E others : Reconnect(others)
    PROVE  LoanTypes'
  <1> USE DEF Types, LoanTypes
  <1>1. CASE LoanKept
    BY <1>1 DEF LoanKept, loanVars
  <1>9. CASE Memory
    BY <1>9 DEF Memory, Transports
  <1>10. CASE LoopStops
    BY <1>10 DEF LoopStops
  <1>2. CASE Leaves
    BY <1>2, PortTypes DEF Leaves
  <1>3. CASE LenderStep
    <2>1. CASE LendTakes
      BY <2>1 DEF LendTakes, Transports
    <2>2. CASE LendAnswers
      BY <2>2 DEF LendAnswers, Transports
    <2>3. CASE LoanEnds
      BY <2>3 DEF LoanEnds, Transports
    <2> QED  BY <1>3, <2>1, <2>2, <2>3 DEF LenderStep
  <1>4. CASE \E any \in BOOLEAN : Request(any)
    BY <1>4 DEF Request
  <1>5. CASE \E took \in BOOLEAN : StopsListening(took)
    BY <1>5, PortTypes DEF StopsListening
  <1>6. CASE \E t \in Transports : Adopts(t)
    BY <1>6 DEF Adopts
  <1>7. CASE \E t \in Transports : GivesBack("port", t) \/ GivesBack("nothing", t)
    BY <1>7 DEF GivesBack
  <1>8. CASE LoopStarts \/ \E others : Reconnect(others)
    BY <1>8 DEF LoopStarts, Reconnect, Transports
  <1> QED  BY <1>1, <1>2, <1>3, <1>4, <1>5, <1>6, <1>7, <1>8, <1>9, <1>10

(* A hand-over touches the loan alone. *)
LEMMA HandOverLoan ==
    ASSUME Types, NEW t \in Transports, hand_over(t)
    PROVE  LoanTypes' /\ controller' \in BOOLEAN
  <1>1. LoanTypes'
    BY LoanMoves DEF hand_over
  <1>2. controller' \in BOOLEAN
    BY DEF hand_over, Adopts, Types
  <1> QED  BY <1>1, <1>2

LEMMA LoanStep == Types /\ [Next]_vars => LoanTypes'
  <1> SUFFICES ASSUME Types, [Next]_vars PROVE LoanTypes'
    OBVIOUS
  <1>1. CASE Onwards
    <2>1. CASE \/ Prepare \/ Prepared \/ Park \/ Parked \/ Left
               \/ Appear \/ Given \/ Gate \/ Lent \/ Press
      BY <2>1, LoanMoves DEF Prepare, Prepared, Park, Parked, Left, Appear, Given, Gate, Lent,
         Press, Plain
    <2>2. CASE Enter \/ Lend \/ late_answer \/ in_firmware \/ Jump
      <3>1. (run.kind = "silent") \in BOOLEAN /\ (ask = "loan") \in BOOLEAN
        OBVIOUS
      <3> QED  BY <2>2, <3>1, LoanMoves, PortTypes DEF Enter, Lend, Borrow, late_answer, in_firmware, Jump
    <2>3. CASE Ask
      <3>1. run.port \in Transports
        BY DEF Types, Tasks
      <3>2. \/ LoanKept
            \/ \E t \in Transports : hand_over(t)
        BY <2>3, <3>1, PortTypes DEF Ask, Reopened
      <3> QED  BY <3>2, LoanMoves, HandOverLoan
    <2>4. CASE Restore
      <3>1. run.port \in Transports
        BY DEF Types, Tasks
      <3> QED  BY <2>4, <3>1, LoanMoves, HandOverLoan DEF Restore
    <2>5. CASE \/ Button \/ Window \/ Boot \/ Identify \/ Erase \/ write_sector \/ verify_sector
               \/ Reboot \/ Rebooted \/ File \/ Return \/ Check \/ Handing \/ Refused
               \/ Handed \/ Landing
      BY <2>5, LoanMoves DEF Button, Window, Boot, Identify, Erase, write_sector, verify_sector,
         Reboot, Rebooted, File, Return, Check, Handing, Refused, Handed, Landing, Plain, WriteKept
    <2> QED  BY <1>1, <2>1, <2>2, <2>3, <2>4, <2>5 DEF Onwards
  <1>2. CASE Finish \/ GiveBack \/ Release \/ Panic \/ Supervised \/ Starting
    BY <1>2, LoanMoves, PortTypes
       DEF Finish, GiveBack, Release, Panic, Supervised, Plain, Starting, StartRequest, Launch, StartRefused
  <1>3. CASE Unwound
    <2>1. \/ LoanKept \/ StopsListening(FALSE) \/ GivesBack("nothing", "none")
          \/ /\ waiting' = FALSE /\ ask' = "none" /\ back' = "nothing" /\ passing' = "none"
             /\ UNCHANGED <<slot, loop, accepts, settled>>
      BY <1>3 DEF Unwound
    <2>2. CASE /\ waiting' = FALSE /\ ask' = "none" /\ back' = "nothing" /\ passing' = "none"
               /\ UNCHANGED <<slot, loop, accepts, settled>>
      BY <2>2 DEF Types, LoanTypes, Transports
    <2> QED  BY <2>1, <2>2, LoanMoves, PortTypes
  <1>4. CASE request_cancel \/ Stop \/ LoopEnds \/ Dies \/ Engine \/ BoardStep \/ UNCHANGED vars
    BY <1>4, LoanMoves
       DEF request_cancel, Stop, LoopEnds, Dies, Engine, EngineSends, EngineLocks, BoardStep,
           Settles, Resets, Hangs, UserBoots, UserCopies, Restarts, vars, LoanKept
  <1>5. CASE Start
    BY <1>5 DEF Start, Types, LoanTypes, Transports
  <1>6. CASE Probing
    BY <1>6, LoanMoves, PortTypes DEF Probing, RescanChecks, ProbeOpens, ProbeAsks, ProbeAdopts
  <1>7. CASE LoopStep
    <2>1. CASE LoopStarts \/ LenderStep \/ \E others : Reconnect(others)
      BY <2>1, LoanMoves
    <2>2. CASE Poll
      BY <2>2, LoanMoves DEF Poll, LoanKept
    <2> QED  BY <1>7, <2>1, <2>2 DEF LoopStep, reconnect_via_survey
  <1> QED  BY <1>1, <1>2, <1>3, <1>4, <1>5, <1>6, <1>7 DEF Next, RunStep, Onwards, Life

(* What moves the board. *)
LEMMA BoardMoves ==
    ASSUME Types,
           \/ BoardKept \/ Leaves \/ Settles \/ Hangs
           \/ UNCHANGED <<board, talks>> /\ duty' \in [Channels -> {"full", "profile", "unknown"}]
    PROVE  BoardTypes'
  <1> USE DEF Types, BoardTypes
  <1>1. CASE BoardKept
    BY <1>1 DEF BoardKept, boardVars
  <1>2. CASE Leaves
    BY <1>2 DEF Leaves, Unknown
  <1>3. CASE Settles
    BY <1>3 DEF Settles
  <1>4. CASE Hangs
    BY <1>4 DEF Hangs
  <1>5. CASE UNCHANGED <<board, talks>> /\ duty' \in [Channels -> {"full", "profile", "unknown"}]
    BY <1>5
  <1> QED  BY <1>1, <1>2, <1>3, <1>4, <1>5

LEMMA UnknownType == Unknown \in [Channels -> {"full", "profile", "unknown"}]
  BY DEF Unknown

LEMMA OnwardsBoard == Onwards => BoardKept \/ Leaves \/ Park
  <1>1. \/ Prepare \/ Prepared \/ Parked \/ Left \/ Appear \/ Given \/ Gate \/ Lent \/ Press
        \/ Enter \/ Lend \/ late_answer \/ in_firmware \/ Ask \/ Button \/ Window
        => BoardKept
    BY DEF Prepare, Prepared, Parked, Left, Appear, Given, Gate, Lent, Press, Enter, Lend,
       late_answer, in_firmware, Ask, Button, Window, Plain
  <1>2. \/ Boot \/ Identify \/ Erase \/ write_sector \/ verify_sector
        \/ Rebooted \/ File \/ Return \/ Check \/ Restore \/ Handing \/ Refused \/ Handed \/ Landing
        => BoardKept
    BY DEF Boot, Identify, Erase, write_sector, verify_sector, Rebooted, File, Return, Check,
       Restore, Handing, Refused, Handed, Landing, Plain, WriteKept
  <1>3. Jump \/ Reboot => BoardKept \/ Leaves
    BY DEF Jump, Reboot, WriteKept
  <1> QED  BY <1>1, <1>2, <1>3 DEF Onwards

LEMMA ParkDuty ==
    ASSUME Types, Park
    PROVE  UNCHANGED <<board, talks>> /\ duty' \in [Channels -> {"full", "profile", "unknown"}]
  BY DEF Types, Park

LEMMA SendDuty ==
    ASSUME Types, EngineSends
    PROVE  UNCHANGED <<board, talks>> /\ duty' \in [Channels -> {"full", "profile", "unknown"}]
  BY DEF Types, EngineSends

LEMMA LoopDuty ==
    ASSUME Types, LoopStep
    PROVE  UNCHANGED <<board, talks>> /\ duty' \in [Channels -> {"full", "profile", "unknown"}]
  <1>1. CASE LoopStarts \/ Poll \/ LenderStep
    BY <1>1, UnknownType DEF Types, LoopStarts, Poll, LenderStep, LendTakes, LendAnswers, LoanEnds, boardVars
  <1>2. CASE \E others \in {TRUE, OpenedElsewhere} : reconnect_via_survey(others)
    BY <1>2, UnknownType DEF Types, reconnect_via_survey, Reconnect
  <1> QED  BY <1>1, <1>2 DEF LoopStep

LEMMA BoardStays ==
    \/ Finish \/ GiveBack \/ Release \/ Panic \/ Unwound \/ Supervised \/ Starting \/ request_cancel
    \/ Life \/ Probing \/ (\E c \in Channels : EngineLocks(c)) \/ UNCHANGED vars
    => BoardKept
  BY DEF Finish, GiveBack, Release, Panic, Unwound, Supervised, Starting, StartRequest, Launch,
     StartRefused, request_cancel, Life, Stop, LoopEnds, LoopStops, Dies, Start, Probing,
     RescanChecks, ProbeOpens, ProbeAsks, ProbeAdopts, ProbeKept, EngineLocks, Plain, BoardKept, vars

(* Only these move the board. *)
LEMMA BoardTurn ==
    [Next]_vars =>
        BoardKept \/ Leaves \/ Park \/ Settles \/ Hangs \/ EngineSends \/ LoopStep
  BY OnwardsBoard, BoardStays
     DEF Next, RunStep, Onwards, Engine, BoardStep, Resets, UserBoots, UserCopies, Restarts

LEMMA BoardTypeStep == Types /\ [Next]_vars => BoardTypes'
  BY BoardTurn, BoardMoves, ParkDuty, SendDuty, LoopDuty

(* Who moves the claim and the link. *)
LEMMA ClaimStays ==
    \/ Prepare \/ Park \/ Parked \/ Left \/ Appear \/ Given \/ Gate \/ Lent \/ Press
    \/ Enter \/ Lend \/ late_answer \/ in_firmware \/ Ask \/ Button \/ Window \/ Jump
    \/ Boot \/ Identify \/ Erase \/ write_sector \/ verify_sector \/ Reboot
    \/ Rebooted \/ File \/ Return \/ Check \/ Restore \/ Handing \/ Refused \/ Landing
    \/ Finish \/ GiveBack \/ Unwound \/ Supervised \/ request_cancel \/ Stop \/ LoopEnds
    \/ StartRefused \/ (\E k \in Kinds, j \in BOOLEAN : StartRequest(k, j))
    \/ Probing \/ Engine \/ BoardStep \/ UNCHANGED vars
    => LinkKept
  <1>1. \/ Prepare \/ Park \/ Parked \/ Left \/ Appear \/ Given \/ Gate \/ Lent \/ Press
        \/ Enter \/ Lend \/ late_answer \/ in_firmware \/ Ask \/ Button \/ Window \/ Jump
        => LinkKept
    BY DEF Prepare, Park, Parked, Left, Appear, Given, Gate, Lent, Press, Enter, Lend,
       late_answer, in_firmware, Ask, Button, Window, Jump, Plain, LinkKept
  <1>2. \/ Boot \/ Identify \/ Erase \/ write_sector \/ verify_sector \/ Reboot
        \/ Rebooted \/ File \/ Return \/ Check \/ Restore \/ Handing \/ Refused \/ Landing
        => LinkKept
    BY DEF Boot, Identify, Erase, write_sector, verify_sector, Reboot, Rebooted, File, Return,
       Check, Restore, Handing, Refused, Landing, Plain, WriteKept
  <1>3. \/ Finish \/ GiveBack \/ Unwound \/ Supervised \/ request_cancel \/ Stop \/ LoopEnds
        \/ StartRefused \/ (\E k \in Kinds, j \in BOOLEAN : StartRequest(k, j))
        => LinkKept
    BY DEF Finish, GiveBack, Unwound, Supervised, request_cancel, Stop, LoopEnds, LoopStops,
       StartRefused, StartRequest, Plain, LinkKept
  <1>4. Probing \/ Engine \/ BoardStep \/ UNCHANGED vars => LinkKept
    BY DEF Probing, RescanChecks, ProbeOpens, ProbeAsks, ProbeAdopts, ProbeKept, Engine,
       EngineSends, EngineLocks, BoardStep, Settles, Resets, Hangs, UserBoots, UserCopies,
       Restarts, LinkKept, vars
  <1> QED  BY <1>1, <1>2, <1>3, <1>4

LEMMA Claiming ==
    ASSUME claim \in Claims
    PROVE  /\ NoClaim \in Claims
           /\ \A id \in RunIds, s \in BOOLEAN :
                 Running(id, s) \in Claims /\ NeedsRecovery(id) \in Claims
           /\ \A s \in BOOLEAN : claim.held = "running" => [claim EXCEPT !.suspended = s] \in Claims
  <1>1. ASSUME NEW s \in BOOLEAN, claim.held = "running"
        PROVE  [claim EXCEPT !.suspended = s] \in Claims
    <2>1. claim # NoClaim
      BY <1>1 DEF NoClaim
    <2>2. claim \notin [held : {"recovery"}, run : RunIds, suspended : {TRUE}]
      BY <1>1
    <2>3. claim \in [held : {"running"}, run : RunIds, suspended : BOOLEAN]
      BY <2>1, <2>2 DEF Claims
    <2> QED  BY <2>3, Zenon DEF Claims
  <1> QED  BY <1>1 DEF Claims, NoClaim, Running, NeedsRecovery

ClaimTypes == link \in Links /\ claim \in Claims
LEMMA ClaimTypeStep == UpdateInv /\ [Next]_vars => ClaimTypes'
  <1> SUFFICES ASSUME UpdateInv, [Next]_vars PROVE ClaimTypes'
    OBVIOUS
  <1>0. link \in Links /\ claim \in Claims /\ started \in Runs
    BY DEF UpdateInv, Types
  <1>1. CASE LinkKept
    BY <1>0, <1>1 DEF LinkKept, ClaimTypes
  <1>2. CASE Launch
    <2>1. run.id = started /\ started # NoRun
      BY <1>2 DEF UpdateInv, RecordInv, Launch
    <2>2. run.id \in RunIds /\ link' = link
      BY <1>0, <1>2, <2>1 DEF Runs, Launch
    <2>3. claim' = Running(run.id, TRUE) \/ claim' = Running(run.id, FALSE)
      BY <1>2 DEF Launch, try_begin_openfan_maintenance, try_begin_silent_openfan_maintenance
    <2> QED  BY <1>0, <2>2, <2>3, Claiming DEF ClaimTypes
  <1>3. CASE Prepared \/ Handed
    <2>1. link' = link
      BY <1>3 DEF Prepared, Handed, LinkKept
    <2>2. claim' = claim \/ (claim.held = "running" /\ \E s \in BOOLEAN : claim' = [claim EXCEPT !.suspended = s])
      BY <1>3 DEF Prepared, Handed, LinkKept, suspend_openfan_writes, resume_openfan_writes, Owns,
         openfan_maintenance_running
    <2> QED  BY <1>0, <2>1, <2>2, Claiming DEF ClaimTypes
  <1>4. CASE Release
    <2>1. run.pc \in Claimed /\ run.end.outcome \in Outcomes /\ run.over \in BOOLEAN /\ link' = link
      BY <1>4 DEF Release, Claimed, Ending, UpdateInv, Types, Tasks, Ends
    <2> QED  BY <1>0, <1>4, <2>1, ClaimEndsFields DEF ClaimTypes, Release
  <1>5. CASE Panic
    <2> DEFINE o == when_interrupted(run.requested, run.answered)
    <2>1. run.pc \in Claimed /\ link' = link
      BY <1>5, PanicKeeps DEF Panic
    <2>2. o \in Outcomes /\ ClaimEnds(o, FALSE)
      BY <1>5 DEF Panic, when_interrupted, Outcomes
    <2> HIDE DEF o
    <2> QED  BY <1>0, <2>1, <2>2, ClaimEndsFields DEF ClaimTypes
  <1>6. CASE Dies
    BY <1>0, <1>6, Claiming DEF Dies, Memory, ClaimTypes, Links
  <1>7. CASE Start
    <2>1. link' = link
      BY <1>7 DEF Start
    <2>2. /\ claim' = IF recovery_token(recover(journal).outcome) /\ ~Answers("port") /\ board # "empty"
                      THEN NeedsRecovery(recover(journal).run) ELSE NoClaim
      BY <1>7, StartKeeps
    <2>3. ASSUME recovery_token(recover(journal).outcome) PROVE recover(journal).run \in RunIds
      <3>1. journal \in Records /\ WellFormed(journal, started)
        BY DEF UpdateInv, Types, RecordInv
      <3>2. journal.run # NoRun
        BY <2>3, <3>1, RecoverFields DEF WellFormed, recovery_token, NoOutcome
      <3> QED  BY <3>1, <3>2, RecoverFields DEF Records, Runs
    <2> QED  BY <1>0, <2>1, <2>2, <2>3, Claiming DEF ClaimTypes
  <1>8. CASE LoopStep
    <2>1. claim' = claim \/ claim' = NoClaim
      BY <1>8, LoopStepAround DEF Around
    <2>2. link' \in Links
      BY <1>0, <1>8 DEF LoopStep, LoopStarts, Poll, LenderStep, LendTakes, LendAnswers, LoanEnds,
         reconnect_via_survey, Reconnect, set_openfan_link, AfterPoll, Links
    <2> QED  BY <1>0, <2>1, <2>2, Claiming DEF ClaimTypes
  <1> QED  BY <1>1, <1>2, <1>3, <1>4, <1>5, <1>6, <1>7, <1>8, ClaimStays
           DEF Next, RunStep, Starting, Life

LEMMA PlainOutside == Plain \/ OutsideKept => UNCHANGED <<outsideVars, events, started, cancel>>
  BY DEF Plain, OutsideKept

OutsideTypes ==
    /\ flash \in {"old", "part", "daemon", "hand"} /\ exclusive \in BOOLEAN
    /\ daemon \in {"up", "stopping", "down"} /\ controller \in BOOLEAN /\ evidence \in BOOLEAN
    /\ gate \in {"free", "probe", "run"}
    /\ probe \in {"idle", "checked", "open", "lost", "found", "stale"}
    /\ writer \subseteq Channels /\ cancel \in BOOLEAN /\ started \in Runs
    /\ events \in 0 .. MaxEvents

LEMMA OutsideStays ==
    ASSUME Types, UNCHANGED <<outsideVars, events, started, cancel>>
    PROVE  OutsideTypes'
  BY DEF Types, OutsideTypes, outsideVars

LEMMA LeavesOutside ==
    ASSUME Types, Leaves
    PROVE  exclusive' \in BOOLEAN /\ evidence' \in BOOLEAN
           /\ probe' \in {"idle", "checked", "open", "lost", "found", "stale"}
  BY DEF Types, Leaves

LEMMA EventType == ASSUME Types, Event PROVE events' \in 0 .. MaxEvents
  BY DEF Types, Event

LEMMA OutsideStep == Types /\ [Next]_vars => OutsideTypes'
  <1> SUFFICES ASSUME Types, [Next]_vars PROVE OutsideTypes'
    OBVIOUS
  <1>1. CASE \/ Prepare \/ Prepared \/ Park \/ Parked \/ Left \/ Appear \/ Given \/ Lent \/ Press
             \/ Enter \/ Lend \/ late_answer \/ in_firmware \/ Button \/ Window \/ Boot
             \/ File \/ Return \/ Check \/ Handing \/ Refused \/ Handed \/ Landing
             \/ Finish \/ GiveBack \/ Supervised \/ UNCHANGED vars
    <2>1. Plain \/ OutsideKept
      BY <1>1 DEF Prepare, Prepared, Park, Parked, Left, Appear, Given, Lent, Press, Enter, Lend,
         late_answer, in_firmware, Button, Window, Boot, File, Return, Check, Handing, Refused,
         Handed, Landing, Finish, GiveBack, Supervised, vars, runVars, OutsideKept
    <2> QED  BY <2>1, PlainOutside, OutsideStays
  <1>2. CASE Jump
    <2>1. UNCHANGED <<events, started, cancel, flash, daemon, controller, gate, writer>>
      BY <1>2 DEF Jump
    <2>2. Leaves \/ UNCHANGED <<exclusive, evidence, probe>>
      BY <1>2 DEF Jump
    <2> QED  BY <2>1, <2>2, LeavesOutside DEF Types, OutsideTypes
  <1>3. CASE Gate \/ Release \/ Unwound
    <2>1. UNCHANGED <<flash, exclusive, daemon, controller, evidence, probe, writer, events, started, cancel>>
      BY <1>3 DEF Gate, Release, Unwound
    <2>2. gate' \in {"free", "probe", "run"}
      BY <1>3 DEF Types, Gate, Release, Unwound, GateFreed
    <2> QED  BY <2>1, <2>2 DEF Types, OutsideTypes
  <1>4. CASE Ask \/ Restore
    <2>1. UNCHANGED <<flash, exclusive, daemon, evidence, gate, probe, writer, events, started, cancel>>
      BY <1>4 DEF Ask, Restore
    <2>2. controller' \in BOOLEAN
      BY <1>4 DEF Types, Ask, Restore, hand_over, Adopts
    <2> QED  BY <2>1, <2>2 DEF Types, OutsideTypes
  <1>5. CASE Identify \/ Erase \/ write_sector \/ verify_sector \/ Rebooted
    <2>1. UNCHANGED <<daemon, controller, evidence, gate, probe, writer, events, started, cancel>>
      BY <1>5 DEF Identify, Erase, write_sector, verify_sector, Rebooted, WriteKept
    <2>2. exclusive' \in BOOLEAN
      BY <1>5 DEF Types, Identify, Erase, write_sector, verify_sector, Rebooted, fall_back, stop_writing
    <2>3. flash' \in {"old", "part", "daemon", "hand"}
      BY <1>5 DEF Types, Identify, Erase, write_sector, verify_sector, Rebooted
    <2> QED  BY <2>1, <2>2, <2>3 DEF Types, OutsideTypes
  <1>6. CASE Reboot
    <2>1. UNCHANGED <<flash, daemon, controller, gate, writer, events, started, cancel>>
      BY <1>6 DEF Reboot, WriteKept
    <2>2. Leaves \/ (UNCHANGED <<evidence, probe>> /\ exclusive' \in BOOLEAN)
      BY <1>6 DEF Types, Reboot, WriteKept, fall_back, stop_writing
    <2> QED  BY <2>1, <2>2, LeavesOutside DEF Types, OutsideTypes
  <1>7. CASE Starting
    <2>1. CASE Launch \/ StartRefused
      BY <2>1 DEF Types, OutsideTypes, Launch, StartRefused, OutsideKept, outsideVars
    <2>2. CASE \E k \in Kinds, j \in BOOLEAN : StartRequest(k, j)
      <3>1. UNCHANGED <<outsideVars, events>> /\ started' \in RunIds /\ cancel' = FALSE
        BY <2>2 DEF StartRequest
      <3> QED  BY <3>1 DEF Types, OutsideTypes, outsideVars, Runs
    <2> QED  BY <1>7, <2>1, <2>2 DEF Starting
  <1>8. CASE Panic
    BY <1>8, EventType DEF Types, OutsideTypes, Panic, outsideVars
  <1>9. CASE request_cancel \/ LoopEnds
    <2>1. UNCHANGED <<outsideVars, events, started>> /\ cancel' \in BOOLEAN
      BY <1>9 DEF Types, request_cancel, LoopEnds, AroundKept
    <2> QED  BY <2>1 DEF Types, OutsideTypes, outsideVars
  <1>10. CASE Stop
    BY <1>10, EventType DEF Types, OutsideTypes, Stop, AroundKept
  <1>11. CASE Dies
    BY <1>11, EventType DEF Types, OutsideTypes, Dies, Memory
  <1>12. CASE Start
    <2>1. UNCHANGED <<flash, exclusive, gate, probe, writer, cancel, started, events>> /\ daemon' = "up"
      BY <1>12 DEF Start
    <2>2. controller' \in BOOLEAN /\ evidence' \in BOOLEAN
      BY <1>12 DEF Types, Start, Answers
    <2> QED  BY <2>1, <2>2 DEF Types, OutsideTypes
  <1>13. CASE Probing
    <2>1. UNCHANGED <<flash, exclusive, daemon, writer, cancel, started>>
      BY <1>13 DEF Probing, RescanChecks, ProbeOpens, ProbeAsks, ProbeAdopts, ProbeKept, AroundKept
    <2>2. events' \in 0 .. MaxEvents /\ controller' \in BOOLEAN /\ evidence' \in BOOLEAN
          /\ gate' \in {"free", "probe", "run"}
          /\ probe' \in {"idle", "checked", "open", "lost", "found", "stale"}
      BY <1>13, EventType DEF Types, Probing, RescanChecks, ProbeOpens, ProbeAsks, ProbeAdopts, Adopts
    <2> QED  BY <2>1, <2>2 DEF Types, OutsideTypes
  <1>14. CASE Engine
    <2>1. UNCHANGED <<flash, exclusive, daemon, controller, evidence, gate, probe, events, cancel, started>>
      BY <1>14 DEF Engine, EngineSends, EngineLocks, AroundKept
    <2>2. writer' \subseteq Channels
      BY <1>14 DEF Engine, EngineSends, EngineLocks
    <2> QED  BY <2>1, <2>2 DEF Types, OutsideTypes
  <1>15. CASE LoopStep
    <2>1. UNCHANGED <<flash, exclusive, daemon, controller, gate, probe, writer, cancel, started, events>>
      BY <1>15 DEF LoopStep, reconnect_via_survey, AroundKept, outsideVars
    <2>2. evidence' \in BOOLEAN
      BY <1>15 DEF Types, LoopStep, reconnect_via_survey, outsideVars
    <2> QED  BY <2>1, <2>2 DEF Types, OutsideTypes
  <1>16. CASE BoardStep
    <2>1. UNCHANGED <<daemon, controller, gate, writer, cancel, started>>
      BY <1>16 DEF BoardStep, Settles, Resets, Hangs, UserBoots, UserCopies, Restarts, AroundKept, outsideVars
    <2>2. Leaves \/ UNCHANGED <<exclusive, evidence, probe>>
      BY <1>16 DEF BoardStep, Settles, Resets, Hangs, UserBoots, UserCopies, Restarts, outsideVars
    <2>3. events' \in 0 .. MaxEvents /\ flash' \in {"old", "part", "daemon", "hand"}
      BY <1>16, EventType
         DEF Types, BoardStep, Settles, Resets, Hangs, UserBoots, UserCopies, Restarts, outsideVars
    <2> QED  BY <2>1, <2>2, <2>3, LeavesOutside DEF Types, OutsideTypes
  <1> QED  BY <1>1, <1>2, <1>3, <1>4, <1>5, <1>6, <1>7, <1>8, <1>9, <1>10, <1>11, <1>12, <1>13,
              <1>14, <1>15, <1>16 DEF Next, RunStep, Life

LEMMA TypesStep == UpdateInv /\ [Next]_vars => Types'
  <1> SUFFICES ASSUME UpdateInv, [Next]_vars PROVE Types'
    OBVIOUS
  <1>1. Types
    BY DEF UpdateInv
  <1>2. LoanTypes' /\ BoardTypes' /\ ClaimTypes' /\ OutsideTypes' /\ TaskTypes' /\ RecordTypes'
    BY <1>1, LoanStep, BoardTypeStep, ClaimTypeStep, OutsideStep, TaskStep, RecordStep
  <1> QED  BY <1>2 DEF Types, LoanTypes, BoardTypes, ClaimTypes, OutsideTypes, TaskTypes, RecordTypes

(* Only these move the flash. *)
LEMMA FlashTurn ==
    UpdateInv /\ [Next]_vars =>
        flash' = flash \/ Launch \/ write_sector \/ UserCopies
  <1> SUFFICES ASSUME UpdateInv, [Next]_vars
               PROVE  flash' = flash \/ Launch \/ write_sector \/ UserCopies
    OBVIOUS
  <1>1. CASE Onwards
    <2>1. CASE \/ Prepare \/ Prepared \/ Park \/ Parked \/ Left \/ Appear \/ Given \/ Lent \/ Press
             \/ Enter \/ Lend \/ late_answer \/ in_firmware \/ Button \/ Window \/ Boot
             \/ File \/ Return \/ Check \/ Handing \/ Refused \/ Handed \/ Landing
      <3>1. Plain \/ OutsideKept
        BY <2>1 DEF Prepare, Prepared, Park, Parked, Left, Appear, Given, Lent, Press, Enter, Lend,
           late_answer, in_firmware, Button, Window, Boot, File, Return, Check, Handing, Refused,
           Handed, Landing
      <3> QED  BY <3>1, PlainOutside DEF outsideVars
    <2>2. CASE \/ Jump \/ Gate \/ Ask \/ Restore \/ Identify \/ Erase \/ verify_sector
               \/ Reboot \/ Rebooted
      BY <2>2 DEF Jump, Gate, Ask, Restore, Identify, Erase, verify_sector, Reboot, Rebooted
    <2> QED  BY <1>1, <2>1, <2>2 DEF Onwards
  <1>2. CASE Finish \/ GiveBack \/ Release \/ Panic \/ Unwound \/ Supervised
    BY <1>2, FinishKeeps, GiveBackKeeps, ReleaseKeeps, PanicKeeps, UnwoundKeeps, SupervisedKeeps
  <1>3. CASE Starting
    BY <1>3, StartRequestKeeps, StartRefusedKeeps DEF Starting
  <1>4. CASE request_cancel \/ Stop \/ LoopEnds \/ Probing \/ Engine \/ LoopStep
             \/ Settles \/ Resets \/ Hangs \/ UserBoots
    BY <1>4, RequestCancelAround, StopAround, LoopEndsAround, ProbingAround, EngineAround,
       LoopStepAround, BoardAround DEF Around
  <1>5. CASE Dies \/ Start \/ UNCHANGED vars
    BY <1>5, DiesKeeps, StartKeeps DEF vars, outsideVars
  <1> QED  BY <1>1, <1>2, <1>3, <1>4, <1>5 DEF Next, RunStep, Onwards, Life, BoardStep

(* No board comes up in firmware that a write left half done. *)
LEMMA BoardStepKept == UpdateInv /\ [Next]_vars => BoardInv'
  <1> SUFFICES ASSUME UpdateInv, [Next]_vars PROVE BoardInv'
    OBVIOUS
  <1>1. \/ board' = board \/ board' = "empty" \/ (board' = "firmware" => flash # "part")
    BY BoardTurn, LoopDuty DEF BoardKept, boardVars, Leaves, Park, Settles, Hangs, EngineSends,
       UpdateInv
  <1>2. CASE flash' = flash
    BY <1>1, <1>2 DEF UpdateInv, BoardInv
  <1>3. CASE Launch \/ UserCopies
    <2>1. flash' # "part"
      BY <1>3, LaunchKeeps DEF UserCopies
    <2> QED  BY <2>1 DEF BoardInv
  <1>4. CASE write_sector
    <2>1. board' = board /\ (flash' = flash \/ board = "boot")
      BY <1>4 DEF write_sector, WriteKept, BoardKept, boardVars, InSession
    <2> QED  BY <1>1, <2>1 DEF UpdateInv, BoardInv
  <1> QED  BY <1>2, <1>3, <1>4, FlashTurn

(* From parking to the board's leaving. *)
Leading == {"park", "enter", "borrow", "jump", "left", "touch"}

(* Where an assignment to the task takes it. *)
LEMMA PlaceAfter ==
    ASSUME run \in Tasks
    PROVE  /\ \A to : Go(to) => run'.pc = to
           /\ EndCancelled \/ Interrupted \/ (\E o : EndRun(o)) => run'.pc = "finish"
  <1>1. ASSUME NEW to, Go(to) PROVE run'.pc = to
    BY <1>1 DEF Go, Tasks
  <1>2. ASSUME NEW e, run' = [run EXCEPT !.pc = "finish", !.end = e]
        PROVE  run'.pc = "finish"
    BY <1>2 DEF Tasks
  <1> QED  BY <1>1, <1>2 DEF EndCancelled, Interrupted, EndRun

LEMMA Elsewhere ==
    ASSUME UpdateInv, Onwards, run.kind = "connected", run'.pc \in Leading
    PROVE  Prepared \/ Park \/ Parked \/ Enter \/ late_answer \/ Jump \/ Left
  <1>0. run \in Tasks /\ PlaceInv
    BY DEF UpdateInv, Types
  <1>1. CASE Gate \/ Lend \/ Lent \/ Ask \/ Press \/ Button \/ Window
    <2>1. run.pc \in {"gate", "lend", "lent", "asking", "press", "button", "window"}
      BY <1>1 DEF Gate, Lend, Lent, Ask, Press, Button, Window
    <2> QED  BY <1>0, <2>1 DEF PlaceInv, KindOK
  <1>2. CASE Prepare
    BY <1>0, <1>2, PlaceAfter DEF Prepare, Leading
  <1>3. CASE Appear
    <2>1. CASE run' = [run EXCEPT !.pc = "answering", !.port = "none"]
      BY <1>0, <2>1 DEF Tasks, Leading
    <2> QED  BY <1>0, <1>3, <2>1, PlaceAfter DEF Appear, Leading
  <1>4. CASE in_firmware
    BY <1>0, <1>4 DEF in_firmware, Tasks, Leading
  <1>5. CASE Given \/ File \/ Handing \/ Refused \/ Landing \/ verify_sector \/ Reboot
    BY <1>0, <1>5, PlaceAfter
       DEF Given, File, Handing, Refused, Landing, verify_sector, Reboot, fall_back, stop_writing,
           Leading
  <1>6. CASE Boot
    BY <1>0, <1>6 DEF Boot, Tasks, Leading
  <1>7. CASE Identify \/ Erase
    BY <1>0, <1>7, PlaceAfter DEF Identify, Erase, fall_back, stop_writing, Leading, Go
  <1>8. CASE write_sector
    <2>1. CASE run' = [run EXCEPT !.sectors = run.sectors + 1,
                              !.pc = IF run.sectors + 1 = Sectors THEN "verify" ELSE @]
      BY <1>0, <1>8, <2>1 DEF write_sector, Tasks, Leading
    <2> QED  BY <1>0, <1>8, <2>1, PlaceAfter DEF write_sector, fall_back, stop_writing, Leading
  <1>9. CASE Rebooted
    <2>1. CASE run' = [run EXCEPT !.pc = "return", !.written = TRUE]
      BY <1>0, <2>1 DEF Tasks, Leading
    <2> QED  BY <1>0, <1>9, <2>1, PlaceAfter DEF Rebooted, fall_back, Leading
  <1>10. CASE Return
    <2>1. CASE run' = [run EXCEPT !.returns = @ + 1, !.pc = "file"]
      BY <1>0, <2>1 DEF Tasks, Leading
    <2> QED  BY <1>0, <1>10, <2>1, PlaceAfter DEF Return, Leading
  <1>11. CASE Check
    <2>1. CASE run' = [run EXCEPT !.pc = "restore", !.port = "port", !.answered = TRUE,
                                  !.heard = TRUE]
      BY <1>0, <2>1 DEF Tasks, Leading
    <2> QED  BY <1>0, <1>11, <2>1, PlaceAfter DEF Check, Leading
  <1>12. CASE Restore
    <2>1. CASE run' = [run EXCEPT !.pc = "handing", !.handle = FALSE, !.port = "none",
                                  !.heard = TRUE]
      BY <1>0, <2>1 DEF Tasks, Leading
    <2>2. CASE run' = [run EXCEPT !.pc = "handed", !.port = "none", !.heard = TRUE]
      BY <1>0, <2>2 DEF Tasks, Leading
    <2>3. CASE run' = [run EXCEPT !.pc = "refused", !.port = "none", !.heard = TRUE]
      BY <1>0, <2>3 DEF Tasks, Leading
    <2> QED  BY <1>0, <1>12, <2>1, <2>2, <2>3, PlaceAfter DEF Restore, hand_over, Leading
  <1>13. CASE Handed
    <2>1. CASE run' = [run EXCEPT !.pc = "landing", !.over = TRUE, !.todo = Channels]
      BY <1>0, <2>1 DEF Tasks, Leading
    <2>2. CASE run' = [run EXCEPT !.pc = "finish", !.over = TRUE,
                           !.end = [NoEnd EXCEPT !.outcome = "no_firmware_change"]]
      BY <1>0, <2>2 DEF Tasks, Leading
    <2> QED  BY <1>13, <2>1, <2>2 DEF Handed
  <1> QED  BY <1>1, <1>2, <1>3, <1>4, <1>5, <1>6, <1>7, <1>8, <1>9, <1>10, <1>11, <1>12, <1>13
           DEF Onwards

(* What a step of a run that goes on leaves of the record's cancel window. *)
LEMMA WindowOnly ==
    ASSUME UpdateInv, Onwards
    PROVE  /\ cancel' = cancel /\ (rec'.cancellable => rec.cancellable)
           /\ (journal' = journal \/ journal' = rec')
  <1>0. rec \in Records
    BY DEF UpdateInv, Types
  <1>1. ASSUME RecordKept \/ Record(rec) \/ (close_cancel_window /\ UNCHANGED journal)
               \/ Record(Asked(rec)) \/ Record([rec EXCEPT !.changed = TRUE])
               \/ Record([rec EXCEPT !.verified = TRUE]) \/ Record([rec EXCEPT !.answered = TRUE])
        PROVE  (rec'.cancellable => rec.cancellable) /\ (journal' = journal \/ journal' = rec')
    BY <1>0, <1>1 DEF RecordKept, Record, close_cancel_window, Asked, Records
  <1>2. CASE \/ Prepare \/ Prepared \/ Park \/ Parked \/ Enter \/ late_answer \/ Jump \/ Left
             \/ Appear \/ in_firmware \/ Given \/ Gate \/ Lend \/ Lent \/ Ask \/ Press
    BY <1>1, <1>2 DEF Prepare, Prepared, Park, Parked, Enter, late_answer, Jump, Left, Appear,
       in_firmware, Given, Gate, Lend, Lent, Ask, Press, Plain, OutsideKept
  <1>3. CASE \/ Button \/ Window \/ Boot \/ Identify \/ Erase \/ write_sector \/ verify_sector
             \/ Reboot \/ Rebooted \/ File \/ Return \/ Check \/ Restore \/ Handing \/ Refused
             \/ Handed \/ Landing
    BY <1>1, <1>3 DEF Button, Window, Boot, Identify, Erase, write_sector, verify_sector,
       Reboot, Rebooted, File, Return, Check, Restore, Handing, Refused, Handed, Landing,
       fall_back, stop_writing, Plain, OutsideKept, WriteKept
  <1> QED  BY <1>2, <1>3 DEF Onwards

(* The steps that lead there, one by one. *)
LEMMA LeadingSteps ==
    ASSUME UpdateInv, run'.pc \in Leading
    PROVE  /\ Prepared => run'.pc = "park" /\ run'.todo = Channels /\ claim'.suspended
           /\ Park => /\ run.pc = "park" /\ run'.pc = "park" /\ writer = {} /\ claim' = claim
                      /\ \E c : /\ run'.todo = run.todo \ {c}
                                /\ duty' = [duty EXCEPT ![c] = "full"]
           /\ Parked => run.pc = "park" /\ run'.pc = "enter" /\ run.todo = {} /\ run'.todo = {}
                        /\ ~cancel /\ ~rec'.cancellable
           /\ Enter => run.pc = "enter" /\ run'.pc = "borrow" /\ run'.todo = run.todo
           /\ late_answer /\ run.kind = "connected" =>
                  run.pc = "borrow" /\ run'.pc = "jump" /\ run'.todo = run.todo
           /\ Jump => run.pc \in {"jump", "touch"} /\ run'.pc = "left" /\ run'.todo = run.todo
           /\ Left => run.pc = "left" /\ run'.pc = "touch" /\ run'.todo = run.todo
  <1>0. run \in Tasks /\ rec \in Records /\ "finish" \notin Leading
    BY DEF UpdateInv, Types, Leading
  <1>1. ASSUME NEW to \in Leading, Go(to) PROVE run'.pc = to /\ run'.todo = run.todo
    BY <1>0, <1>1 DEF Go, Tasks
  <1>2. ASSUME Prepared PROVE run'.pc = "park" /\ run'.todo = Channels /\ claim'.suspended
    <2>1. run' = [run EXCEPT !.pc = "park", !.todo = Channels] /\ suspend_openfan_writes(run.id)
      BY <1>0, <1>2, PlaceAfter DEF Prepared
    <2>2. run'.pc = "park" /\ run'.todo = Channels
      BY <1>0, <2>1 DEF Tasks
    <2>3. Owns(run.id) /\ claim \in Claims /\ claim # NoClaim
      BY <1>2 DEF Prepared, UpdateInv, ClaimInv, Owns, openfan_maintenance_running, Claimed, Early, Types, NoClaim
    <2>4. claim' = [claim EXCEPT !.suspended = TRUE]
      BY <2>1, <2>3 DEF suspend_openfan_writes
    <2>5. claim'.suspended
      BY <2>3, <2>4 DEF Claims
    <2> QED  BY <2>2, <2>5
  <1>3. ASSUME Park
        PROVE  /\ run.pc = "park" /\ run'.pc = "park" /\ writer = {} /\ claim' = claim
               /\ \E c : run'.todo = run.todo \ {c} /\ duty' = [duty EXCEPT ![c] = "full"]
    <2>1. PICK c : run' = [run EXCEPT !.todo = @ \ {c}] /\ duty' = [duty EXCEPT ![c] = "full"]
      BY <1>0, <1>3, PlaceAfter DEF Park
    <2>2. run'.pc = run.pc /\ run'.todo = run.todo \ {c}
      BY <1>0, <2>1 DEF Tasks
    <2> QED  BY <1>3, <2>1, <2>2 DEF Park, LinkKept
  <1>4. ASSUME Parked
        PROVE  run.pc = "park" /\ run'.pc = "enter" /\ run.todo = {} /\ run'.todo = {}
               /\ ~cancel /\ ~rec'.cancellable
    <2>1. Go("enter") /\ ~cancel
      BY <1>0, <1>4, PlaceAfter DEF Parked
    <2> QED  BY <1>0, <1>1, <1>4, <2>1 DEF Parked, close_cancel_window, Records, Leading
  <1>5. ASSUME Enter PROVE run.pc = "enter" /\ run'.pc = "borrow" /\ run'.todo = run.todo
    <2>1. Go("borrow")
      BY <1>0, <1>5, PlaceAfter DEF Enter, Borrow
    <2> QED  BY <1>1, <1>5, <2>1 DEF Enter, Leading
  <1>6. ASSUME late_answer, run.kind = "connected"
        PROVE  run.pc = "borrow" /\ run'.pc = "jump" /\ run'.todo = run.todo
    <2>1. run' = [run EXCEPT !.pc = "jump", !.port = passing, !.handle = TRUE, !.requested = TRUE]
      BY <1>0, <1>6, PlaceAfter DEF late_answer
    <2> QED  BY <1>0, <1>6, <2>1 DEF late_answer, Tasks
  <1>7. ASSUME Jump
        PROVE  run.pc \in {"jump", "touch"} /\ run'.pc = "left" /\ run'.todo = run.todo
    <2>1. PICK p : run' = [run EXCEPT !.pc = "left", !.port = p]
      BY <1>7 DEF Jump
    <2> QED  BY <1>0, <1>7, <2>1 DEF Jump, Tasks
  <1>8. ASSUME Left PROVE run.pc = "left" /\ run'.pc = "touch" /\ run'.todo = run.todo
    <2>1. Go("touch")
      BY <1>0, <1>8, PlaceAfter DEF Left, Leading
    <2> QED  BY <1>1, <1>8, <2>1 DEF Left, Leading
  <1> QED  BY <1>2, <1>3, <1>4, <1>5, <1>6, <1>7, <1>8

(* A run that goes on keeps what a cancel was told. *)
LEMMA CancelOnwards == ASSUME UpdateInv, Onwards PROVE CancelInv'
  <1>1. Turn
    BY OnwardsTurns
  <1>2. /\ run.pc \in Active /\ run'.kind = run.kind /\ rec'.kind = rec.kind
        /\ rec'.running = rec.running /\ rec'.requested = run'.requested
        /\ journal'.running = rec'.running
    BY <1>1 DEF Turn, RunFrame, RecFrame, Same, Active
  <1>3. rec.kind = run.kind /\ rec.requested = run.requested
    BY <1>2 DEF UpdateInv, RecordInv, Active
  <1>4. cancel' = cancel /\ (rec'.cancellable => rec.cancellable)
        /\ (journal' = journal \/ journal' = rec')
    BY WindowOnly
  <1>5. ASSUME rec'.kind = "connected", rec'.requested PROVE ~rec'.cancellable /\ ~cancel'
    <2>1. CASE run.requested
      BY <1>2, <1>3, <1>4, <1>5, <2>1 DEF UpdateInv, CancelInv
    <2>2. CASE ~run.requested
      <3>1. run.pc = "borrow" /\ run.kind = "connected"
        BY <1>1, <1>2, <1>3, <1>5, <2>2 DEF Turn, Steady, Same3, Asks, Hears, Writes
      <3> QED  BY <1>4, <3>1 DEF UpdateInv, CancelInv
    <2> QED  BY <2>1, <2>2
  <1>6. ASSUME run'.kind = "connected", run'.pc \in {"enter", "borrow"}
        PROVE  ~rec'.cancellable /\ ~cancel'
    <2>1. run'.pc \in Leading /\ run.kind = "connected"
      BY <1>2, <1>6 DEF Leading
    <2>2. Parked \/ run.pc = "enter"
      BY <1>6, <2>1, Elsewhere, LeadingSteps
    <2> QED  BY <1>4, <2>1, <2>2, LeadingSteps DEF UpdateInv, CancelInv
  <1>7. ASSUME NEW r \in {rec', journal'}, r.cancellable PROVE r.running
    BY <1>2, <1>4, <1>7 DEF UpdateInv, CancelInv
  <1> QED  BY <1>5, <1>6, <1>7 DEF CancelInv

(* So does everything else. *)
LEMMA CancelStep == UpdateInv /\ [Next]_vars => CancelInv'
  <1> SUFFICES ASSUME UpdateInv, [Next]_vars PROVE CancelInv'
    OBVIOUS
  <1>0. rec \in Records /\ journal \in Records /\ run \in Tasks
    BY DEF UpdateInv, Types
  <1>1. CASE Onwards
    BY <1>1, CancelOnwards
  <1>2. ASSUME NEW to \in {"release", "giveback", "unwound", "supervised", "idle", "claiming"},
               run'.pc = to, cancel' = cancel,
               rec' = rec \/ (~rec'.cancellable /\ rec'.kind = rec.kind /\ rec'.requested = rec.requested),
               journal' = journal \/ journal' = rec'
        PROVE  CancelInv'
    BY <1>2 DEF UpdateInv, CancelInv
  <1>3. CASE Finish
    <2>1. run'.pc \in {"release", "giveback"}
      BY <1>0, <1>3, PlaceAfter DEF Finish
    <2>2. /\ rec'.cancellable = FALSE /\ rec'.kind = rec.kind /\ rec'.requested = rec.requested
          /\ journal' = rec' /\ cancel' = cancel
      BY <1>0, <1>3, PlainOutside DEF Finish, Record, finish_record, Records
    <2> QED  BY <1>2, <2>1, <2>2
  <1>4. CASE GiveBack \/ Release \/ Panic \/ Unwound
    <2>1. run'.pc \in {"release", "idle", "unwound", "supervised"}
      <3>1. CASE GiveBack
        BY <1>0, <3>1 DEF GiveBack, Tasks
      <3>2. CASE Release
        BY <3>2, NoTaskFields DEF Release
      <3>3. CASE Panic
        BY <1>0, <3>3 DEF Panic, Tasks
      <3>4. CASE Unwound
        BY <1>0, <3>4 DEF Unwound, Tasks
      <3> QED  BY <1>4, <3>1, <3>2, <3>3, <3>4
    <2>2. rec' = rec /\ journal' = journal /\ cancel' = cancel
      BY <1>4, PlainOutside DEF GiveBack, Release, Panic, Unwound, RecordKept
    <2> QED  BY <1>2, <2>1, <2>2
  <1>5. CASE Supervised
    <2>1. /\ run'.pc = "idle" /\ cancel' = cancel /\ journal' = rec'
      BY <1>5, NoTaskFields, PlainOutside DEF Supervised, Record
    <2>2. rec' = rec \/ (rec'.cancellable = FALSE /\ rec'.kind = rec.kind /\ rec'.requested = rec.requested)
      BY <1>0, <1>5 DEF Supervised, Record, finish_record, Records
    <2> QED  BY <1>2, <2>1, <2>2
  <1>6. CASE Starting
    <2>1. CASE \E k \in Kinds, j \in BOOLEAN : StartRequest(k, j)
      <3>1. rec' = rec /\ journal' = journal /\ cancel' = FALSE /\ run'.pc = "claiming"
        BY <2>1 DEF StartRequest, RecordKept, NoTask
      <3> QED  BY <3>1 DEF UpdateInv, CancelInv
    <2>2. CASE Launch
      <3>1. /\ rec'.requested = FALSE /\ rec'.running = TRUE /\ journal' = journal
            /\ run'.pc = "prepare"
        BY <1>0, <2>2 DEF Launch, NewRecord, NoRecord, Tasks
      <3> QED  BY <3>1 DEF UpdateInv, CancelInv
    <2>3. CASE StartRefused
      <3>1. run'.pc = "idle" /\ journal' = journal /\ cancel' = cancel
            /\ (rec' = rec \/ (rec'.requested = FALSE /\ rec'.running = TRUE))
        BY <2>3, NoTaskFields DEF StartRefused, NewRecord, NoRecord, OutsideKept
      <3> QED  BY <3>1 DEF UpdateInv, CancelInv
    <2> QED  BY <1>6, <2>1, <2>2, <2>3 DEF Starting
  <1>7. CASE request_cancel
    <2>1. rec.cancellable /\ rec' = rec /\ journal' = journal /\ run' = run
      BY <1>7 DEF request_cancel, RecordKept
    <2> QED  BY <2>1 DEF UpdateInv, CancelInv
  <1>8. CASE Dies
    <2>1. rec' = NoRecord /\ journal' = journal /\ run' = NoTask
      BY <1>8 DEF Dies, Memory
    <2> QED  BY <2>1, NoTaskFields, NoRecordFields DEF UpdateInv, CancelInv
  <1>9. CASE Start
    <2>1. /\ rec' = recover(journal) /\ journal' = recover(journal) /\ run' = run
          /\ ~cancel' /\ run.pc = "idle"
      BY <1>9, DownFacts DEF Start
    <2>2. ~recover(journal).cancellable
      BY <1>0, RecoverFields DEF UpdateInv, CancelInv
    <2> QED  BY <2>1, <2>2 DEF CancelInv
  <1>10. CASE \/ Stop \/ LoopEnds \/ Probing \/ Engine \/ LoopStep \/ BoardStep \/ UNCHANGED vars
    <2>1. rec' = rec /\ journal' = journal /\ cancel' = cancel
      BY <1>10
         DEF Stop, LoopEnds, AroundKept, Probing, RescanChecks, ProbeOpens, ProbeAsks, ProbeAdopts,
             ProbeKept, Engine, EngineSends, EngineLocks, LoopStep, BoardStep, Settles, Resets,
             Hangs, UserBoots, UserCopies, Restarts, RecordKept, vars, runVars
    <2>2. run'.pc = run.pc /\ run'.kind = run.kind
      BY <1>10, StopAround, LoopEndsAround, ProbingAround, EngineAround, LoopStepAround, BoardAround,
         UserCopiesKeeps DEF Around, CoreKept, BoardStep, vars, runVars
    <2> QED  BY <2>1, <2>2 DEF UpdateInv, CancelInv
  <1> QED  BY <1>1, <1>3, <1>4, <1>5, <1>6, <1>7, <1>8, <1>9, <1>10
           DEF Next, RunStep, Onwards, Life

LEMMA LeadingClaimed == Leading \subseteq Claimed
  BY DEF Leading, Claimed, Early, Going

(* What a run that goes on does to the channels it has parked. *)
LEMMA ParkOnwards == ASSUME UpdateInv, Onwards PROVE ParkInv'
  <1> SUFFICES ASSUME run'.pc \in Leading, run'.kind = "connected"
               PROVE  /\ claim'.suspended /\ writer' \subseteq run'.todo
                      /\ \A c \in Channels \ run'.todo : duty'[c] # "profile"
    BY DEF ParkInv, Leading
  <1>0. run.kind = "connected" /\ writer \subseteq Channels /\ duty \in [Channels -> {"full", "profile", "unknown"}]
    BY OnwardsTurns DEF Turn, RunFrame, UpdateInv, Types
  <1>1. CASE Prepared
    <2>1. writer' = writer
      BY <1>1 DEF Prepared, OutsideKept, outsideVars
    <2> QED  BY <1>0, <1>1, <2>1, LeadingSteps
  <1>2. CASE Park
    <2>1. PICK c : run'.todo = run.todo \ {c} /\ duty' = [duty EXCEPT ![c] = "full"]
      BY <1>2, LeadingSteps
    <2>2. run.pc = "park" /\ writer' = {} /\ claim' = claim
      BY <1>2, LeadingSteps DEF Park, OutsideKept, outsideVars
    <2>3. claim.suspended /\ \A x \in Channels \ run.todo : duty[x] # "profile"
      BY <1>0, <2>2 DEF UpdateInv, ParkInv
    <2> QED  BY <1>0, <2>1, <2>2, <2>3
  <1>3. CASE Parked \/ Enter \/ late_answer \/ Left
    <2>1. run.pc \in Leading /\ run'.todo = run.todo
      BY <1>0, <1>3, LeadingSteps DEF Leading
    <2>2. duty' = duty /\ claim' = claim /\ writer' = writer
      BY <1>3 DEF Parked, Enter, late_answer, Left, Plain, BoardKept, boardVars, LinkKept,
         OutsideKept, outsideVars
    <2> QED  BY <1>0, <2>1, <2>2 DEF UpdateInv, ParkInv, Leading
  <1>4. CASE Jump
    <2>1. run.pc \in Leading /\ run'.todo = run.todo
      BY <1>4, LeadingSteps DEF Leading
    <2>2. (duty' = duty \/ duty' = Unknown) /\ claim' = claim /\ writer' = writer
      BY <1>4 DEF Jump, BoardKept, boardVars, Leaves
    <2> QED  BY <1>0, <2>1, <2>2 DEF UpdateInv, ParkInv, Leading, Unknown
  <1> QED  BY <1>0, <1>1, <1>2, <1>3, <1>4, Elsewhere

(* What happens around it does to them. *)
LEMMA ParkAround ==
    ASSUME UpdateInv,
           \/ request_cancel \/ Stop \/ LoopEnds \/ Probing \/ Engine \/ LoopStep
           \/ Settles \/ Resets \/ Hangs \/ UserBoots
    PROVE  ParkInv'
  <1>1. Around
    BY RequestCancelAround, StopAround, LoopEndsAround, ProbingAround, EngineAround,
       LoopStepAround, BoardAround
  <1> SUFFICES ASSUME run'.pc \in Leading, run'.kind = "connected"
               PROVE  /\ claim'.suspended /\ writer' \subseteq run'.todo
                      /\ \A c \in Channels \ run'.todo : duty'[c] # "profile"
    BY DEF ParkInv, Leading
  <1>2. run.pc \in Leading /\ run.kind = "connected" /\ claim.held = "running"
    BY <1>1, LeadingClaimed DEF Around, CoreKept, UpdateInv, ClaimInv
  <1>3. /\ claim.suspended /\ writer \subseteq run.todo /\ claim' = claim
        /\ \A c \in Channels \ run.todo : duty[c] # "profile"
    BY <1>1, <1>2 DEF UpdateInv, ParkInv, Leading, Around
  <1>4. run \in Tasks /\ duty \in [Channels -> {"full", "profile", "unknown"}]
    BY DEF UpdateInv, Types
  <1>5. CASE Engine
    <2>1. EngineSends
      BY <1>3, <1>5 DEF Engine, EngineLocks, openfan_writes_suspended
    <2>2. run' = run /\ writer' = {}
      BY <1>2, <2>1 DEF EngineSends, Leading
    <2>3. \A c \in Channels : duty'[c] = duty[c] \/ c \in writer
      BY <1>4, <2>1 DEF EngineSends
    <2> QED  BY <1>3, <2>2, <2>3
  <1>6. CASE \/ request_cancel \/ Stop \/ LoopEnds \/ Probing \/ LoopStep
             \/ Settles \/ Resets \/ Hangs \/ UserBoots
    <2>1. run'.todo = run.todo
      <3>1. run' = run \/ run' = [run EXCEPT !.port = Restarted(@)]
        BY <1>6 DEF request_cancel, Stop, LoopEnds, AroundKept, Probing, RescanChecks, ProbeOpens,
           ProbeAsks, ProbeAdopts, ProbeKept, LoopStep, Settles, Resets, Hangs, UserBoots, Restarts
      <3>2. CASE run' = [run EXCEPT !.port = Restarted(@)]
        BY <1>4, <3>2 DEF Tasks
      <3> QED  BY <3>1, <3>2
    <2>2. writer' = writer
      BY <1>6 DEF request_cancel, Stop, LoopEnds, AroundKept, Probing, RescanChecks, ProbeOpens,
         ProbeAsks, ProbeAdopts, ProbeKept, LoopStep, reconnect_via_survey, Settles, Resets,
         Hangs, UserBoots, Restarts, outsideVars
    <2>3. duty' = duty \/ duty' = Unknown
      <3>1. CASE LoopStep
        BY <3>1 DEF LoopStep, LoopStarts, Poll, LenderStep, LendTakes, LendAnswers, LoanEnds,
           boardVars, reconnect_via_survey, Reconnect
      <3>2. CASE request_cancel \/ Stop \/ LoopEnds \/ Probing
        BY <3>2, BoardStays DEF BoardKept, boardVars, Life
      <3>3. CASE Settles \/ Resets \/ Hangs \/ UserBoots
        BY <3>3 DEF Settles, Resets, Hangs, UserBoots, Restarts, Leaves
      <3> QED  BY <1>6, <3>1, <3>2, <3>3
    <2> QED  BY <1>3, <2>1, <2>2, <2>3 DEF Unknown
  <1> QED  BY <1>5, <1>6

(* A parked channel stays parked until the board has left. *)
LEMMA ParkStep == UpdateInv /\ [Next]_vars => ParkInv'
  <1> SUFFICES ASSUME UpdateInv, [Next]_vars PROVE ParkInv'
    OBVIOUS
  <1>0. rec \in Records /\ run \in Tasks
    BY DEF UpdateInv, Types
  <1>1. CASE Onwards
    BY <1>1, ParkOnwards
  <1>2. CASE \/ request_cancel \/ Stop \/ LoopEnds \/ Probing \/ Engine \/ LoopStep
             \/ Settles \/ Resets \/ Hangs \/ UserBoots
    BY <1>2, ParkAround
  <1>3. ASSUME run'.pc \notin Leading PROVE ParkInv'
    BY <1>3 DEF ParkInv, Leading
  <1>4. CASE Finish
    <2>1. run'.pc \in {"release", "giveback"}
      BY <1>0, <1>4, PlaceAfter DEF Finish
    <2> QED  BY <1>3, <2>1 DEF Leading
  <1>5. CASE GiveBack
    BY <1>0, <1>3, <1>5 DEF GiveBack, Tasks, Leading
  <1>6. CASE Release \/ Supervised \/ StartRefused \/ Dies
    BY <1>3, <1>6, NoTaskFields DEF Release, Supervised, StartRefused, Dies, Memory, Leading
  <1>7. CASE Panic
    BY <1>0, <1>3, <1>7 DEF Panic, Tasks, Leading
  <1>8. CASE Unwound
    BY <1>0, <1>3, <1>8 DEF Unwound, Tasks, Leading
  <1>9. CASE \E k \in Kinds, j \in BOOLEAN : StartRequest(k, j)
    <2>1. run'.pc = "claiming"
      BY <1>9 DEF StartRequest, NoTask
    <2> QED  BY <1>3, <2>1 DEF Leading
  <1>10. CASE Launch
    BY <1>0, <1>3, <1>10 DEF Launch, Tasks, Leading
  <1>11. CASE Start
    <2>1. run'.pc = "idle"
      BY <1>11, DownFacts DEF Start
    <2> QED  BY <1>3, <2>1 DEF Leading
  <1>12. CASE UserCopies
    <2>1. run'.pc \in {"file", "idle"}
      BY <1>12, UserCopiesKeeps, DownFacts DEF LeftForUser
    <2> QED  BY <1>3, <2>1 DEF Leading
  <1>13. CASE UNCHANGED vars
    BY <1>13 DEF vars, runVars, outsideVars, boardVars, UpdateInv, ParkInv
  <1> QED  BY <1>1, <1>2, <1>4, <1>5, <1>6, <1>7, <1>8, <1>9, <1>10, <1>11, <1>12, <1>13
           DEF Next, RunStep, Onwards, Life, BoardStep, Starting

LEMMA UpdateStep == UpdateInv /\ [Next]_vars => UpdateInv'
  BY TypesStep, CoreStep, BoardStepKept, CancelStep, ParkStep DEF Core, UpdateInv

LEMMA UpdateInit == Init => UpdateInv
  <1> SUFFICES ASSUME Init PROVE UpdateInv
    OBVIOUS
  <1>1. run = NoTask /\ rec = NoRecord /\ journal = NoRecord /\ started = NoRun
    BY DEF Init, NoRun
  <1>2. run.pc = "idle" /\ run \in Tasks /\ ~run.requested /\ ~run.heard /\ ~run.answered /\ ~run.over
        /\ ~run.written /\ ~run.handle /\ run.sectors = 0
    BY <1>1, NoTaskTyped DEF NoTask
  <1>3. rec \in Records /\ journal \in Records
    BY <1>1, NewForms
  <1>4. Types
    <2>1. NoRun \in Runs /\ claim \in Claims /\ SectorInv
      BY <1>2 DEF Runs, Init, Claims, SectorInv
    <2>2. /\ board \in {"firmware", "boot", "empty"} /\ talks \in BOOLEAN
          /\ duty \in [Channels -> {"full", "profile", "unknown"}]
          /\ slot \in Transports /\ passing \in Transports
          /\ loop = "none" /\ ask = "none" /\ back = "none"
          /\ accepts \in BOOLEAN /\ waiting \in BOOLEAN /\ settled \in BOOLEAN
          /\ link \in Links
      BY DEF Init, Unknown, Transports, Links
    <2>3. /\ flash = "old" /\ exclusive \in BOOLEAN /\ daemon = "down"
          /\ controller \in BOOLEAN /\ evidence \in BOOLEAN /\ gate = "free" /\ probe = "idle"
          /\ writer \subseteq Channels /\ cancel \in BOOLEAN
      BY DEF Init
    <2>4. events \in 0 .. MaxEvents
      BY UpdateAssumption DEF Init
    <2> QED  BY <1>1, <1>2, <1>3, <2>1, <2>2, <2>3, <2>4 DEF Types
  <1>5. ClaimInv
    BY <1>1, <1>2 DEF ClaimInv, Init, NoClaim, Claimed, Early, Going, Writing, Back, Ending
  <1>6. TaskInv /\ PlaceInv /\ EndInv
    BY <1>2 DEF TaskInv, Fresh, PlaceInv, KindOK, EndInv, Early, Going, Writing, Back, Ending
  <1>7. BoardInv /\ FlashInv
    BY <1>2 DEF Init, BoardInv, FlashInv, Claimed, Early, Going, Writing, Back, Ending
  <1>8. RecordInv
    BY <1>1, <1>2, NoRecordFields
       DEF RecordInv, WellFormed, Claimed, Early, Going, Writing, Back, Ending, Unwinding, NoRun
  <1>9. CancelInv /\ ParkInv /\ ExactInv
    BY <1>1, <1>2, NoRecordFields DEF CancelInv, ParkInv, ExactInv, NoOutcome
  <1> QED  BY <1>4, <1>5, <1>6, <1>7, <1>8, <1>9 DEF UpdateInv

LEMMA UpdateAlways == Spec => []UpdateInv
  BY UpdateInit, UpdateStep, PTL DEF Spec

(* Type correctness: whatever the run, the loop, the rescans, the engine,  *)
(* the board and the daemon's restarts do, every variable keeps its type.  *)
THEOREM FirmwareTypes == Spec => []TypeOK
  <1>1. UpdateInv => TypeOK
    BY DEF UpdateInv, Types, TypeOK, Tasks, Records, Runs
  <1> QED  BY <1>1, UpdateAlways, PTL

(* Between parking and the board's leaving no channel that was parked is   *)
(* back at a speed the profile chose: the claim is suspended, and the      *)
(* write that was under way holds only a channel not parked yet.           *)
THEOREM ParkedStaysParked == Spec => []ParkedIsKept
  <1>1. UpdateInv => ParkedIsKept
    BY DEF UpdateInv, ParkInv, ParkedIsKept
  <1> QED  BY <1>1, UpdateAlways, PTL

(* A run for a board that answers, once it accepted a cancel, asks nothing *)
(* of the board: the window closes, under the record's lock, before the    *)
(* request.                                                                *)
THEOREM CancelHolds == Spec => []CancelStops
  <1>1. UpdateInv => CancelStops
    BY DEF UpdateInv, CancelInv, CancelStops
  <1> QED  BY <1>1, UpdateAlways, PTL

(* A record or journal that says the latest run verified the exact build   *)
(* is true of the board, and the claim asks for no recovery; not even a    *)
(* panic or a restart in between leaves one that is not.                   *)
THEOREM ExactIsTheDaemons == Spec => []ExactIsExact
  <1>1. UpdateInv => ExactIsExact
    BY DEF UpdateInv, ExactInv, ExactIsExact
  <1> QED  BY <1>1, UpdateAlways, PTL

(* Who may tell the loop that there is nothing to take back. *)
LEMMA TellsNothing ==
    ASSUME UpdateInv, [Next]_vars, back # "nothing", back' = "nothing"
    PROVE  in_firmware \/ GiveBack \/ Unwound
  <1>1. \/ back' = back \/ back' \in {"none", "port"} \/ in_firmware \/ GiveBack \/ Unwound
    <2>0. ASSUME LoanKept \/ Plain \/ WriteKept PROVE back' = back
      BY <2>0 DEF Plain, WriteKept, LoanKept, loanVars
    <2>1. CASE \/ Prepare \/ Prepared \/ Park \/ Parked \/ Left
               \/ Appear \/ Given \/ Gate \/ Lent \/ Press \/ Button \/ Window \/ Boot
      BY <2>0, <2>1 DEF Prepare, Prepared, Park, Parked, Left, Appear, Given, Gate, Lent, Press,
         Button, Window, Boot, Plain
    <2>2. CASE Enter \/ Lend \/ late_answer \/ Jump
      BY <2>0, <2>2 DEF Enter, Lend, Borrow, Request, late_answer, StopsListening, Jump, Leaves
    <2>3. CASE Ask \/ Restore
      BY <2>0, <2>3 DEF Ask, Restore, hand_over, GivesBack, Adopts
    <2>4. CASE \/ Identify \/ Erase \/ write_sector \/ verify_sector
               \/ Reboot \/ Rebooted \/ File \/ Return \/ Check \/ Handing \/ Refused
               \/ Handed \/ Landing
      BY <2>0, <2>4 DEF Identify, Erase, write_sector, verify_sector, Reboot, Rebooted, File,
         Return, Check, Handing, Refused, Handed, Landing, Leaves
    <2>5. CASE Finish \/ Release \/ Panic \/ Supervised \/ Starting \/ request_cancel
      BY <2>0, <2>5 DEF Finish, Release, Panic, Supervised, Starting, StartRequest, Launch,
         StartRefused, request_cancel
    <2>6. CASE Life \/ Probing \/ Engine
      BY <2>0, <2>6 DEF Life, Stop, LoopEnds, LoopStops, Dies, Memory, Start, Probing,
         RescanChecks, ProbeOpens, ProbeAsks, ProbeAdopts, Adopts, Engine, EngineSends, EngineLocks
    <2>7. CASE LoopStep
      BY <2>0, <2>7 DEF LoopStep, LoopStarts, Poll, LenderStep, LendTakes, LendAnswers, LoanEnds,
         reconnect_via_survey, Reconnect, loanVars
    <2>8. CASE BoardStep \/ UNCHANGED vars
      BY <2>0, <2>8 DEF BoardStep, Settles, Resets, Hangs, UserBoots, UserCopies, Restarts, Leaves,
         vars, loanVars
    <2> QED  BY <2>1, <2>2, <2>3, <2>4, <2>5, <2>6, <2>7, <2>8 DEF Next, RunStep
  <1> QED  BY <1>1

(* The loop is told that there is nothing to take back only when a port    *)
(* may be gone: the run asked the board to leave, or is for a silent one,  *)
(* or panicked.                                                            *)
THEOREM LoansComeBack == Spec => LoanNotWasted
  <1>1. UpdateInv /\ [Next]_vars =>
          [back # "nothing" /\ back' = "nothing" =>
             run.requested \/ run.kind = "silent" \/ run.pc = "unwound"]_vars
    <2> SUFFICES ASSUME UpdateInv, [Next]_vars, back # "nothing", back' = "nothing"
                 PROVE  run.requested \/ run.kind = "silent" \/ run.pc = "unwound"
      OBVIOUS
    <2>1. CASE in_firmware
      BY <2>1 DEF in_firmware, UpdateInv, TaskInv, Going
    <2>2. CASE GiveBack
      <3>1. run.handle /\ run.kind # "none" /\ run.kind \in BoardKinds
        BY <2>2 DEF GiveBack, UpdateInv, PlaceInv, Types, Tasks
      <3> QED  BY <3>1 DEF UpdateInv, PlaceInv, BoardKinds
    <2>3. CASE Unwound
      BY <2>3 DEF Unwound
    <2> QED  BY <2>1, <2>2, <2>3, TellsNothing
  <1> QED  BY <1>1, UpdateAlways, PTL DEF Spec, LoanNotWasted

----------------------------------------------------------------------------
(* The update keeps its custody of the board: each step is one of          *)
(* Custody's, or changes nothing there.                                    *)

PriorOf == IF claim.held = "running" /\ run.prior # NoRun THEN "recovery" ELSE "control"
DiskOf == IF recovery_token(recover(journal).outcome) THEN "recovery" ELSE "clean"
FlashOf == IF flash = "old" THEN "asFound" ELSE "changed"
AnswersOf == Answers("port") \/ loop = "starting" \/ back = "port" \/ probe \in {"found", "stale"}

(* What a restart makes of a record. *)
LEMMA DiskMeans ==
    ASSUME NEW j \in Records
    PROVE  /\ recovery_token(recover(j).outcome) <=>
                 IF j.running THEN j.requested /\ ~j.answered ELSE recovery_token(j.outcome)
           /\ ~recover(j).running
  <1>1. CASE j.running
    <2>1. /\ recover(j).outcome = when_interrupted(j.requested, j.answered)
          /\ ~recover(j).running
      BY <1>1 DEF recover, finish_record, Records
    <2> QED  BY <1>1, <2>1 DEF when_interrupted, recovery_token
  <1>2. CASE ~j.running
    BY <1>2 DEF recover
  <1> QED  BY <1>1, <1>2

Kept == Mode' = Mode /\ PriorOf' = PriorOf /\ DiskOf' = DiskOf /\ FlashOf' = FlashOf

(* Each step of Custody's, and none, is one of its next-state relation. *)
LEMMA CustodyNext ==
    \/ Kept \/ Board!Take \/ Board!Note \/ Board!Ask \/ Board!Change \/ Board!FoundUnchanged
    \/ Board!Return \/ Board!Answered \/ Board!Doubt \/ Board!Resume \/ Board!Leave
    \/ Board!Recover \/ Board!Die \/ Board!Restart
    => Board!Next
  BY DEF Board!Next, Kept, PriorOf, DiskOf, FlashOf

(* What the journal says, by the place of the run. *)
LEMMA DiskByPlace ==
    ASSUME UpdateInv, run.pc \in Claimed \ {"prepare"}
    PROVE  DiskOf = IF IF run.pc \in {"giveback", "release"} THEN recovery_token(run.end.outcome)
                       ELSE run.requested /\ ~run.heard
                    THEN "recovery" ELSE "clean"
  <1>1. journal \in Records /\ Same(journal, rec)
    BY DEF UpdateInv, Types, RecordInv
  <1>2. rec.requested = run.requested /\ rec.answered = run.answered
        /\ (rec.running <=> run.pc \notin {"giveback", "release"})
        /\ (run.pc \in {"giveback", "release"} => rec.outcome = run.end.outcome)
    BY DEF UpdateInv, RecordInv
  <1>3. run.requested => (run.answered <=> run.heard)
    BY DEF UpdateInv, TaskInv
  <1>4. recovery_token(recover(journal).outcome) <=>
           IF rec.running THEN run.requested /\ ~run.heard ELSE recovery_token(rec.outcome)
    BY <1>1, <1>2, <1>3, DiskMeans DEF Same
  <1> QED  BY <1>2, <1>4 DEF DiskOf

(* A claim that runs is held by a daemon that is up. *)
LEMMA ClaimedMode ==
    ASSUME UpdateInv, run.pc \in Claimed
    PROVE  /\ claim.held = "running" /\ daemon # "down"
           /\ Mode = IF run.heard THEN "answered" ELSE IF run.requested THEN "away" ELSE "held"
           /\ ~run.requested => flash = "old"
  <1>1. claim.held = "running" /\ daemon # "down"
    BY DEF UpdateInv, ClaimInv, NoClaim
  <1> QED  BY <1>1 DEF Mode, UpdateInv, FlashInv

LEMMA Held ==
    ASSUME claim \in Claims
    PROVE  /\ claim.held \in {"none", "running", "recovery"}
           /\ claim.held = "recovery" => claim.run \in RunIds
  <1>1. CASE claim = NoClaim
    BY <1>1 DEF NoClaim
  <1>2. CASE claim \in [held : {"running"}, run : RunIds, suspended : BOOLEAN]
    BY <1>2
  <1>3. CASE claim \in [held : {"recovery"}, run : RunIds, suspended : {TRUE}]
    BY <1>3
  <1> QED  BY <1>1, <1>2, <1>3 DEF Claims

LEMMA TurnCustody ==
    ASSUME UpdateInv, Turn, Types'
    PROVE  Board!Next
  <1>1. run.pc \in Claimed /\ run'.pc \in Claimed /\ run.pc \in Active
    BY DEF Turn, RunFrame, Active
  <1>2. claim'.held = "running" /\ daemon' = daemon /\ claim.held = "running" /\ daemon # "down"
    BY <1>1, ClaimedMode DEF Turn, RunFrame, ClaimFrame
  <1>3. /\ Mode = IF run.heard THEN "answered" ELSE IF run.requested THEN "away" ELSE "held"
        /\ Mode' = IF run'.heard THEN "answered" ELSE IF run'.requested THEN "away" ELSE "held"
        /\ ~run.requested => flash = "old"
    BY <1>1, <1>2, ClaimedMode DEF Mode
  <1>4. PriorOf' = PriorOf
    BY <1>2 DEF PriorOf, Turn
  <1>5. DiskOf' = IF run'.requested /\ ~run'.heard THEN "recovery" ELSE "clean"
    <2>1. rec.running
      BY <1>1 DEF UpdateInv, RecordInv, Active
    <2>2. journal'.running /\ journal'.requested = run'.requested
          /\ journal'.answered = run'.answered
      BY <2>1 DEF Turn, RunFrame, RecFrame, Same
    <2>3. run'.requested => (run'.answered <=> run'.heard)
      BY DEF Turn, TaskInv
    <2>4. journal' \in Records
      BY DEF Types
    <2> HIDE DEF Turn
    <2>5. recovery_token(recover(journal').outcome) <=> run'.requested /\ ~run'.heard
      BY <2>2, <2>3, <2>4, DiskMeans
    <2> QED  BY <2>5 DEF DiskOf
  <1>6. run.pc # "prepare" =>
           DiskOf = IF run.requested /\ ~run.heard THEN "recovery" ELSE "clean"
    BY <1>1, DiskByPlace DEF Active
  <1>7. run.pc = "prepare" => ~run.requested /\ ~run.heard
    BY EarlyFacts DEF Early
  <1>8. CASE Steady
    <2>1. FlashOf' = FlashOf
      BY <1>8 DEF Steady, FlashOf
    <2>2. CASE run.pc = "prepare"
      <3>1. Board!Note
        BY <1>3, <1>4, <1>5, <1>7, <1>8, <2>1, <2>2
           DEF Board!Note, Board!Stays, Steady, Same3, PriorOf, DiskOf, FlashOf
      <3> QED  BY <3>1, CustodyNext
    <2>3. CASE run.pc # "prepare"
      <3>1. Kept
        BY <1>3, <1>4, <1>5, <1>6, <1>8, <2>1, <2>3 DEF Kept, Steady, Same3
      <3> QED  BY <3>1, CustodyNext
    <2> QED  BY <2>2, <2>3
  <1>9. CASE Asks
    <2>1. Board!Ask
      BY <1>3, <1>4, <1>5, <1>9 DEF Board!Ask, Asks, PriorOf, DiskOf, FlashOf
    <2> QED  BY <2>1, CustodyNext
  <1>10. CASE Hears
    <2>1. Board!Answered
      BY <1>3, <1>4, <1>5, <1>10 DEF Board!Answered, Hears, PriorOf, DiskOf, FlashOf
    <2> QED  BY <2>1, CustodyNext
  <1>11. CASE Writes
    <2>1. DiskOf' = DiskOf /\ DiskOf = "recovery" /\ Mode' = Mode
      BY <1>3, <1>5, <1>6, <1>7, <1>11 DEF Writes, Same3
    <2>2. CASE FlashOf' = FlashOf
      BY <1>4, <2>1, <2>2, CustodyNext DEF Kept
    <2>3. CASE FlashOf' # FlashOf
      <3>1. FlashOf' = "changed"
        BY <1>11, <2>3 DEF Writes, FlashOf
      <3>2. Board!Change
        BY <1>4, <2>1, <3>1 DEF Board!Change, Board!Stays, PriorOf, DiskOf, FlashOf
      <3> QED  BY <3>2, CustodyNext
    <2> QED  BY <2>2, <2>3
  <1> QED  BY <1>8, <1>9, <1>10, <1>11 DEF Turn

(* The end of a run is written down before it lets go of the board. *)
LEMMA FinishCustody ==
    ASSUME UpdateInv, Finish, Types'
    PROVE  Board!Next
  <1>1. /\ run.pc = "finish" /\ CoreKept /\ ClaimFrame /\ flash' = flash
        /\ journal'.running = FALSE /\ journal'.outcome = run.end.outcome
    BY FinishKeeps
  <1>2. run.pc \in Claimed /\ run.pc # "prepare"
    BY <1>1 DEF Claimed, Ending
  <1>3. Mode' = Mode /\ PriorOf' = PriorOf /\ FlashOf' = FlashOf
        /\ Mode = IF run.heard THEN "answered" ELSE IF run.requested THEN "away" ELSE "held"
    BY <1>1, <1>2, ClaimedMode DEF Mode, PriorOf, FlashOf, CoreKept, ClaimFrame
  <1>4. DiskOf = IF run.requested /\ ~run.heard THEN "recovery" ELSE "clean"
    BY <1>1, <1>2, DiskByPlace
  <1>5. DiskOf' = IF recovery_token(run.end.outcome) THEN "recovery" ELSE "clean"
    <2>1. journal' \in Records
      BY DEF Types
    <2>2. recovery_token(recover(journal').outcome) <=> recovery_token(run.end.outcome)
      BY <1>1, <2>1, DiskMeans
    <2> QED  BY <2>2 DEF DiskOf
  <1>6. EndOK(run.end.outcome, run.requested, run.heard, flash)
    BY <1>1 DEF UpdateInv, EndInv, Ending
  <1>7. CASE DiskOf' = DiskOf
    BY <1>3, <1>7, CustodyNext DEF Kept
  <1>8. CASE DiskOf' # DiskOf
    <2>1. CASE run.requested /\ ~run.heard
      <3>1. Board!FoundUnchanged
        BY <1>3, <1>4, <1>5, <1>6, <1>8, <2>1
           DEF Board!FoundUnchanged, Board!Stays, EndOK, PriorOf, DiskOf, FlashOf
      <3> QED  BY <3>1, CustodyNext
    <2>2. CASE run.requested /\ run.heard
      <3>1. Board!Doubt
        BY <1>3, <1>4, <1>5, <1>8, <2>2 DEF Board!Doubt, Board!Stays, PriorOf, DiskOf, FlashOf
      <3> QED  BY <3>1, CustodyNext
    <2>3. CASE ~run.requested
      BY <1>4, <1>5, <1>6, <1>8, <2>3 DEF EndOK, recovery_token
    <2> QED  BY <2>1, <2>2, <2>3
  <1> QED  BY <1>7, <1>8

(* The claim ends, and with it the custody: as the run had it, to the      *)
(* engine, or to a recovery.                                               *)
LEMMA EndsCustody ==
    ASSUME UpdateInv, run.pc \in Claimed,
           NEW o \in Outcomes, NEW over \in BOOLEAN, ClaimEnds(o, over),
           daemon' = daemon, flash' = flash, journal' = journal,
           EndOK(o, run.requested, run.heard, flash), over => run.heard,
           recovery_token(o) => DiskOf = "recovery" \/ flash = "old"
    PROVE  Board!Next
  <1>2. /\ Mode = IF run.heard THEN "answered" ELSE IF run.requested THEN "away" ELSE "held"
        /\ ~run.requested => flash = "old"
        /\ claim.held = "running" /\ daemon # "down"
    BY ClaimedMode
  <1>3. /\ claim'.held \in {"none", "recovery"}
        /\ claim'.held = "recovery" <=> (Unchanged(o, over) /\ run.prior # NoRun) \/ recovery_token(o)
    BY ClaimEndsFields
  <1>4. /\ Mode' = IF claim'.held = "none" THEN "control" ELSE "recovery"
        /\ PriorOf' = "control" /\ DiskOf' = DiskOf /\ FlashOf' = FlashOf
    BY <1>2, <1>3 DEF Mode, PriorOf, DiskOf, FlashOf
  <1>5. CASE Unchanged(o, over)
    <2>1. Mode' = PriorOf
      BY <1>2, <1>3, <1>4, <1>5 DEF PriorOf, Unchanged, recovery_token
    <2>2. Mode = "held" \/ (Mode \in {"away", "answered"} /\ FlashOf = "asFound")
      BY <1>2, <1>5 DEF Unchanged, EndOK, recovery_token, FlashOf
    <2>3. Board!Return
      BY <1>4, <2>1, <2>2 DEF Board!Return, Board!GoesTo, PriorOf, DiskOf, FlashOf
    <2> QED  BY <2>3, CustodyNext
  <1>6. CASE recovery_token(o)
    <2>1. Mode \in {"away", "answered"} /\ Mode' = "recovery"
          /\ (DiskOf = "recovery" \/ FlashOf = "asFound")
      BY <1>2, <1>3, <1>4, <1>6 DEF EndOK, recovery_token, FlashOf
    <2>2. Board!Leave
      BY <1>4, <2>1 DEF Board!Leave, Board!GoesTo, PriorOf, DiskOf, FlashOf
    <2> QED  BY <2>2, CustodyNext
  <1>7. CASE ~Unchanged(o, over) /\ ~recovery_token(o)
    <2>1. Mode = "answered" /\ Mode' = "control"
      BY <1>2, <1>3, <1>4, <1>7 DEF EndOK, Unchanged
    <2>2. Board!Resume
      BY <1>4, <2>1 DEF Board!Resume, Board!GoesTo, PriorOf, DiskOf, FlashOf
    <2> QED  BY <2>2, CustodyNext
  <1> QED  BY <1>5, <1>6, <1>7

LEMMA ReleaseCustody == ASSUME UpdateInv, Release PROVE Board!Next
  <1>1. /\ run.pc = "release" /\ ClaimEnds(run.end.outcome, run.over) /\ flash' = flash
        /\ journal' = journal /\ daemon' = daemon
    BY ReleaseKeeps
  <1>2. run.pc \in Claimed \ {"prepare"}
    BY <1>1 DEF Claimed, Ending
  <1>3. run.end.outcome \in Outcomes /\ run.over \in BOOLEAN
    BY DEF UpdateInv, Types, Tasks, Ends
  <1>4. EndOK(run.end.outcome, run.requested, run.heard, flash) /\ (run.over => run.heard)
    BY <1>1 DEF UpdateInv, EndInv, Ending, TaskInv
  <1>5. recovery_token(run.end.outcome) => DiskOf = "recovery"
    BY <1>1, <1>2, DiskByPlace
  <1> QED  BY <1>1, <1>2, <1>3, <1>4, <1>5, EndsCustody

LEMMA PanicCustody == ASSUME UpdateInv, Panic PROVE Board!Next
  <1> DEFINE o == when_interrupted(run.requested, run.answered)
  <1>1. /\ run.pc \in Claimed /\ ClaimEnds(o, FALSE) /\ flash' = flash
        /\ journal' = journal /\ daemon' = daemon
    BY PanicKeeps
  <1>2. o \in Outcomes /\ (recovery_token(o) <=> run.requested /\ ~run.answered)
        /\ (~run.requested <=> o = "no_firmware_change")
        /\ o # "exact_build_verified"
        /\ (~recovery_token(o) /\ run.requested => o = "board_back_control_not_restored")
    BY DEF when_interrupted, Outcomes, recovery_token
  <1>3. /\ run.requested => (run.answered <=> run.heard)
        /\ run.pc = "prepare" => ~run.requested
    BY DEF UpdateInv, TaskInv, Fresh, Early
  <1> HIDE DEF o
  <1>4. EndOK(o, run.requested, run.heard, flash)
    BY <1>2, <1>3 DEF EndOK
  <1>5. recovery_token(o) => DiskOf = "recovery" \/ flash = "old"
    <2>1. SUFFICES ASSUME recovery_token(o), flash # "old" PROVE DiskOf = "recovery"
      OBVIOUS
    <2>2. run.pc \in Claimed \ {"prepare"} /\ run.requested /\ ~run.heard
      BY <1>1, <1>2, <1>3, <2>1
    <2>3. run.pc \in {"giveback", "release"} => recovery_token(run.end.outcome)
      BY <2>1, <2>2 DEF UpdateInv, EndInv, EndOK, Ending
    <2> QED  BY <2>2, <2>3, DiskByPlace
  <1> QED  BY <1>1, <1>2, <1>3, <1>4, <1>5, EndsCustody

(* What leaves the claim, the daemon and the journal alone. *)
LEMMA SupervisedCustody ==
    ASSUME UpdateInv, Unwound \/ Supervised, Types'
    PROVE  Board!Next
  <1>0. claim.held \in {"none", "running", "recovery"}
    BY Held DEF UpdateInv, Types
  <1>1. CASE Unwound
    <2>1. flash' = flash /\ journal' = journal /\ daemon' = daemon /\ claim' = claim
          /\ claim.held # "running"
      BY <1>1, UnwoundKeeps
    <2>2. Kept
      BY <1>0, <2>1 DEF Kept, Mode, PriorOf, DiskOf, FlashOf
    <2> QED  BY <2>2, CustodyNext
  <1>2. CASE Supervised
    <2>1. /\ flash' = flash /\ daemon' = daemon /\ claim' = claim /\ claim.held # "running"
          /\ run.pc = "supervised" /\ journal' = rec'
          /\ \/ rec' = rec /\ ~rec.running
             \/ /\ rec.running /\ ~journal'.running
                /\ journal'.outcome = when_interrupted(rec.requested, rec.answered)
      BY <1>2, SupervisedKeeps
    <2>2. Mode' = Mode /\ PriorOf' = PriorOf /\ FlashOf' = FlashOf
      BY <1>0, <2>1 DEF Mode, PriorOf, FlashOf
    <2>3. journal \in Records /\ journal' \in Records
      BY DEF UpdateInv, Types
    <2>4. \/ Same(journal, rec)
          \/ rec.running /\ ~rec.requested /\ flash = "old"
      BY <2>1 DEF UpdateInv, RecordInv, Unwinding
    <2>5. CASE Same(journal, rec)
      <3>1. recovery_token(recover(journal').outcome) <=> recovery_token(recover(journal).outcome)
        BY <2>1, <2>3, <2>5, DiskMeans DEF Same, when_interrupted, recovery_token
      <3>2. Kept
        BY <2>2, <3>1 DEF Kept, DiskOf
      <3> QED  BY <3>2, CustodyNext
    <2>6. CASE rec.running /\ ~rec.requested /\ flash = "old"
      <3>1. ~recovery_token(recover(journal').outcome)
        BY <2>1, <2>3, <2>6, DiskMeans DEF when_interrupted, recovery_token
      <3>2. DiskOf' = "clean" /\ FlashOf = "asFound"
        BY <2>6, <3>1 DEF DiskOf, FlashOf
      <3>3. Mode \in {"control", "recovery"}
        <4>1. daemon # "down"
          BY <2>1, DownFacts
        <4> QED  BY <1>0, <2>1, <4>1 DEF Mode
      <3>4. Board!Note
        BY <2>2, <3>2, <3>3 DEF Board!Note, Board!Stays, PriorOf, DiskOf, FlashOf
      <3> QED  BY <3>4, CustodyNext
    <2> QED  BY <2>4, <2>5, <2>6
  <1> QED  BY <1>1, <1>2

LEMMA StartingCustody == ASSUME UpdateInv, Starting PROVE Board!Next
  <1>0. claim.held \in {"none", "running", "recovery"}
        /\ (claim.held = "recovery" => claim.run \in RunIds)
    BY Held DEF UpdateInv, Types
  <1>1. CASE StartRefused \/ \E k \in Kinds, j \in BOOLEAN : StartRequest(k, j)
    <2>1. /\ flash' = flash /\ journal' = journal /\ daemon' = daemon
          /\ claim' = claim /\ claim.held # "running"
      BY <1>1, StartRefusedKeeps, StartRequestKeeps
    <2>2. Kept
      BY <1>0, <2>1 DEF Kept, Mode, PriorOf, DiskOf, FlashOf
    <2> QED  BY <2>2, CustodyNext
  <1>2. CASE Launch
    <2>1. /\ flash' = "old" /\ journal' = journal /\ daemon' = daemon /\ daemon = "up"
          /\ claim.held # "running" /\ claim'.held = "running"
          /\ ~run'.requested /\ ~run'.heard
          /\ run'.prior = IF claim.held = "recovery" THEN claim.run ELSE NoRun
      BY <1>2, LaunchKeeps
    <2>2. claim.held \in {"none", "recovery"}
          /\ (claim.held = "recovery" => claim.run \in RunIds /\ claim.run # NoRun)
      <3>1. NoRun \notin RunIds
        BY Numbers DEF UpdateInv
      <3> QED  BY <1>0, <2>1, <3>1
    <2>3. Mode \in {"control", "recovery"} /\ Mode' = "held" /\ PriorOf' = Mode
      BY <2>1, <2>2 DEF Mode, PriorOf
    <2>4. FlashOf' = "asFound" /\ DiskOf' = DiskOf
      BY <2>1 DEF FlashOf, DiskOf
    <2>5. Board!Take
      BY <2>3, <2>4 DEF Board!Take, PriorOf, DiskOf, FlashOf
    <2> QED  BY <2>5, CustodyNext
  <1> QED  BY <1>1, <1>2 DEF Starting

LEMMA AroundCustody == ASSUME UpdateInv, Around PROVE Board!Next
  <1>1. FlashOf' = FlashOf /\ DiskOf' = DiskOf
    BY DEF Around, FlashOf, DiskOf
  <1>2. CASE claim' = claim
    <2>1. Mode' = Mode /\ PriorOf' = PriorOf
      BY <1>2 DEF Around, CoreKept, Mode, PriorOf
    <2> QED  BY <1>1, <2>1, CustodyNext DEF Kept
  <1>3. CASE claim.held = "recovery" /\ claim' = NoClaim
             /\ (Answers("port") \/ loop = "starting" \/ back = "port")
    <2>1. daemon # "down"
      BY <1>3, DownFacts DEF NoClaim
    <2>2. daemon' # "down"
      BY <2>1 DEF Around
    <2>3. Mode = "recovery" /\ Mode' = "control" /\ PriorOf' = "control" /\ AnswersOf
      BY <1>3, <2>1, <2>2 DEF Mode, PriorOf, NoClaim, AnswersOf
    <2>4. Board!Recover
      BY <1>1, <2>3 DEF Board!Recover, Board!GoesTo, PriorOf, DiskOf, FlashOf, AnswersOf
    <2> QED  BY <2>4, CustodyNext
  <1> QED  BY <1>2, <1>3 DEF Around

(* A copy by the user lands only where a restart, or the claim, still      *)
(* knows of the board.                                                     *)
LEMMA CopyCustody == ASSUME UpdateInv, UserCopies PROVE Board!Next
  <1>1. CoreKept /\ run'.pc = run.pc /\ journal' = journal /\ ClaimFrame /\ LeftForUser
    BY UserCopiesKeeps
  <1>2. Mode' = Mode /\ PriorOf' = PriorOf /\ DiskOf' = DiskOf
    BY <1>1 DEF Mode, PriorOf, DiskOf, CoreKept, ClaimFrame
  <1>3. FlashOf' = "changed"
    BY DEF UserCopies, FlashOf
  <1>4. "recovery" \in {Mode, DiskOf}
    <2>1. CASE run.pc = "file"
      <3>1. run.pc \in Claimed \ {"prepare"} /\ run.pc \in Writing
        BY <2>1 DEF Claimed, Writing
      <3>2. run.requested /\ ~run.heard
        BY <3>1, WritingFacts
      <3> QED  BY <2>1, <3>1, <3>2, DiskByPlace
    <2>2. CASE claim.held = "recovery"
      <3>1. daemon # "down"
        BY <2>2, DownFacts DEF NoClaim
      <3> QED  BY <2>2, <3>1 DEF Mode
    <2>3. CASE recovery_token(recover(journal).outcome)
      BY <2>3 DEF DiskOf
    <2> QED  BY <1>1, <2>1, <2>2, <2>3 DEF LeftForUser
  <1>5. Board!Change
    BY <1>2, <1>3, <1>4 DEF Board!Change, Board!Stays, PriorOf, DiskOf, FlashOf
  <1> QED  BY <1>5, CustodyNext

(* The daemon dies, and finds what it wrote down. *)
LEMMA LifeCustody == ASSUME UpdateInv, Dies \/ Start PROVE Board!Next
  <1>1. CASE Dies
    <2>1. /\ flash' = flash /\ journal' = journal /\ daemon # "down" /\ daemon' = "down"
          /\ claim' = NoClaim
      BY <1>1, DiesKeeps
    <2>2. /\ Mode # "down" /\ Mode' = "down" /\ PriorOf' = "control"
          /\ DiskOf' = DiskOf /\ FlashOf' = FlashOf
      BY <2>1 DEF Mode, PriorOf, DiskOf, FlashOf, NoClaim
    <2>3. Board!Die
      BY <2>2 DEF Board!Die, Board!GoesTo, PriorOf, DiskOf, FlashOf
    <2> QED  BY <2>3, CustodyNext
  <1>2. CASE Start
    <2>1. /\ flash' = flash /\ journal' = recover(journal) /\ daemon = "down" /\ daemon' = "up"
          /\ claim' = IF /\ recovery_token(recover(journal).outcome)
                         /\ ~Answers("port") /\ board # "empty"
                      THEN NeedsRecovery(recover(journal).run) ELSE NoClaim
          /\ loop = "none" /\ back = "none" /\ probe = "idle"
      BY <1>2, StartKeeps
    <2>2. recovery_token(recover(journal').outcome) <=> recovery_token(recover(journal).outcome)
      <3>1. journal \in Records /\ recover(journal) \in Records
        BY RecoverForm DEF UpdateInv, Types
      <3> QED  BY <2>1, <3>1, DiskMeans
    <2>3. DiskOf' = DiskOf /\ FlashOf' = FlashOf /\ Mode = "down" /\ PriorOf' = "control"
      BY <2>1, <2>2 DEF DiskOf, FlashOf, Mode, PriorOf, NoClaim, NeedsRecovery
    <2>4. Mode' = IF DiskOf = "clean" \/ AnswersOf \/ ~(board # "empty") THEN "control" ELSE "recovery"
      BY <2>1 DEF Mode, DiskOf, AnswersOf, NoClaim, NeedsRecovery
    <2>5. Board!Restart
      BY <2>3, <2>4 DEF Board!Restart, Board!GoesTo, PriorOf, DiskOf, FlashOf, AnswersOf
    <2> QED  BY <2>5, CustodyNext
  <1> QED  BY <1>1, <1>2

(* Every step of an update is one of Custody's. *)
LEMMA CustodyStep == UpdateInv /\ [Next]_vars => Board!Next
  <1> SUFFICES ASSUME UpdateInv, [Next]_vars PROVE Board!Next
    OBVIOUS
  <1>0. Types'
    BY TypesStep
  <1>1. CASE Onwards
    BY <1>0, <1>1, OnwardsTurns, TurnCustody
  <1>2. CASE Finish \/ Release \/ Panic \/ Unwound \/ Supervised
    BY <1>0, <1>2, FinishCustody, ReleaseCustody, PanicCustody, SupervisedCustody
  <1>3. CASE GiveBack
    <2>1. Kept
      BY <1>3, GiveBackKeeps DEF Kept, Mode, PriorOf, DiskOf, FlashOf, CoreKept, ClaimFrame
    <2> QED  BY <2>1, CustodyNext
  <1>4. CASE Starting
    BY <1>4, StartingCustody
  <1>5. CASE request_cancel \/ Stop \/ LoopEnds \/ Probing \/ Engine \/ LoopStep
             \/ Settles \/ Resets \/ Hangs \/ UserBoots
    BY <1>5, RequestCancelAround, StopAround, LoopEndsAround, ProbingAround, EngineAround,
       LoopStepAround, BoardAround, AroundCustody
  <1>6. CASE Dies \/ Start \/ UserCopies
    BY <1>6, LifeCustody, CopyCustody
  <1>7. CASE UNCHANGED vars
    <2>1. Kept
      BY <1>7 DEF vars, runVars, outsideVars, Kept, Mode, PriorOf, DiskOf, FlashOf
    <2> QED  BY <2>1, CustodyNext
  <1> QED  BY <1>1, <1>2, <1>3, <1>4, <1>5, <1>6, <1>7
           DEF Next, RunStep, Onwards, Life, BoardStep

LEMMA CustodyInit == Init => Board!Init
  <1> SUFFICES ASSUME Init PROVE Board!Init
    OBVIOUS
  <1>1. daemon = "down" /\ claim = NoClaim /\ journal = NoRecord /\ flash = "old"
    BY DEF Init
  <1>2. Mode = "down" /\ PriorOf = "control" /\ FlashOf = "asFound"
    BY <1>1 DEF Mode, PriorOf, FlashOf, NoClaim
  <1>3. DiskOf = "clean"
    BY <1>1, NewForms, NoRecordFields, DiskMeans DEF DiskOf, recovery_token, NoOutcome
  <1> QED  BY <1>2, <1>3 DEF Board!Init, PriorOf, DiskOf, FlashOf

(* The update implements Custody: whatever the stages of a run, its panics *)
(* and the daemon's restarts do, the board is given back as it was taken,  *)
(* or is left needing recovery until it answers.                           *)
THEOREM CustodyImplemented == Spec => KeepsCustody
  <1>1. UpdateInv /\ [Next]_vars => [Board!Next]_Board!custody
    BY CustodyStep
  <1> QED  BY <1>1, CustodyInit, UpdateAlways, PTL DEF Spec, KeepsCustody, Board!Spec
=============================================================================
