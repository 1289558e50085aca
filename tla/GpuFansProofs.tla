----------------------------- MODULE GpuFansProofs -----------------------------
(***************************************************************************)
(* What is proved of GpuFans, for every set of cards, every set of duties, *)
(* and any number of events of any kind: its types; that a card is on the  *)
(* hand-back list before and while it has a curve of the daemon's; that a  *)
(* stop leaves every such card on firmware auto; that an answered reset    *)
(* lasts; that a verify's test duty holds; and that another tool's curve   *)
(* is left alone.                                                          *)
(***************************************************************************)
EXTENDS GpuFans, TLAPS

Percents == 0..100 \cup {None}
Commands == [Fans -> Percents]

Tasks ==
    [st : {"none", "run", "done", "panic"}, todo : SUBSET Fans, noted : SUBSET Fans,
     pct : Commands, back : SUBSET Fans, ok : SUBSET Fans, bad : SUBSET Fans,
     backOk : SUBSET Fans, backBad : SUBSET Fans]
Ticks ==
    [pc : {"idle", "lock", "issue", "harvest", "end"}, saw : BOOLEAN, late : BOOLEAN,
     pct : Commands, back : SUBSET Fans, harvested : BOOLEAN]
Verifies ==
    [pc : {"idle", "lock", "name", "test", "settle", "restore"}, fans : SUBSET Fans,
     prior : Percents]
Resets == [fans : SUBSET Fans, claimed : BOOLEAN]

CardTypes ==
    /\ curve \in [Fans -> 0..100 \cup {FirmwareAuto, Foreign}]
    /\ taken \subseteq Fans /\ record \subseteq Fans /\ recordBad \in BOOLEAN
    /\ commanded \in Commands

EngineTypes ==
    /\ profile \in [Fans -> Duties \cup {Skipped, None}]
    /\ tick \in Ticks /\ task \in Tasks
    /\ lock \in {"free", "engine", "reset", "verify"}

HandlerTypes ==
    /\ verify \in Verifies /\ reset \in Resets
    /\ phase \in {"running", "stopping", "restore", "down"}

SetTypes ==
    /\ relinquished \subseteq Fans /\ promised \subseteq Fans /\ touched \subseteq Fans
    /\ undone \subseteq Fans /\ todo \subseteq Fans

Types == CardTypes /\ EngineTypes /\ HandlerTypes /\ SetTypes

(* The write lock is held by one of three, and by nobody once the process  *)
(* is gone.                                                                *)
Verifying == verify.pc \in {"name", "test", "settle", "restore"}
LockInv ==
    /\ task.st = "run" <=> lock = "engine"
    /\ Verifying <=> lock = "verify"
    /\ reset.fans # {} <=> lock = "reset"
    /\ phase = "down" => lock = "free" /\ verify.pc = "idle" /\ tick.pc = "idle"

(* What the task is about to write is among what it was given a duty for;  *)
(* a verify is of one card.                                                *)
TaskInv ==
    /\ task.noted \subseteq task.todo /\ (task.st # "run" => task.noted = {})
    /\ \A f \in task.todo : task.pct[f] # None
    /\ verify.pc # "idle" => \E f \in Fans : verify.fans = {f}

(* The list is what the process set out to write and has not given back,   *)
(* and the record is the list unless the disk refused it; the cards about  *)
(* to be written are on it.                                                *)
ListInv ==
    /\ phase = "down" => taken = {}
    /\ phase # "down" => touched = taken /\ (recordBad \/ record = taken)
    /\ task.noted \subseteq taken
    /\ verify.pc \in {"test", "settle", "restore"} => verify.fans \subseteq taken

(* ExecStopPost has reached a card, still has it to do, or cannot help. *)
ReplayInv ==
    phase = "down" =>
        /\ \A f \in touched : f \in todo \/ ~Driven(f) \/ f \in undone
        /\ todo \subseteq touched \cup undone

(* The cards of a stop are the daemon's, or on auto. *)
RestoreInv == phase = "restore" => \A f \in todo : f \in touched \/ curve[f] # Foreign

(* A card whose reset was answered has no duty in the cache for a verify   *)
(* to put back, and the task does not carry it.                            *)
PromiseInv ==
    /\ promised \subseteq relinquished
    /\ \A f \in promised : ~Driven(f) /\ commanded[f] = None
    /\ task.noted \cap promised = {}
    /\ reset.claimed => reset.fans \cap promised = {}
    /\ Verifying => \A f \in verify.fans \cap promised : verify.prior = None
    /\ verify.pc = "settle" => verify.fans \cap promised = {}

GpuInv ==
    Types /\ LockInv /\ TaskInv /\ ListInv /\ ReplayInv /\ RestoreInv /\ PromiseInv /\ TestHolds

----------------------------------------------------------------------------

(* What a step is: one of these, or one that leaves alone all that the     *)
(* invariants are about but the tick.                                      *)
Aside == UNCHANGED <<phase, todo, undone, verify, reset, promised>>
Quiet ==
    /\ UNCHANGED <<curve, taken, record, recordBad, commanded, relinquished, touched, lock, task>>
    /\ Aside
    /\ tick' = tick \/ phase = "running" \/ tick.pc # "idle"
Stopping ==
    StopBegins \/ reset_driven_gpu_fans \/ RestoreCard \/ (Up /\ Gone) \/ ReplayCard \/ Starts
ByHandler ==
    \/ ResetClaims \/ ResetWrites \/ VerifyClaims \/ VerifyDropped \/ VerifyLocks
    \/ VerifyNames \/ VerifyTests \/ VerifySettles \/ VerifyRestores
ByEngine ==
    /\ Aside
    /\ \/ TickIssues \/ TickJoins \/ TaskNames \/ TaskWrites \/ TaskGivesBack
       \/ TaskReturns \/ TaskPanics

LEMMA Steps ==
    ASSUME [Next]_vars
    PROVE  Quiet \/ ByEngine \/ Activate \/ ByHandler \/ OtherTool \/ Stopping
<1>1. CASE Engine
  BY <1>1 DEF Engine, EngineStep, TickBegins, TickLockWaitEnds, TickLeaves, TickEnds, Quiet,
              ByEngine, Aside, stopVars, handlerVars, cardVars, cacheVars
<1>2. CASE Task \/ TaskDies
  BY <1>2 DEF Task, TaskStep, TaskDies, ByEngine, Aside, stopVars, handlerVars
<1>3. CASE Cooldown
  BY <1>3 DEF Cooldown, CooldownEnds, Quiet, Aside, stopVars, handlerVars, cardVars, cacheVars
<1>4. CASE DutyMoves
  BY <1>4 DEF DutyMoves, Quiet, Aside, stopVars, handlerVars, cardVars, engineVars
<1>5. CASE OtherClaims \/ PauseEnds
  BY <1>5 DEF OtherClaims, PauseEnds, Quiet, Aside, stopVars, cardVars, engineVars
<1>6. CASE CardAnswers
  BY <1>6 DEF CardAnswers, Quiet, Aside, stopVars, handlerVars, backendVars, cacheVars, engineVars
<1>7. CASE UNCHANGED vars
  BY <1>7 DEF vars, Quiet, Aside, stopVars, handlerVars, cardVars, backendVars, cacheVars,
              engineVars
<1>8. CASE \/ ResetClaims \/ ResetWrites \/ VerifyClaims \/ VerifyDropped \/ VerifyLocks
           \/ VerifyGoesOn
  BY <1>8 DEF ByHandler, VerifyGoesOn
<1>9. CASE StopBegins \/ Stop \/ Crashes \/ Starts
  BY <1>9 DEF Stopping, Stop, Exits, Crashes, Up
<1>10. QED
  BY <1>1, <1>2, <1>3, <1>4, <1>5, <1>6, <1>7, <1>8, <1>9 DEF Next

----------------------------------------------------------------------------
(* The list and its record. *)
LEMMA ListTake ==
    ASSUME NEW f \in Fans, note_take(f), CardTypes
    PROVE  /\ taken' = taken \cup {f} /\ taken' \subseteq Fans
           /\ record' \subseteq Fans /\ recordBad' \in BOOLEAN
           /\ (recordBad \/ record = taken) => recordBad' \/ record' = taken'
<1>1. CASE f \in taken /\ ~recordBad
  <2>1. taken' = taken /\ record' = record /\ recordBad' = recordBad
    BY <1>1 DEF note_take
  <2>2. QED
    BY <1>1, <2>1 DEF CardTypes
<1>2. CASE ~(f \in taken /\ ~recordBad)
  <2>1. taken' = taken \cup {f} /\ persist_pmfw(taken')
    BY <1>2 DEF note_take
  <2>2. QED
    BY <2>1 DEF persist_pmfw, CardTypes
<1>3. QED
  BY <1>1, <1>2

LEMMA ListDrop ==
    ASSUME NEW f \in Fans, note_handed_back(f), CardTypes
    PROVE  /\ taken' = taken \ {f} /\ taken' \subseteq Fans
           /\ record' \subseteq Fans /\ recordBad' \in BOOLEAN
           /\ (recordBad \/ record = taken) => recordBad' \/ record' = taken'
<1>1. CASE f \notin taken
  <2>1. taken' = taken /\ record' = record /\ recordBad' = recordBad
    BY <1>1 DEF note_handed_back
  <2>2. QED
    BY <1>1, <2>1 DEF CardTypes
<1>2. CASE f \in taken
  <2>1. taken' = taken \ {f} /\ persist_pmfw(taken')
    BY <1>2 DEF note_handed_back
  <2>2. QED
    BY <2>1 DEF persist_pmfw, CardTypes
<1>3. QED
  BY <1>1, <1>2

(* A card goes back: it is on auto and forgotten. *)
LEMMA GoesBack ==
    ASSUME NEW f \in Fans, HandsBack(f), CardTypes
    PROVE  /\ curve' \in [Fans -> 0..100 \cup {FirmwareAuto, Foreign}]
           /\ curve'[f] = FirmwareAuto /\ \A g \in Fans : g # f => curve'[g] = curve[g]
           /\ commanded' \in Commands
           /\ commanded'[f] = None /\ \A g \in Fans : g # f => commanded'[g] = commanded[g]
           /\ touched' = touched \ {f} /\ taken' = taken \ {f} /\ taken' \subseteq Fans
           /\ record' \subseteq Fans /\ recordBad' \in BOOLEAN
           /\ (recordBad \/ record = taken) => recordBad' \/ record' = taken'
<1>1. curve' = [curve EXCEPT ![f] = FirmwareAuto] /\ commanded' = [commanded EXCEPT ![f] = None]
  BY DEF HandsBack
<1>2. touched' = touched \ {f} /\ note_handed_back(f)
  BY DEF HandsBack
<1>3. /\ curve' \in [Fans -> 0..100 \cup {FirmwareAuto, Foreign}]
      /\ curve'[f] = FirmwareAuto /\ \A g \in Fans : g # f => curve'[g] = curve[g]
  BY <1>1 DEF CardTypes
<1>4. /\ commanded' \in Commands
      /\ commanded'[f] = None /\ \A g \in Fans : g # f => commanded'[g] = commanded[g]
  BY <1>1 DEF CardTypes, Commands, Percents
<1>5. QED
  BY <1>2, <1>3, <1>4, ListDrop

----------------------------------------------------------------------------
(* What the engine's steps do to their task. *)
LEMMA Blank ==
    /\ NoDuties \in Commands
    /\ NoTask \in Tasks /\ NoTask.st = "none" /\ NoTask.noted = {} /\ NoTask.todo = {}
    /\ NoTick \in Ticks /\ NoTick.pc = "idle"
    /\ NoVerify \in Verifies /\ NoVerify.pc = "idle" /\ NoVerify.fans = {}
    /\ NoReset \in Resets /\ NoReset.fans = {} /\ ~NoReset.claimed
<1>1. NoDuties \in Commands
  BY DEF NoDuties, Commands, Percents
<1>2. NoTask \in Tasks /\ NoTask.st = "none" /\ NoTask.noted = {} /\ NoTask.todo = {}
  BY <1>1 DEF NoTask, Tasks
<1>3. NoTick \in Ticks /\ NoTick.pc = "idle"
  BY <1>1 DEF NoTick, Ticks
<1>4. NoVerify \in Verifies /\ NoVerify.pc = "idle" /\ NoVerify.fans = {}
  BY DEF NoVerify, Verifies, Percents
<1>5. NoReset \in Resets /\ NoReset.fans = {} /\ ~NoReset.claimed
  BY DEF NoReset, Resets
<1>6. QED
  BY <1>1, <1>2, <1>3, <1>4, <1>5

LEMMA IssueTask ==
    ASSUME EngineTypes, TickIssues
    PROVE  /\ task' \in Tasks /\ task'.st = "run" /\ task'.noted = {}
           /\ \A f \in task'.todo : task'.pct[f] # None
<1> DEFINE p == tick.pct
           b == tick.back
           d == {f \in Fans : tick.pct[f] # None}
           t == [NoTask EXCEPT !.st = "run", !.pct = p, !.back = b, !.todo = d]
<1>1. p \in Commands /\ b \in SUBSET Fans /\ d \in SUBSET Fans
  BY DEF EngineTypes, Ticks
<1>2. task' = t
  BY DEF TickIssues
<1>3. \A f \in d : p[f] # None
  OBVIOUS
<1> HIDE DEF p, b, d
<1>4. /\ t \in Tasks /\ t.st = "run" /\ t.noted = {} /\ t.todo = d /\ t.pct = p
  BY <1>1 DEF NoTask, Tasks
<1> HIDE DEF t
<1>5. QED
  BY <1>2, <1>3, <1>4

LEMMA NamesTask ==
    ASSUME EngineTypes, TaskNames
    PROVE  /\ task.noted = {} /\ task.st = "run"
           /\ task' \in Tasks /\ task'.st = "run" /\ task'.pct = task.pct
           /\ \E f \in task.todo :
                 \/ /\ task'.noted = {} /\ task'.todo = task.todo \ {f}
                    /\ UNCHANGED <<taken, record, recordBad, touched>>
                 \/ /\ task'.noted = {f} /\ task'.todo = task.todo
                    /\ f \notin relinquished /\ note_take(f) /\ touched' = touched \cup {f}
<1>1. task.noted = {} /\ task.st = "run" /\ task \in Tasks
  BY DEF TaskNames, EngineTypes
<1>2. PICK f \in task.todo :
         \/ /\ task' = [task EXCEPT !.todo = @ \ {f}]
            /\ UNCHANGED <<taken, record, recordBad, touched>>
         \/ /\ f \notin relinquished /\ note_take(f) /\ touched' = touched \cup {f}
            /\ task' = [task EXCEPT !.noted = {f}]
  BY DEF TaskNames
<1>3. CASE /\ task' = [task EXCEPT !.todo = @ \ {f}]
           /\ UNCHANGED <<taken, record, recordBad, touched>>
  <2>1. /\ task' \in Tasks /\ task'.st = "run" /\ task'.pct = task.pct
        /\ task'.noted = {} /\ task'.todo = task.todo \ {f}
    BY <1>1, <1>3 DEF Tasks
  <2>2. QED
    BY <1>1, <1>3, <2>1
<1>4. CASE /\ f \notin relinquished /\ note_take(f) /\ touched' = touched \cup {f}
           /\ task' = [task EXCEPT !.noted = {f}]
  <2>1. /\ task' \in Tasks /\ task'.st = "run" /\ task'.pct = task.pct
        /\ task'.noted = {f} /\ task'.todo = task.todo
    BY <1>1, <1>2, <1>4 DEF Tasks
  <2>2. QED
    BY <1>1, <1>4, <2>1
<1>5. QED
  BY <1>2, <1>3, <1>4

LEMMA WritesTask ==
    ASSUME EngineTypes, TaskWrites
    PROVE  /\ task.st = "run" /\ task' \in Tasks /\ task'.st = "run" /\ task'.pct = task.pct
           /\ task'.noted = {}
           /\ \E f \in task.noted :
                 /\ task'.todo = task.todo \ {f}
                 /\ \/ /\ curve' = [curve EXCEPT ![f] = task.pct[f]]
                       /\ commanded' = [commanded EXCEPT ![f] = task.pct[f]]
                    \/ UNCHANGED <<curve, commanded>>
<1>1. task.st = "run" /\ task \in Tasks
  BY SMTT(30), ZenonT(30) DEF TaskWrites, EngineTypes
<1>2. PICK f \in task.noted :
         \/ /\ curve' = [curve EXCEPT ![f] = task.pct[f]]
            /\ commanded' = [commanded EXCEPT ![f] = task.pct[f]]
            /\ task' = [task EXCEPT !.noted = {}, !.todo = @ \ {f}, !.ok = @ \cup {f}]
         \/ /\ task' = [task EXCEPT !.noted = {}, !.todo = @ \ {f}, !.bad = @ \cup {f}]
            /\ UNCHANGED <<curve, commanded>>
  BY DEF TaskWrites
<1>3. f \in Fans
  BY <1>1 DEF Tasks
<1>4. \/ task' = [task EXCEPT !.noted = {}, !.todo = @ \ {f}, !.ok = @ \cup {f}]
      \/ task' = [task EXCEPT !.noted = {}, !.todo = @ \ {f}, !.bad = @ \cup {f}]
  BY <1>2
<1> DEFINE d == task.todo \ {f}
           w == task.ok \cup {f}
           x == task.bad \cup {f}
<1>5. d \in SUBSET Fans /\ w \in SUBSET Fans /\ x \in SUBSET Fans /\ d = task.todo \ {f}
  BY <1>1, <1>3 DEF Tasks
<1>6. \/ task' = [task EXCEPT !.noted = {}, !.todo = d, !.ok = w]
      \/ task' = [task EXCEPT !.noted = {}, !.todo = d, !.bad = x]
  BY <1>1, <1>4
<1> HIDE DEF d, w, x
<1>7. /\ task' \in Tasks /\ task'.st = "run" /\ task'.pct = task.pct
      /\ task'.noted = {} /\ task'.todo = d
  BY <1>1, <1>5, <1>6 DEF Tasks
<1>8. QED
  BY <1>1, <1>2, <1>5, <1>7

LEMMA GivesBackTask ==
    ASSUME EngineTypes, TaskGivesBack
    PROVE  /\ task.st = "run" /\ task.todo = {}
           /\ task' \in Tasks /\ task'.st = "run" /\ task'.pct = task.pct
           /\ task'.noted = task.noted /\ task'.todo = {}
           /\ \/ UNCHANGED <<curve, taken, record, recordBad, commanded, touched>>
              \/ \E f \in Fans : f \in taken /\ HandsBack(f)
<1>1. task.st = "run" /\ task.todo = {} /\ task \in Tasks
  BY DEF TaskGivesBack, EngineTypes
<1>2. PICK f \in task.back :
         /\ \/ task' = [task EXCEPT !.back = @ \ {f}]
            \/ task' = [task EXCEPT !.back = @ \ {f}, !.backOk = @ \cup {f}]
            \/ task' = [task EXCEPT !.back = @ \ {f}, !.backBad = @ \cup {f}]
         /\ \/ UNCHANGED <<curve, taken, record, recordBad, commanded, touched>>
            \/ f \in taken /\ HandsBack(f)
  BY DEF TaskGivesBack
<1>3. f \in Fans
  BY <1>1 DEF Tasks
<1> DEFINE b == task.back \ {f}
           w == task.backOk \cup {f}
           x == task.backBad \cup {f}
<1>4. b \in SUBSET Fans /\ w \in SUBSET Fans /\ x \in SUBSET Fans
  BY <1>1, <1>3 DEF Tasks
<1>5. \/ task' = [task EXCEPT !.back = b]
      \/ task' = [task EXCEPT !.back = b, !.backOk = w]
      \/ task' = [task EXCEPT !.back = b, !.backBad = x]
  BY <1>1, <1>2
<1> HIDE DEF b, w, x
<1>6. /\ task' \in Tasks /\ task'.st = "run" /\ task'.pct = task.pct
      /\ task'.noted = task.noted /\ task'.todo = {}
  BY ZenonT(60), <1>1, <1>4, <1>5 DEF Tasks
<1>7. QED
  BY <1>1, <1>2, <1>3, <1>6

LEMMA EndsTask ==
    ASSUME EngineTypes, TaskReturns \/ TaskPanics
    PROVE  /\ task.st = "run" /\ task' \in Tasks /\ task'.st # "run"
           /\ task'.noted \subseteq task.noted /\ task'.todo = {}
           /\ TaskReturns => task.todo = {}
           /\ TaskPanics => task'.noted = {}
<1>1. CASE TaskReturns
  <2>1. task.st = "run" /\ task \in Tasks /\ task.todo = {} /\ task' = [task EXCEPT !.st = "done"]
    BY <1>1 DEF TaskReturns, EngineTypes
  <2>2. /\ task' \in Tasks /\ task'.st = "done" /\ task'.noted = task.noted
        /\ task'.todo = task.todo
    BY <2>1 DEF Tasks
  <2>3. ~TaskPanics
    BY <2>2 DEF TaskPanics, NoTask
  <2>4. QED
    BY <2>1, <2>2, <2>3
<1>2. CASE TaskPanics /\ ~TaskReturns
  <2>1. task.st = "run" /\ task \in Tasks /\ task' = [NoTask EXCEPT !.st = "panic", !.pct = task.pct]
    BY <1>2 DEF TaskPanics, EngineTypes
  <2>2. task.pct \in Commands
    BY <2>1 DEF Tasks
  <2>3. /\ task' \in Tasks /\ task'.st = "panic" /\ task'.noted = {} /\ task'.todo = {}
    BY <2>1, <2>2 DEF NoTask, Tasks
  <2>4. QED
    BY <1>2, <2>1, <2>3
<1>3. QED
  BY <1>1, <1>2

----------------------------------------------------------------------------
(* What the handlers do to theirs. *)
LEMMA ClaimsVerify ==
    ASSUME VerifyClaims
    PROVE  /\ verify.pc = "idle" /\ verify' \in Verifies /\ verify'.pc = "lock"
           /\ \E f \in Fans : verify'.fans = {f}
<1>1. PICK f \in Fans : verify' = [pc |-> "lock", fans |-> {f}, prior |-> None]
  BY DEF VerifyClaims
<1>2. verify.pc = "idle"
  BY DEF VerifyClaims
<1>3. QED
  BY <1>1, <1>2 DEF Verifies, Percents

LEMMA LocksVerify ==
    ASSUME Types, VerifyLocks
    PROVE  /\ verify.pc = "lock" /\ verify' \in Verifies /\ verify'.pc = "name"
           /\ verify'.fans = verify.fans
           /\ \E f \in verify.fans : verify'.prior = commanded[f]
<1>1. PICK f \in verify.fans : verify' = [verify EXCEPT !.pc = "name", !.prior = commanded[f]]
  BY DEF VerifyLocks
<1>2. verify \in Verifies /\ verify.pc = "lock"
  BY DEF VerifyLocks, Types, HandlerTypes
<1> DEFINE p == commanded[f]
<1>3. p \in Percents
  BY <1>2 DEF Types, CardTypes, Commands, Verifies
<1>4. verify' = [verify EXCEPT !.pc = "name", !.prior = p] /\ p = commanded[f]
  BY <1>1
<1> HIDE DEF p
<1>5. /\ verify' \in Verifies /\ verify'.pc = "name"
      /\ verify'.fans = verify.fans /\ verify'.prior = p
  BY <1>2, <1>3, <1>4 DEF Verifies
<1>6. QED
  BY <1>2, <1>4, <1>5

LEMMA GoesOnVerify ==
    ASSUME HandlerTypes, VerifyNames \/ VerifyTests \/ VerifySettles
    PROVE  /\ verify' \in Verifies /\ verify'.fans = verify.fans /\ verify'.prior = verify.prior
           /\ verify.pc \in {"name", "test", "settle"}
           /\ VerifyNames => verify.pc = "name" /\ verify'.pc = "test"
           /\ VerifyTests => verify.pc = "test" /\ verify'.pc \in {"settle", "restore"}
           /\ VerifySettles => verify.pc = "settle" /\ verify'.pc = "restore"
           /\ verify'.pc \in {"test", "settle", "restore"}
<1>1. verify \in Verifies
  BY DEF HandlerTypes
<1>2. \/ VerifyNames /\ verify.pc = "name" /\ verify' = [verify EXCEPT !.pc = "test"]
      \/ VerifyTests /\ verify.pc = "test" /\ verify' = [verify EXCEPT !.pc = "settle"]
      \/ VerifyTests /\ verify.pc = "test" /\ verify' = [verify EXCEPT !.pc = "restore"]
      \/ VerifySettles /\ verify.pc = "settle" /\ verify' = [verify EXCEPT !.pc = "restore"]
  BY DEF VerifyNames, VerifyTests, VerifySettles
<1>3. /\ verify' \in Verifies /\ verify'.fans = verify.fans /\ verify'.prior = verify.prior
      /\ verify.pc \in {"name", "test", "settle"}
      /\ verify'.pc \in {"test", "settle", "restore"}
  BY <1>1, <1>2 DEF Verifies
<1>4. /\ verify.pc = "name" => verify'.pc = "test"
      /\ verify.pc = "test" => verify'.pc \in {"settle", "restore"}
      /\ verify.pc = "settle" => verify'.pc = "restore"
  BY <1>1, <1>2 DEF Verifies
<1>5. /\ VerifyNames => verify.pc = "name"
      /\ VerifyTests => verify.pc = "test"
      /\ VerifySettles => verify.pc = "settle"
  BY DEF VerifyNames, VerifyTests, VerifySettles
<1>6. QED
  BY <1>3, <1>4, <1>5

(* The test is written, or it failed and the card is as it was. *)
LEMMA TestsVerify ==
    ASSUME CardTypes, HandlerTypes, VerifyTests
    PROVE  \E f \in verify.fans :
              \/ /\ verify'.pc = "settle" /\ promised' = promised \ {f}
                 /\ curve' \in [Fans -> 0..100 \cup {FirmwareAuto, Foreign}]
                 /\ curve'[f] \in {75, 100} /\ \A g \in Fans : g # f => curve'[g] = curve[g]
                 /\ commanded' \in Commands
                 /\ \A g \in Fans : g # f => commanded'[g] = commanded[g]
              \/ verify'.pc = "restore" /\ UNCHANGED <<curve, commanded, promised>>
<1>1. PICK f \in verify.fans :
         \/ /\ curve' = [curve EXCEPT ![f] = TestSpeed(f)]
            /\ commanded' = [commanded EXCEPT ![f] = TestSpeed(f)]
            /\ verify' = [verify EXCEPT !.pc = "settle"]
            /\ promised' = promised \ {f}
         \/ /\ verify' = [verify EXCEPT !.pc = "restore"]
            /\ UNCHANGED <<curve, commanded, promised>>
  BY DEF VerifyTests
<1>2. TestSpeed(f) \in {75, 100} /\ f \in Fans /\ verify \in Verifies
  BY DEF TestSpeed, HandlerTypes, Verifies
<1>3. CASE /\ curve' = [curve EXCEPT ![f] = TestSpeed(f)]
           /\ commanded' = [commanded EXCEPT ![f] = TestSpeed(f)]
           /\ verify' = [verify EXCEPT !.pc = "settle"]
           /\ promised' = promised \ {f}
  <2>1. verify'.pc = "settle"
    BY <1>2, <1>3 DEF Verifies
  <2>2. /\ curve' \in [Fans -> 0..100 \cup {FirmwareAuto, Foreign}]
        /\ curve'[f] \in {75, 100} /\ \A g \in Fans : g # f => curve'[g] = curve[g]
    BY <1>2, <1>3 DEF CardTypes
  <2>3. commanded' \in Commands /\ \A g \in Fans : g # f => commanded'[g] = commanded[g]
    BY <1>2, <1>3 DEF CardTypes, Commands, Percents
  <2>4. QED
    BY <1>3, <2>1, <2>2, <2>3
<1>4. CASE verify' = [verify EXCEPT !.pc = "restore"] /\ UNCHANGED <<curve, commanded, promised>>
  <2>1. verify'.pc = "restore"
    BY <1>2, <1>4 DEF Verifies
  <2>2. QED
    BY <1>4, <2>1
<1>5. QED
  BY <1>1, <1>3, <1>4

(* The restore puts the duty before the test back, hands the card back, or *)
(* fails.                                                                  *)
LEMMA RestoresVerify ==
    ASSUME CardTypes, HandlerTypes, VerifyRestores
    PROVE  /\ verify.pc = "restore" /\ verify' = NoVerify /\ lock' = "free"
           /\ \E f \in verify.fans :
              /\ f \in Fans
              /\ \/ /\ verify.prior \in 1..100 /\ UNCHANGED <<taken, record, recordBad, touched>>
                    /\ curve' \in [Fans -> 0..100 \cup {FirmwareAuto, Foreign}]
                    /\ curve'[f] = verify.prior /\ \A g \in Fans : g # f => curve'[g] = curve[g]
                    /\ commanded' \in Commands
                    /\ \A g \in Fans : g # f => commanded'[g] = commanded[g]
                 \/ HandsBack(f)
                 \/ UNCHANGED <<curve, commanded, taken, record, recordBad, touched>>
<1>1. PICK f \in verify.fans :
         \/ /\ verify.prior > 0 /\ UNCHANGED <<taken, record, recordBad, touched>>
            /\ curve' = [curve EXCEPT ![f] = verify.prior]
            /\ commanded' = [commanded EXCEPT ![f] = verify.prior]
         \/ HandsBack(f)
         \/ UNCHANGED <<curve, commanded, taken, record, recordBad, touched>>
  BY DEF VerifyRestores
<1>2. f \in Fans /\ verify.prior \in Percents
  BY DEF HandlerTypes, Verifies
<1>3. verify.pc = "restore" /\ verify' = NoVerify /\ lock' = "free"
  BY DEF VerifyRestores
<1>4. CASE /\ verify.prior > 0 /\ UNCHANGED <<taken, record, recordBad, touched>>
           /\ curve' = [curve EXCEPT ![f] = verify.prior]
           /\ commanded' = [commanded EXCEPT ![f] = verify.prior]
  <2>1. verify.prior \in 1..100
    BY <1>2, <1>4 DEF Percents, None
  <2>2. /\ curve' \in [Fans -> 0..100 \cup {FirmwareAuto, Foreign}]
        /\ curve'[f] = verify.prior /\ \A g \in Fans : g # f => curve'[g] = curve[g]
    BY <1>2, <1>4, <2>1 DEF CardTypes
  <2>3. commanded' \in Commands /\ \A g \in Fans : g # f => commanded'[g] = commanded[g]
    BY <1>2, <1>4 DEF CardTypes, Commands
  <2>4. QED
    BY <1>2, <1>3, <1>4, <2>1, <2>2, <2>3
<1>5. QED
  BY <1>1, <1>2, <1>3, <1>4

LEMMA ClaimsReset ==
    ASSUME ResetClaims
    PROVE  /\ lock = "free" /\ lock' = "reset" /\ phase = "running"
           /\ \E f \in Fans : /\ reset' \in Resets /\ reset'.fans = {f}
                              /\ reset'.claimed => f \notin relinquished
                              /\ relinquished' = relinquished \cup {f}
<1>1. PICK f \in Fans : /\ reset' = [fans |-> {f}, claimed |-> f \notin relinquished]
                        /\ relinquished' = relinquished \cup {f}
  BY DEF ResetClaims
<1>2. reset' \in Resets /\ reset'.fans = {f} /\ (reset'.claimed => f \notin relinquished)
  BY <1>1 DEF Resets
<1>3. lock = "free" /\ lock' = "reset" /\ phase = "running"
  BY DEF ResetClaims
<1>4. QED
  BY <1>1, <1>2, <1>3

LEMMA WritesReset ==
    ASSUME HandlerTypes, ResetWrites
    PROVE  /\ lock = "reset" /\ lock' = "free" /\ reset' = NoReset /\ phase # "down"
           /\ \E f \in reset.fans :
              /\ f \in Fans
              /\ \/ /\ HandsBack(f) /\ promised' = promised \cup ({f} \cap relinquished)
                    /\ UNCHANGED relinquished
                 \/ /\ relinquished' = IF reset.claimed THEN relinquished \ {f} ELSE relinquished
                    /\ UNCHANGED <<curve, taken, record, recordBad, commanded, touched, promised>>
  BY DEF ResetWrites, HandlerTypes, Resets, Up

----------------------------------------------------------------------------
(* The types. *)
LEMMA CardTypesStep == Types /\ TaskInv /\ [Next]_vars => CardTypes'
<1> SUFFICES ASSUME Types, TaskInv, [Next]_vars PROVE CardTypes'
  OBVIOUS
<1>0. CardTypes /\ EngineTypes /\ HandlerTypes
  BY DEF Types
<1>1. CASE UNCHANGED <<curve, taken, record, recordBad, commanded>>
  BY <1>0, <1>1, Zenon DEF CardTypes
<1>2. ASSUME NEW f \in Fans, HandsBack(f) PROVE CardTypes'
  BY <1>0, <1>2, GoesBack DEF CardTypes
<1>3. ASSUME NEW f \in Fans, note_take(f), UNCHANGED <<curve, commanded>> PROVE CardTypes'
  BY <1>0, <1>3, ListTake DEF CardTypes
<1>4. CASE ByEngine
  <2>1. CASE TickIssues \/ TickJoins \/ TaskReturns \/ TaskPanics
    BY <1>1, <2>1 DEF TickIssues, TickJoins, TaskReturns, TaskPanics, cardVars, cacheVars
  <2>2. CASE TaskNames
    <3>1. UNCHANGED <<curve, commanded>>
      BY <2>2 DEF TaskNames, cacheVars
    <3>2. \A f \in task.todo : f \in Fans
      BY <1>0 DEF EngineTypes, Tasks
    <3>3. QED
      BY <1>0, <1>1, <1>3, <2>2, <3>1, <3>2, NamesTask
  <2>3. CASE TaskWrites
    <3>1. UNCHANGED <<taken, record, recordBad>>
      BY <2>3 DEF TaskWrites
    <3>2. PICK f \in task.noted :
             \/ /\ curve' = [curve EXCEPT ![f] = task.pct[f]]
                /\ commanded' = [commanded EXCEPT ![f] = task.pct[f]]
             \/ UNCHANGED <<curve, commanded>>
      BY <1>0, <2>3, WritesTask
    <3>3. f \in Fans /\ task.pct[f] \in 0..100
      BY <1>0 DEF TaskInv, EngineTypes, Tasks, Commands, Percents
    <3>4. QED
      BY <1>0, <3>1, <3>2, <3>3 DEF CardTypes, Commands, Percents
  <2>4. CASE TaskGivesBack
    BY <1>0, <1>1, <1>2, <2>4, GivesBackTask
  <2>5. QED
    BY <1>4, <2>1, <2>2, <2>3, <2>4 DEF ByEngine
<1>5. CASE ByHandler
  <2>1. CASE ResetClaims \/ VerifyClaims \/ VerifyDropped \/ VerifyLocks \/ VerifySettles
    BY <1>1, <2>1 DEF ResetClaims, VerifyClaims, VerifyDropped, VerifyLocks, VerifySettles,
                      cardVars, cacheVars
  <2>2. CASE ResetWrites
    BY <1>0, <1>1, <1>2, <2>2, WritesReset
  <2>3. CASE VerifyNames
    <3>1. UNCHANGED <<curve, commanded>> /\ \E f \in verify.fans : note_take(f)
      BY <2>3 DEF VerifyNames, cacheVars
    <3>2. QED
      BY <1>0, <1>3, <3>1 DEF HandlerTypes, Verifies
  <2>4. CASE VerifyTests
    <3>1. UNCHANGED <<taken, record, recordBad>>
      BY <2>4 DEF VerifyTests
    <3>2. /\ curve' \in [Fans -> 0..100 \cup {FirmwareAuto, Foreign}]
          /\ commanded' \in Commands
      BY <1>0, <2>4, TestsVerify DEF CardTypes
    <3>3. QED
      BY <1>0, <3>1, <3>2 DEF CardTypes
  <2>5. CASE VerifyRestores
    <3>1. PICK f \in Fans :
             \/ /\ UNCHANGED <<taken, record, recordBad>>
                /\ curve' \in [Fans -> 0..100 \cup {FirmwareAuto, Foreign}]
                /\ commanded' \in Commands
             \/ HandsBack(f)
             \/ UNCHANGED <<curve, commanded, taken, record, recordBad>>
      BY <1>0, <2>5, RestoresVerify
    <3>2. QED
      BY <1>0, <1>1, <1>2, <3>1 DEF CardTypes
  <2>6. QED
    BY <1>5, <2>1, <2>2, <2>3, <2>4, <2>5 DEF ByHandler
<1>6. CASE OtherTool
  <2>1. UNCHANGED <<taken, record, recordBad, commanded>>
    BY <1>6 DEF OtherTool, backendVars, cacheVars
  <2>2. \E f \in Fans : curve' = [curve EXCEPT ![f] = Foreign]
    BY <1>6 DEF OtherTool
  <2>3. QED
    BY <1>0, <2>1, <2>2 DEF CardTypes
<1>7. CASE Stopping
  <2>1. CASE StopBegins \/ reset_driven_gpu_fans
    BY <1>1, <2>1 DEF StopBegins, reset_driven_gpu_fans, backendVars, cacheVars
  <2>2. CASE RestoreCard
    <3>1. UNCHANGED <<taken, record, recordBad, commanded>>
      BY <2>2 DEF RestoreCard, backendVars, cacheVars
    <3>2. curve' = curve \/ \E f \in todo : curve' = [curve EXCEPT ![f] = FirmwareAuto]
      BY <2>2 DEF RestoreCard
    <3>3. QED
      BY <1>0, <3>1, <3>2 DEF CardTypes
  <2>3. CASE Gone
    <3>1. curve' = curve /\ record' = record /\ taken' = {} /\ recordBad' = FALSE
      BY <2>3 DEF Gone
    <3>2. commanded' = NoDuties
      BY <2>3 DEF Gone
    <3>3. QED
      BY <1>0, <3>1, <3>2, Blank DEF CardTypes
  <2>4. CASE ReplayCard
    <3>1. UNCHANGED <<taken, recordBad, commanded>> /\ record' \in {{}, record}
      BY <2>4 DEF ReplayCard, backendVars, cacheVars
    <3>2. curve' = curve \/ \E f \in todo : curve' = [curve EXCEPT ![f] = FirmwareAuto]
      BY <2>4 DEF ReplayCard
    <3>3. QED
      BY <1>0, <3>1, <3>2 DEF CardTypes
  <2>5. CASE Starts
    <3>1. UNCHANGED <<curve, taken, commanded>>
      BY <2>5 DEF Starts
    <3>2. record' \in {{}, record} /\ recordBad' \in BOOLEAN
      BY <2>5 DEF Starts, persist_pmfw
    <3>3. QED
      BY <1>0, <3>1, <3>2 DEF CardTypes
  <2>6. QED
    BY <1>7, <2>1, <2>2, <2>3, <2>4, <2>5 DEF Stopping
<1>8. CASE Quiet \/ Activate
  BY <1>1, <1>8 DEF Quiet, Activate
<1>9. QED
  BY <1>4, <1>5, <1>6, <1>7, <1>8, Steps

LEMMA TickTypes == Types /\ [Next]_vars => tick' \in Ticks
<1> SUFFICES ASSUME Types, [Next]_vars PROVE tick' \in Ticks
  OBVIOUS
<1>0. tick \in Ticks
  BY DEF Types, EngineTypes
<1>1. CASE TickBegins
  <2>1. PICK forced \in BOOLEAN :
           LET pct  == [f \in Fans |-> IF Worth(f, profile[f]) /\ ~paused
                                      THEN profile[f] ELSE None]
               back == IF paused THEN {} ELSE give_back_candidates
           IN  tick' = [NoTick EXCEPT
                          !.saw = writes_stalled,
                          !.late = forced \/ profile = NoDuties,
                          !.pct = pct,
                          !.back = back,
                          !.pc = IF pct # NoDuties \/ back # {} THEN "lock"
                                 ELSE IF outstanding /\ ~paused THEN "harvest" ELSE "end"]
    BY <1>1 DEF TickBegins
  <2> DEFINE p == [f \in Fans |-> IF Worth(f, profile[f]) /\ ~paused THEN profile[f] ELSE None]
             b == IF paused THEN {} ELSE give_back_candidates
             s == writes_stalled
             l == forced \/ profile = NoDuties
             c == IF p # NoDuties \/ b # {} THEN "lock"
                  ELSE IF outstanding /\ ~paused THEN "harvest" ELSE "end"
  <2>2. p \in Commands
    BY DutiesAssumption DEF Worth, Commands, Percents
  <2>3. b \in SUBSET Fans
    BY DEF give_back_candidates, Types, CardTypes
  <2>4. s \in BOOLEAN /\ l \in BOOLEAN /\ c \in {"lock", "harvest", "end"}
    BY DEF writes_stalled
  <2>5. tick' = [NoTick EXCEPT !.saw = s, !.late = l, !.pct = p, !.back = b, !.pc = c]
    BY <2>1
  <2> HIDE DEF p, b, s, l, c
  <2>6. QED
    BY <2>2, <2>3, <2>4, <2>5 DEF NoTick, Ticks
<1>2. CASE TickIssues
  <2> DEFINE h == (task.st # "none")
  <2>1. tick' = [tick EXCEPT !.pc = "issue", !.harvested = h] /\ h \in BOOLEAN
    BY <1>2 DEF TickIssues
  <2> HIDE DEF h
  <2>2. QED
    BY <1>0, <2>1 DEF Ticks
<1>3. CASE tick' = [tick EXCEPT !.pc = "end"]
  BY <1>0, <1>3 DEF Ticks
<1>4. CASE tick' = tick \/ tick' = NoTick
  BY <1>0, <1>4, Blank
<1>5. QED
  BY <1>1, <1>2, <1>3, <1>4
     DEF Next, Engine, EngineStep, TickLockWaitEnds, TickLeaves, TickJoins, TickEnds, Task,
         TaskStep, TaskNames, TaskWrites, TaskGivesBack, TaskReturns, TaskPanics,
         TaskDies, Cooldown, CooldownEnds, Activate, DutyMoves, ResetClaims,
         ResetWrites, VerifyClaims, VerifyDropped, VerifyLocks, VerifyGoesOn, VerifyNames,
         VerifyTests, VerifySettles, VerifyRestores, OtherClaims, PauseEnds, CardAnswers,
         OtherTool, StopBegins, Stop, reset_driven_gpu_fans, RestoreCard, Exits, ReplayCard,
         Crashes, Starts, Gone, engineVars, backendVars, vars

LEMMA EngineTypesStep == Types /\ [Next]_vars => EngineTypes'
<1> SUFFICES ASSUME Types, [Next]_vars PROVE EngineTypes'
  OBVIOUS
<1>0. CardTypes /\ EngineTypes /\ HandlerTypes
  BY DEF Types
<1>1. profile' \in [Fans -> Duties \cup {Skipped, None}]
  <2>1. CASE profile' = profile
    BY <1>0, <2>1 DEF EngineTypes
  <2>2. CASE Activate
    BY <2>2 DEF Activate
  <2>3. CASE DutyMoves
    <3>1. \E f \in Fans, d \in Duties \cup {Skipped} : profile' = [profile EXCEPT ![f] = d]
      BY <2>3 DEF DutyMoves
    <3>2. QED
      BY <1>0, <3>1 DEF EngineTypes
  <2>4. QED
    BY <2>1, <2>2, <2>3
       DEF Next, Engine, EngineStep, TickBegins, TickIssues, TickLockWaitEnds, TickLeaves,
           TickJoins, TickEnds, Task,
           TaskStep, TaskNames, TaskWrites, TaskGivesBack, TaskReturns, TaskPanics,
           TaskDies, Cooldown, CooldownEnds, ResetClaims,
           ResetWrites, VerifyClaims, VerifyDropped, VerifyLocks, VerifyGoesOn, VerifyNames,
           VerifyTests, VerifySettles, VerifyRestores, OtherClaims, PauseEnds, CardAnswers,
           OtherTool, StopBegins, Stop, reset_driven_gpu_fans, RestoreCard, Exits, ReplayCard,
           Crashes, Starts, Gone, cacheVars, backendVars, vars
<1>2. task' \in Tasks
  <2>1. CASE task' = task \/ task' = NoTask
    BY <1>0, <2>1, Blank DEF EngineTypes
  <2>2. CASE ByEngine
    BY <1>0, <2>1, <2>2, IssueTask, NamesTask, WritesTask, GivesBackTask, EndsTask
       DEF ByEngine, TickJoins
  <2>3. CASE Activate \/ ByHandler \/ OtherTool \/ Quiet
    BY <2>1, <2>3 DEF Activate, ByHandler, OtherTool, Quiet, ResetClaims, ResetWrites,
         VerifyClaims, VerifyDropped, VerifyLocks, VerifyNames, VerifyTests, VerifySettles,
         VerifyRestores, engineVars, backendVars
  <2>4. CASE Stopping
    BY <2>1, <2>4 DEF Stopping, StopBegins, reset_driven_gpu_fans, RestoreCard, Gone, ReplayCard,
         Starts, engineVars, backendVars
  <2>5. QED
    BY <2>2, <2>3, <2>4, Steps
<1>3. lock' \in {"free", "engine", "reset", "verify"}
  <2>1. lock' \in {lock, "free", "engine", "reset", "verify"}
    <3>1. CASE ByEngine
      BY <3>1 DEF ByEngine, TickIssues, TickJoins, TaskNames, TaskWrites, TaskGivesBack,
           TaskReturns, TaskPanics
    <3>2. CASE Activate \/ ByHandler \/ OtherTool \/ Quiet
      BY <3>2 DEF Activate, ByHandler, OtherTool, Quiet, ResetClaims, ResetWrites,
           VerifyClaims, VerifyDropped, VerifyLocks, VerifyNames, VerifyTests, VerifySettles,
           VerifyRestores, backendVars
    <3>3. CASE Stopping
      BY <3>3 DEF Stopping, StopBegins, reset_driven_gpu_fans, RestoreCard, Gone, ReplayCard,
           Starts, backendVars
    <3>4. QED
      BY SMTT(30), ZenonT(30), <3>1, <3>2, <3>3, Steps
  <2>2. QED
    BY <1>0, <2>1 DEF EngineTypes
<1>4. QED
  BY <1>1, <1>2, <1>3, TickTypes DEF EngineTypes

LEMMA HandlerTypesStep == Types /\ [Next]_vars => HandlerTypes'
<1> SUFFICES ASSUME Types, [Next]_vars PROVE HandlerTypes'
  OBVIOUS
<1>0. CardTypes /\ EngineTypes /\ HandlerTypes
  BY DEF Types
<1>1. CASE Aside
  BY <1>0, <1>1 DEF Aside, HandlerTypes
<1>2. CASE ByHandler
  <2>1. phase' = phase
    BY <1>2 DEF ByHandler, ResetClaims, ResetWrites, VerifyClaims, VerifyDropped, VerifyLocks,
         VerifyNames, VerifyTests, VerifySettles, VerifyRestores, stopVars
  <2>2. CASE ResetClaims
    <3>1. verify' = verify
      BY <2>2 DEF ResetClaims
    <3>2. QED
      BY <1>0, <2>1, <2>2, <3>1, ClaimsReset DEF HandlerTypes
  <2>3. CASE ResetWrites
    <3>1. verify' = verify
      BY <2>3 DEF ResetWrites
    <3>2. QED
      BY <1>0, <2>1, <2>3, <3>1, WritesReset, Blank DEF HandlerTypes
  <2>4. CASE ~ResetClaims /\ ~ResetWrites
    <3>1. reset' = reset
      BY <1>2, <2>4 DEF ByHandler, VerifyClaims, VerifyDropped, VerifyLocks, VerifyNames,
           VerifyTests, VerifySettles, VerifyRestores
    <3>2. VerifyDropped \/ VerifyRestores => verify' = NoVerify
      BY DEF VerifyDropped, VerifyRestores
    <3>3. verify' \in Verifies
      BY <1>0, <1>2, <2>4, <3>2, Blank, ClaimsVerify, LocksVerify, GoesOnVerify DEF ByHandler
    <3>4. QED
      BY <1>0, <2>1, <3>1, <3>3 DEF HandlerTypes
  <2>5. QED
    BY <2>2, <2>3, <2>4
<1>3. CASE Activate \/ OtherTool
  <2>1. UNCHANGED <<phase, verify, reset>>
    BY <1>3 DEF Activate, OtherTool, stopVars, handlerVars
  <2>2. QED
    BY <1>0, <2>1 DEF HandlerTypes
<1>4. CASE Stopping
  <2>1. \/ UNCHANGED <<verify, reset>>
        \/ verify' = NoVerify /\ reset' = NoReset
    BY <1>4 DEF Stopping, StopBegins, reset_driven_gpu_fans, RestoreCard, Gone, ReplayCard,
         Starts, handlerVars
  <2>2. phase' \in {phase, "stopping", "restore", "down", "running"}
    BY <1>4 DEF Stopping, StopBegins, reset_driven_gpu_fans, RestoreCard, Gone, ReplayCard, Starts
  <2>3. QED
    BY <1>0, <2>1, <2>2, Blank DEF HandlerTypes
<1>5. QED
  BY <1>1, <1>2, <1>3, <1>4, Steps DEF Quiet, ByEngine

LEMMA SetTypesStep == Types /\ [Next]_vars => SetTypes'
<1> SUFFICES ASSUME Types, [Next]_vars PROVE SetTypes'
  OBVIOUS
<1>0. CardTypes /\ EngineTypes /\ HandlerTypes /\ SetTypes
  BY DEF Types
<1>1. CASE Quiet
  BY <1>0, <1>1 DEF Quiet, Aside, SetTypes
<1>2. CASE ByEngine
  <2>1. UNCHANGED <<relinquished, promised, undone, todo>>
    BY <1>2 DEF ByEngine, Aside, TickIssues, TickJoins, TaskNames, TaskWrites, TaskGivesBack,
         TaskReturns, TaskPanics, cacheVars
  <2>2. touched' \subseteq Fans
    <3>1. CASE TaskNames
      <4>1. \A f \in task.todo : f \in Fans
        BY <1>0 DEF EngineTypes, Tasks
      <4>2. QED
        BY <1>0, <3>1, <4>1, NamesTask DEF SetTypes
    <3>2. CASE TaskGivesBack
      BY SMTT(30), ZenonT(30), <1>0, <3>2, GivesBackTask DEF HandsBack, SetTypes
    <3>3. CASE ~TaskNames /\ ~TaskGivesBack
      BY <1>0, <1>2, <3>3 DEF ByEngine, TickIssues, TickJoins, TaskWrites, TaskReturns,
           TaskPanics, SetTypes
    <3>4. QED
      BY <3>1, <3>2, <3>3
  <2>3. QED
    BY SMTT(30), ZenonT(30), <1>0, <2>1, <2>2 DEF SetTypes
<1>3. CASE ByHandler
  <2>1. UNCHANGED <<undone, todo>>
    BY <1>3 DEF ByHandler, ResetClaims, ResetWrites, VerifyClaims, VerifyDropped, VerifyLocks,
         VerifyNames, VerifyTests, VerifySettles, VerifyRestores, stopVars
  <2>2. CASE ResetClaims
    <3>1. UNCHANGED <<promised, touched>>
      BY <2>2 DEF ResetClaims
    <3>2. QED
      BY <1>0, <2>1, <2>2, <3>1, ClaimsReset DEF SetTypes
  <2>3. CASE ResetWrites
    <3>1. /\ relinquished' \subseteq relinquished /\ touched' \subseteq touched
          /\ promised' \subseteq promised \cup relinquished
      BY <1>0, <2>3, WritesReset DEF HandsBack
    <3>2. QED
      BY <1>0, <2>1, <3>1 DEF SetTypes
  <2>4. CASE ~ResetClaims /\ ~ResetWrites
    <3>1. relinquished' = relinquished /\ promised' \subseteq promised
      BY <1>3, <2>4 DEF ByHandler, VerifyClaims, VerifyDropped, VerifyLocks, VerifyNames,
           VerifyTests, VerifySettles, VerifyRestores, cacheVars
    <3>2. touched' = touched \/ \E f \in verify.fans : touched' = touched \cup {f}
                             \/ touched' = touched \ {f}
      BY <1>3, <2>4 DEF ByHandler, VerifyClaims, VerifyDropped, VerifyLocks, VerifyNames,
           VerifyTests, VerifySettles, VerifyRestores, HandsBack
    <3>3. QED
      BY <1>0, <2>1, <3>1, <3>2 DEF SetTypes, HandlerTypes, Verifies
  <2>5. QED
    BY <2>2, <2>3, <2>4
<1>4. CASE Activate
  <2>1. UNCHANGED <<touched, undone, todo>>
    BY <1>4 DEF Activate, stopVars
  <2>2. relinquished' \in {relinquished, {}} /\ promised' \in {promised, {}}
    BY <1>4 DEF Activate
  <2>3. QED
    BY <1>0, <2>1, <2>2 DEF SetTypes
<1>5. CASE OtherTool
  BY <1>0, <1>5 DEF OtherTool, backendVars, cacheVars, stopVars, handlerVars, SetTypes
<1>6. CASE Stopping
  <2>1. /\ relinquished' \in {relinquished, {}} /\ promised' \in {promised, {}}
        /\ touched' \in {touched, {}}
    BY <1>6 DEF Stopping, StopBegins, reset_driven_gpu_fans, RestoreCard, Gone, ReplayCard,
         Starts, backendVars, cacheVars, handlerVars
  <2>2. todo' \subseteq taken \cup record \cup todo
    BY <1>6 DEF Stopping, StopBegins, reset_driven_gpu_fans, RestoreCard, Gone, ReplayCard, Starts
  <2>3. undone' \subseteq undone \cup touched \cup record \cup todo
    BY <1>6 DEF Stopping, StopBegins, reset_driven_gpu_fans, RestoreCard, Gone, ReplayCard, Starts
  <2>4. QED
    BY <1>0, <2>1, <2>2, <2>3 DEF SetTypes, CardTypes
<1>7. QED
  BY <1>1, <1>2, <1>3, <1>4, <1>5, <1>6, Steps

LEMMA TypesStep == Types /\ TaskInv /\ [Next]_vars => Types'
  BY CardTypesStep, EngineTypesStep, HandlerTypesStep, SetTypesStep DEF Types

----------------------------------------------------------------------------
(* The lock has one holder. *)
LEMMA LockStep == Types /\ LockInv /\ [Next]_vars => LockInv'
<1> SUFFICES ASSUME Types, LockInv, [Next]_vars PROVE LockInv'
  OBVIOUS
<1>0. CardTypes /\ EngineTypes /\ HandlerTypes
  BY DEF Types
<1>1. CASE Quiet
  <2>1. UNCHANGED <<lock, task, phase, verify, reset>>
    BY <1>1 DEF Quiet, Aside
  <2>2. phase = "down" => tick' = tick
    BY <1>1 DEF Quiet, LockInv
  <2>3. QED
    BY <2>1, <2>2 DEF LockInv, Verifying
<1>2. CASE ByEngine
  <2>1. UNCHANGED <<phase, verify, reset>>
    BY <1>2 DEF ByEngine, Aside
  <2>2. CASE TickIssues
    <3>1. lock = "free" /\ lock' = "engine" /\ tick.pc = "lock"
      BY <2>2 DEF TickIssues
    <3>2. QED
      BY <1>0, <2>1, <2>2, <3>1, IssueTask DEF LockInv, Verifying
  <2>3. CASE TickJoins
    <3>1. lock' = lock /\ task.st # "run" /\ task' = NoTask /\ tick.pc # "idle"
      BY <2>3 DEF TickJoins
    <3>2. QED
      BY <2>1, <3>1, Blank DEF LockInv, Verifying
  <2>4. CASE TaskNames \/ TaskWrites \/ TaskGivesBack
    <3>1. lock' = lock /\ tick' = tick
      BY <2>4 DEF TaskNames, TaskWrites, TaskGivesBack
    <3>2. task.st = "run" /\ task'.st = "run"
      BY <1>0, <2>4, NamesTask, WritesTask, GivesBackTask
    <3>3. QED
      BY SMTT(30), ZenonT(30), <2>1, <3>1, <3>2 DEF LockInv, Verifying
  <2>5. CASE TaskReturns \/ TaskPanics
    <3>1. lock' = "free" /\ tick' = tick
      BY <2>5 DEF TaskReturns, TaskPanics
    <3>2. task.st = "run" /\ task'.st # "run"
      BY <1>0, <2>5, EndsTask
    <3>3. QED
      BY <2>1, <3>1, <3>2 DEF LockInv, Verifying
  <2>6. QED
    BY <1>2, <2>2, <2>3, <2>4, <2>5 DEF ByEngine
<1>3. CASE Activate \/ OtherTool
  <2>1. UNCHANGED <<lock, task, phase, verify, reset, tick>>
    BY <1>3 DEF Activate, OtherTool, engineVars, backendVars, stopVars, handlerVars
  <2>2. QED
    BY <2>1 DEF LockInv, Verifying
<1>4. CASE ByHandler
  <2>1. UNCHANGED <<task, tick, phase>>
    BY <1>4 DEF ByHandler, ResetClaims, ResetWrites, VerifyClaims, VerifyDropped, VerifyLocks,
         VerifyNames, VerifyTests, VerifySettles, VerifyRestores, engineVars, stopVars
  <2>2. CASE ResetClaims
    <3>1. verify' = verify
      BY <2>2 DEF ResetClaims
    <3>2. QED
      BY <2>1, <2>2, <3>1, ClaimsReset DEF LockInv, Verifying
  <2>3. CASE ResetWrites
    <3>1. verify' = verify
      BY <2>3 DEF ResetWrites
    <3>2. QED
      BY <1>0, <2>1, <2>3, <3>1, WritesReset, Blank DEF LockInv, Verifying
  <2>4. CASE VerifyClaims
    <3>1. lock' = lock /\ reset' = reset /\ phase = "running"
      BY <2>4 DEF VerifyClaims
    <3>2. QED
      BY <2>1, <2>4, <3>1, ClaimsVerify DEF LockInv, Verifying
  <2>5. CASE VerifyDropped
    <3>1. lock' = lock /\ reset' = reset /\ verify.pc = "lock" /\ verify' = NoVerify
      BY <2>5 DEF VerifyDropped
    <3>2. QED
      BY <2>1, <3>1, Blank DEF LockInv, Verifying
  <2>6. CASE VerifyLocks
    <3>1. lock = "free" /\ lock' = "verify" /\ reset' = reset /\ phase # "down"
      BY <2>6 DEF VerifyLocks, Up
    <3>2. QED
      BY <2>1, <2>6, <3>1, LocksVerify DEF LockInv, Verifying
  <2>7. CASE VerifyNames \/ VerifyTests \/ VerifySettles
    <3>1. lock' = lock /\ reset' = reset
      BY <2>7 DEF VerifyNames, VerifyTests, VerifySettles
    <3>2. QED
      BY <1>0, <2>1, <2>7, <3>1, GoesOnVerify DEF LockInv, Verifying
  <2>8. CASE VerifyRestores
    <3>1. reset' = reset
      BY <2>8 DEF VerifyRestores
    <3>2. QED
      BY <1>0, <2>1, <2>8, <3>1, RestoresVerify, Blank DEF LockInv, Verifying
  <2>9. QED
    BY <1>4, <2>2, <2>3, <2>4, <2>5, <2>6, <2>7, <2>8 DEF ByHandler
<1>5. CASE Stopping
  <2>1. CASE Gone
    <3>1. lock' = "free" /\ tick' = NoTick /\ task' = NoTask /\ verify' = NoVerify
          /\ reset' = NoReset
      BY <2>1 DEF Gone
    <3>2. QED
      BY <3>1, Blank DEF LockInv, Verifying
  <2>2. CASE StopBegins \/ reset_driven_gpu_fans \/ RestoreCard \/ ReplayCard \/ Starts
    <3>1. UNCHANGED <<lock, tick, task, verify, reset>>
      BY <2>2 DEF StopBegins, reset_driven_gpu_fans, RestoreCard, ReplayCard, Starts, engineVars,
           backendVars, handlerVars
    <3>2. phase' = "down" => phase = "down"
      BY <2>2 DEF StopBegins, reset_driven_gpu_fans, RestoreCard, ReplayCard, Starts
    <3>3. QED
      BY <3>1, <3>2 DEF LockInv, Verifying
  <2>3. QED
    BY <1>5, <2>1, <2>2 DEF Stopping
<1>6. QED
  BY <1>1, <1>2, <1>3, <1>4, <1>5, Steps

LEMMA TaskStepInv == Types /\ TaskInv /\ [Next]_vars => TaskInv'
<1> SUFFICES ASSUME Types, TaskInv, [Next]_vars PROVE TaskInv'
  OBVIOUS
<1>0. CardTypes /\ EngineTypes /\ HandlerTypes
  BY DEF Types
<1>1. CASE UNCHANGED <<task, verify>>
  BY <1>1 DEF TaskInv
<1>2. CASE ByEngine
  <2>1. verify' = verify
    BY <1>2 DEF ByEngine, Aside
  <2>2. CASE TickIssues
    BY <1>0, <2>1, <2>2, IssueTask DEF TaskInv
  <2>3. CASE TickJoins
    <3>1. task' = NoTask
      BY <2>3 DEF TickJoins
    <3>2. QED
      BY <2>1, <3>1, Blank DEF TaskInv
  <2>4. CASE TaskNames
    BY <1>0, <2>1, <2>4, NamesTask DEF TaskInv
  <2>5. CASE TaskWrites
    BY <1>0, <2>1, <2>5, WritesTask DEF TaskInv
  <2>6. CASE TaskGivesBack
    BY <1>0, <2>1, <2>6, GivesBackTask DEF TaskInv
  <2>7. CASE TaskReturns \/ TaskPanics
    <3>1. task'.noted = {} /\ task'.todo = {}
      BY <1>0, <2>7, EndsTask DEF TaskInv
    <3>2. QED
      BY <2>1, <3>1 DEF TaskInv
  <2>8. QED
    BY <1>2, <2>2, <2>3, <2>4, <2>5, <2>6, <2>7 DEF ByEngine
<1>3. CASE ByHandler
  <2>1. task' = task
    BY <1>3 DEF ByHandler, ResetClaims, ResetWrites, VerifyClaims, VerifyDropped, VerifyLocks,
         VerifyNames, VerifyTests, VerifySettles, VerifyRestores, engineVars
  <2>2. CASE ResetClaims \/ ResetWrites
    BY <1>1, <2>1, <2>2 DEF ResetClaims, ResetWrites
  <2>3. VerifyDropped \/ VerifyRestores => verify'.pc = "idle"
    BY Blank DEF VerifyDropped, VerifyRestores
  <2>4. CASE ~ResetClaims /\ ~ResetWrites
    <3>1. verify'.pc # "idle" => \E f \in Fans : verify'.fans = {f}
      BY <1>0, <1>3, <2>3, <2>4, ClaimsVerify, LocksVerify, GoesOnVerify DEF ByHandler, TaskInv
    <3>2. QED
      BY <2>1, <3>1 DEF TaskInv
  <2>5. QED
    BY <2>2, <2>4
<1>4. CASE Quiet \/ Activate \/ OtherTool
  BY <1>1, <1>4 DEF Quiet, Aside, Activate, OtherTool, engineVars, backendVars, handlerVars
<1>5. CASE Stopping
  <2>1. CASE Gone
    <3>1. task' = NoTask /\ verify' = NoVerify
      BY <2>1 DEF Gone
    <3>2. QED
      BY <3>1, Blank DEF TaskInv
  <2>2. QED
    BY <1>1, <1>5, <2>1 DEF Stopping, StopBegins, reset_driven_gpu_fans, RestoreCard, ReplayCard,
         Starts, engineVars, backendVars, handlerVars
<1>6. QED
  BY <1>2, <1>3, <1>4, <1>5, Steps

----------------------------------------------------------------------------
(* The list. *)
LEMMA ListStep == Types /\ LockInv /\ TaskInv /\ ListInv /\ [Next]_vars => ListInv'
<1> SUFFICES ASSUME Types, LockInv, TaskInv, ListInv, [Next]_vars PROVE ListInv'
  OBVIOUS
<1>0. CardTypes /\ EngineTypes /\ HandlerTypes
  BY DEF Types
<1>1. CASE UNCHANGED <<taken, record, recordBad, touched, phase>> /\ task'.noted \subseteq task.noted
             /\ UNCHANGED verify
  BY <1>1 DEF ListInv
<1>2. CASE ByEngine
  <2>1. UNCHANGED <<phase, verify>>
    BY <1>2 DEF ByEngine, Aside
  <2>2. CASE TickIssues \/ TickJoins \/ TaskWrites \/ TaskReturns \/ TaskPanics
    <3>1. UNCHANGED <<taken, record, recordBad, touched>>
      BY <2>2 DEF TickIssues, TickJoins, TaskWrites, TaskReturns, TaskPanics, cardVars
    <3>2. TickJoins => task' = NoTask
      BY DEF TickJoins
    <3>3. task'.noted \subseteq task.noted
      BY <1>0, <2>2, <3>2, Blank, IssueTask, WritesTask, EndsTask
    <3>4. QED
      BY SMTT(30), ZenonT(30), <1>1, <2>1, <3>1, <3>3
  <2>3. CASE TaskNames
    <3>1. task.st = "run" /\ phase # "down" /\ ~Verifying
      BY <1>0, <2>3, NamesTask DEF LockInv
    <3>2. PICK f \in task.todo :
                 \/ task'.noted = {} /\ UNCHANGED <<taken, record, recordBad, touched>>
                 \/ task'.noted = {f} /\ note_take(f) /\ touched' = touched \cup {f}
      BY <1>0, <2>3, NamesTask
    <3>3. f \in Fans
      BY <1>0 DEF EngineTypes, Tasks
    <3>4. CASE task'.noted = {} /\ UNCHANGED <<taken, record, recordBad, touched>>
      BY <1>1, <2>1, <3>4
    <3>5. CASE task'.noted = {f} /\ note_take(f) /\ touched' = touched \cup {f}
      BY <1>0, <2>1, <3>1, <3>3, <3>5, ListTake DEF ListInv, Verifying
    <3>6. QED
      BY <3>2, <3>4, <3>5
  <2>4. CASE TaskGivesBack
    <3>1. /\ task.st = "run" /\ task.todo = {} /\ task'.noted = task.noted
      BY <1>0, <2>4, GivesBackTask
    <3>2. task'.noted = {} /\ phase # "down" /\ ~Verifying
      BY <3>1 DEF LockInv, TaskInv
    <3>3. CASE UNCHANGED <<taken, record, recordBad, touched>>
      BY <1>1, <2>1, <3>1, <3>3
    <3>4. ASSUME NEW f \in Fans, HandsBack(f) PROVE ListInv'
      BY <1>0, <2>1, <3>2, <3>4, GoesBack DEF ListInv, Verifying
    <3>5. QED
      BY <1>0, <2>4, <3>3, <3>4, GivesBackTask
  <2>5. QED
    BY <1>2, <2>2, <2>3, <2>4 DEF ByEngine
<1>3. CASE ByHandler
  <2>1. UNCHANGED <<task, phase>>
    BY <1>3 DEF ByHandler, ResetClaims, ResetWrites, VerifyClaims, VerifyDropped, VerifyLocks,
         VerifyNames, VerifyTests, VerifySettles, VerifyRestores, engineVars, stopVars
  <2>2. CASE ResetClaims
    BY <1>1, <2>1, <2>2 DEF ResetClaims
  <2>3. CASE ResetWrites
    <3>1. verify' = verify /\ lock = "reset"
      BY <2>3 DEF ResetWrites
    <3>2. task.noted = {} /\ ~Verifying /\ phase # "down"
      BY <1>0, <2>3, <3>1, WritesReset DEF LockInv, TaskInv
    <3>3. ASSUME NEW f \in Fans, HandsBack(f) PROVE ListInv'
      BY <1>0, <2>1, <3>1, <3>2, <3>3, GoesBack DEF ListInv, Verifying
    <3>4. QED
      BY <1>0, <1>1, <2>1, <2>3, <3>1, <3>3, WritesReset
  <2>4. CASE VerifyClaims \/ VerifyDropped \/ VerifyLocks
    <3>1. UNCHANGED <<taken, record, recordBad, touched>>
      BY <2>4 DEF VerifyClaims, VerifyDropped, VerifyLocks, cardVars
    <3>2. verify'.pc \in {"idle", "lock", "name"}
      BY <2>4, Blank, ClaimsVerify, LocksVerify DEF VerifyDropped
    <3>3. QED
      BY <2>1, <3>1, <3>2 DEF ListInv
  <2>5. CASE VerifyNames
    <3>1. PICK f \in verify.fans : note_take(f) /\ touched' = touched \cup {f}
      BY <2>5 DEF VerifyNames
    <3>2. f \in Fans /\ verify.fans = {f}
      BY <1>0, <2>5, GoesOnVerify DEF TaskInv, HandlerTypes, Verifies
    <3>3. verify'.fans = verify.fans /\ phase # "down"
      BY <1>0, <2>5, GoesOnVerify DEF LockInv
    <3>4. QED
      BY <1>0, <2>1, <3>1, <3>2, <3>3, ListTake DEF ListInv
  <2>6. CASE VerifyTests \/ VerifySettles
    <3>1. UNCHANGED <<taken, record, recordBad, touched>>
      BY <2>6 DEF VerifyTests, VerifySettles, cardVars
    <3>2. verify.pc \in {"test", "settle"} /\ verify'.fans = verify.fans
      BY <1>0, <2>6, GoesOnVerify
    <3>3. QED
      BY <2>1, <3>1, <3>2 DEF ListInv
  <2>7. CASE VerifyRestores
    <3>1. verify'.pc = "idle" /\ verify.pc = "restore"
      BY <1>0, <2>7, RestoresVerify, Blank
    <3>2. task.noted = {} /\ phase # "down"
      BY <3>1 DEF LockInv, TaskInv, Verifying
    <3>3. ASSUME NEW f \in Fans, HandsBack(f) PROVE ListInv'
      BY <1>0, <2>1, <3>1, <3>2, <3>3, GoesBack DEF ListInv
    <3>4. CASE UNCHANGED <<taken, record, recordBad, touched>>
      BY <2>1, <3>1, <3>2, <3>4 DEF ListInv
    <3>5. QED
      BY <1>0, <2>7, <3>3, <3>4, RestoresVerify
  <2>8. QED
    BY <1>3, <2>2, <2>3, <2>4, <2>5, <2>6, <2>7 DEF ByHandler
<1>4. CASE Quiet \/ Activate \/ OtherTool
  BY <1>1, <1>4 DEF Quiet, Aside, Activate, OtherTool, engineVars, backendVars, handlerVars,
       stopVars
<1>5. CASE Stopping
  <2>1. CASE StopBegins \/ reset_driven_gpu_fans
    <3>1. UNCHANGED <<taken, record, recordBad, touched, task, verify>>
      BY <2>1 DEF StopBegins, reset_driven_gpu_fans, backendVars, engineVars, handlerVars
    <3>2. phase # "down" /\ phase' # "down"
      BY <2>1 DEF StopBegins, reset_driven_gpu_fans
    <3>3. QED
      BY <3>1, <3>2 DEF ListInv
  <2>2. CASE RestoreCard
    BY <1>1, <2>2 DEF RestoreCard, backendVars, engineVars, handlerVars
  <2>3. CASE Gone
    <3>1. phase' = "down" /\ taken' = {} /\ task' = NoTask /\ verify' = NoVerify
      BY <2>3 DEF Gone
    <3>2. QED
      BY <3>1, Blank DEF ListInv
  <2>4. CASE ReplayCard
    <3>1. UNCHANGED <<taken, task, verify>> /\ phase = "down" /\ phase' = "down"
      BY <2>4 DEF ReplayCard, backendVars, engineVars, handlerVars
    <3>2. QED
      BY <3>1 DEF ListInv
  <2>5. CASE Starts
    <3>1. UNCHANGED <<taken, task, verify>> /\ phase = "down" /\ phase' = "running"
          /\ touched' = {} /\ persist_pmfw({})
      BY <2>5 DEF Starts, engineVars, handlerVars
    <3>2. recordBad' \/ record' = {}
      BY <3>1 DEF persist_pmfw
    <3>3. QED
      BY <3>1, <3>2 DEF ListInv
  <2>6. QED
    BY <1>5, <2>1, <2>2, <2>3, <2>4, <2>5 DEF Stopping
<1>6. QED
  BY <1>2, <1>3, <1>4, <1>5, Steps

----------------------------------------------------------------------------
(* After the process. *)
LEMMA DownSteps ==
    ASSUME Types, LockInv, phase = "down", [Next]_vars
    PROVE  Quiet \/ ReplayCard \/ Starts
<1>0. EngineTypes /\ HandlerTypes /\ task.st # "run" /\ tick.pc = "idle" /\ verify.pc = "idle"
  BY DEF Types, LockInv
<1>1. ~ByEngine
  <2>1. ~TickIssues /\ ~TickJoins
    BY SMTT(30), ZenonT(30), <1>0 DEF TickIssues, TickJoins
  <2>2. ~TaskNames /\ ~TaskWrites /\ ~TaskGivesBack /\ ~TaskReturns /\ ~TaskPanics
    BY <1>0 DEF TaskNames, TaskWrites, TaskGivesBack, TaskReturns, TaskPanics
  <2>3. QED
    BY <2>1, <2>2 DEF ByEngine
<1>2. ~ByHandler
  BY <1>0 DEF ByHandler, ResetClaims, ResetWrites, VerifyClaims, VerifyDropped, VerifyLocks,
       VerifyNames, VerifyTests, VerifySettles, VerifyRestores, Up
<1>3. ~Activate /\ ~OtherTool /\ ~StopBegins /\ ~reset_driven_gpu_fans /\ ~RestoreCard /\ ~Up
  BY DEF Activate, OtherTool, StopBegins, reset_driven_gpu_fans, RestoreCard, Up
<1>4. QED
  BY <1>1, <1>2, <1>3, Steps DEF Stopping

LEMMA ReplayStep ==
    Types /\ LockInv /\ ListInv /\ ReplayInv /\ [Next]_vars => ReplayInv'
<1> SUFFICES ASSUME Types, LockInv, ListInv, ReplayInv, [Next]_vars, phase' = "down"
             PROVE  /\ \A f \in touched' : f \in todo' \/ ~(curve'[f] >= 0) \/ f \in undone'
                    /\ todo' \subseteq touched' \cup undone'
  BY DEF ReplayInv, Driven
<1>1. CASE phase = "down"
  <2>1. CASE Quiet
    <3>1. UNCHANGED <<touched, todo, undone, curve>>
      BY <2>1 DEF Quiet, Aside
    <3>2. QED
      BY <1>1, <3>1 DEF ReplayInv, Driven
  <2>2. CASE ReplayCard
    <3>1. touched' = touched
      BY <2>2 DEF ReplayCard, backendVars
    <3>2. PICK f \in todo : /\ todo' = todo \ {f}
                            /\ \/ curve' = [curve EXCEPT ![f] = FirmwareAuto] /\ undone' = undone
                               \/ curve' = curve /\ undone' = undone \cup {f}
      BY <2>2 DEF ReplayCard
    <3>3. curve' = curve \/ (~(curve'[f] >= 0) /\ \A g \in Fans : g # f => curve'[g] = curve[g])
      BY <3>2 DEF Types, CardTypes, SetTypes, FirmwareAuto
    <3>4. touched \subseteq Fans
      BY DEF Types, SetTypes
    <3>5. ASSUME NEW g \in touched PROVE g \in todo' \/ ~(curve'[g] >= 0) \/ g \in undone'
      <4>0. curve' = [curve EXCEPT ![f] = FirmwareAuto] => ~(curve'[f] >= 0)
        BY <3>2 DEF Types, CardTypes, SetTypes, FirmwareAuto
      <4>1. CASE g = f
        BY <3>2, <4>0, <4>1
      <4>2. CASE g # f
        BY <1>1, <3>2, <3>3, <3>4, <4>2 DEF ReplayInv, Driven
      <4>3. QED
        BY <4>1, <4>2
    <3>6. todo' \subseteq touched \cup undone'
      BY <1>1, <3>2 DEF ReplayInv
    <3>7. QED
      BY <3>1, <3>5, <3>6
  <2>3. CASE Starts
    BY <2>3 DEF Starts
  <2>4. QED
    BY <1>1, <2>1, <2>2, <2>3, DownSteps
<1>2. CASE phase # "down"
  <2>1. Gone
    BY <1>2, Steps DEF Quiet, Aside, ByEngine, Activate, ByHandler, OtherTool, ResetClaims,
         ResetWrites, VerifyClaims, VerifyDropped, VerifyLocks, VerifyNames, VerifyTests,
         VerifySettles, VerifyRestores, Stopping, StopBegins, reset_driven_gpu_fans, RestoreCard,
         ReplayCard, Starts, stopVars
  <2>2. /\ todo' = record /\ touched' = touched
        /\ undone' = IF recordBad THEN touched \cup record ELSE {}
    BY <2>1 DEF Gone
  <2>3. touched = taken /\ (recordBad \/ record = taken)
    BY <1>2 DEF ListInv
  <2>4. QED
    BY <2>2, <2>3
<1>3. QED
  BY <1>1, <1>2

(* While a stop restores, a curve of another tool's is not put on a card,  *)
(* and a card that has one stays on the list.                              *)
LEMMA RestoreSteps ==
    ASSUME Types, LockInv, TaskInv, phase = "restore", phase' = "restore", [Next]_vars,
           NEW f \in Fans, curve'[f] = Foreign
    PROVE  curve[f] = Foreign /\ (f \in touched => f \in touched') /\ todo' \subseteq todo
<1>0. CardTypes /\ EngineTypes /\ HandlerTypes
  BY DEF Types
<1>1. ASSUME NEW g \in Fans, HandsBack(g)
      PROVE  curve[f] = Foreign /\ (f \in touched => f \in touched')
  <2>1. g # f
    BY <1>0, <1>1, GoesBack DEF FirmwareAuto, Foreign
  <2>2. QED
    BY <1>0, <1>1, <2>1, GoesBack
<1>2. CASE Quiet
  BY <1>2 DEF Quiet, Aside
<1>3. CASE ByEngine
  <2>1. todo' = todo
    BY <1>3 DEF ByEngine, Aside
  <2>2. CASE TickIssues \/ TickJoins \/ TaskReturns \/ TaskPanics
    BY <2>1, <2>2 DEF TickIssues, TickJoins, TaskReturns, TaskPanics, cardVars
  <2>3. CASE TaskNames
    <3>1. curve' = curve
      BY <2>3 DEF TaskNames
    <3>2. QED
      BY <1>0, <2>1, <2>3, <3>1, NamesTask
  <2>4. CASE TaskWrites
    <3>1. touched' = touched
      BY <2>4 DEF TaskWrites
    <3>2. PICK g \in task.noted : \/ curve' = [curve EXCEPT ![g] = task.pct[g]]
                                  \/ curve' = curve
      BY <1>0, <2>4, WritesTask
    <3>3. g \in Fans /\ task.pct[g] \in 0..100
      BY <1>0 DEF TaskInv, EngineTypes, Tasks, Commands, Percents
    <3>4. QED
      BY <1>0, <2>1, <3>1, <3>2, <3>3 DEF CardTypes, Foreign
  <2>5. CASE TaskGivesBack
    BY <1>0, <1>1, <2>1, <2>5, GivesBackTask
  <2>6. QED
    BY <1>3, <2>2, <2>3, <2>4, <2>5 DEF ByEngine
<1>4. CASE ByHandler
  <2>1. todo' = todo
    BY <1>4 DEF ByHandler, ResetClaims, ResetWrites, VerifyClaims, VerifyDropped, VerifyLocks,
         VerifyNames, VerifyTests, VerifySettles, VerifyRestores, stopVars
  <2>2. CASE ResetClaims \/ VerifyClaims \/ VerifyDropped \/ VerifyLocks \/ VerifySettles
    BY <2>1, <2>2 DEF ResetClaims, VerifyClaims, VerifyDropped, VerifyLocks, VerifySettles, cardVars
  <2>3. CASE ResetWrites
    BY <1>0, <1>1, <2>1, <2>3, WritesReset
  <2>4. CASE VerifyNames
    BY <2>1, <2>4 DEF VerifyNames
  <2>5. CASE VerifyTests
    <3>1. touched' = touched
      BY <2>5 DEF VerifyTests
    <3>2. QED
      BY <1>0, <2>1, <2>5, <3>1, TestsVerify DEF Foreign
  <2>6. CASE VerifyRestores
    BY <1>0, <1>1, <2>1, <2>6, RestoresVerify DEF Foreign
  <2>7. QED
    BY <1>4, <2>2, <2>3, <2>4, <2>5, <2>6 DEF ByHandler
<1>5. CASE RestoreCard
  <2>1. touched' = touched /\ todo' \subseteq todo
    BY <1>5 DEF RestoreCard, backendVars
  <2>2. curve' = curve \/ \E g \in todo : curve' = [curve EXCEPT ![g] = FirmwareAuto]
    BY <1>5 DEF RestoreCard
  <2>3. QED
    BY <1>0, <2>1, <2>2 DEF CardTypes, FirmwareAuto, Foreign
<1>6. ~Activate /\ ~OtherTool /\ ~StopBegins /\ ~reset_driven_gpu_fans /\ ~Gone /\ ~ReplayCard
        /\ ~Starts
  BY DEF Activate, OtherTool, StopBegins, reset_driven_gpu_fans, Gone, ReplayCard, Starts
<1>7. QED
  BY <1>2, <1>3, <1>4, <1>5, <1>6, Steps DEF Stopping

LEMMA RestoreStep ==
    Types /\ LockInv /\ TaskInv /\ ListInv /\ RestoreInv /\ [Next]_vars => RestoreInv'
<1> SUFFICES ASSUME Types, LockInv, TaskInv, ListInv, RestoreInv, [Next]_vars,
                    phase' = "restore", NEW f \in todo', curve'[f] = Foreign
             PROVE  f \in touched'
  BY DEF RestoreInv
<1>1. f \in Fans
  BY SetTypesStep DEF SetTypes
<1>2. CASE phase = "restore"
  BY <1>1, <1>2, RestoreSteps DEF RestoreInv
<1>3. CASE phase # "restore"
  <2>1. reset_driven_gpu_fans
    BY <1>3, Steps DEF Quiet, Aside, ByEngine, Activate, ByHandler, OtherTool, ResetClaims,
         ResetWrites, VerifyClaims, VerifyDropped, VerifyLocks, VerifyNames, VerifyTests,
         VerifySettles, VerifyRestores, Stopping, StopBegins, RestoreCard, Gone,
         ReplayCard, Starts, stopVars
  <2>2. todo' \subseteq taken /\ touched' = touched /\ phase # "down"
    BY <2>1 DEF reset_driven_gpu_fans, backendVars
  <2>3. QED
    BY <2>2 DEF ListInv
<1>4. QED
  BY <1>2, <1>3

----------------------------------------------------------------------------
(* An answered reset lasts. *)
LEMMA PromiseStep ==
    Types /\ LockInv /\ TaskInv /\ PromiseInv /\ [Next]_vars => PromiseInv'
<1> SUFFICES ASSUME Types, LockInv, TaskInv, PromiseInv, [Next]_vars PROVE PromiseInv'
  OBVIOUS
<1>0. CardTypes /\ EngineTypes /\ HandlerTypes /\ SetTypes
  BY DEF Types
<1>1. CASE /\ UNCHANGED <<curve, commanded, relinquished, verify, reset, promised>>
           /\ task'.noted \subseteq task.noted
  BY <1>1 DEF PromiseInv, Verifying, Driven
<1>2. ASSUME NEW f \in Fans, HandsBack(f),
             UNCHANGED <<relinquished, verify, reset, promised>>, task'.noted \subseteq task.noted
      PROVE  PromiseInv'
  <2>1. \A g \in promised : ~(curve'[g] >= 0) /\ commanded'[g] = None
    BY <1>0, <1>2, GoesBack DEF PromiseInv, Driven, SetTypes, FirmwareAuto
  <2>2. QED
    BY <1>2, <2>1 DEF PromiseInv, Verifying, Driven
<1>3. CASE ByEngine
  <2>1. UNCHANGED <<relinquished, verify, reset, promised>>
    BY <1>3 DEF ByEngine, Aside, TickIssues, TickJoins, TaskNames, TaskWrites, TaskGivesBack,
         TaskReturns, TaskPanics, cacheVars
  <2>2. CASE TickIssues \/ TickJoins \/ TaskReturns \/ TaskPanics
    <3>1. UNCHANGED <<curve, commanded>>
      BY <2>2 DEF TickIssues, TickJoins, TaskReturns, TaskPanics, cardVars, cacheVars
    <3>2. TickJoins => task' = NoTask
      BY DEF TickJoins
    <3>3. task'.noted \subseteq task.noted
      BY <1>0, <2>2, <3>2, Blank, IssueTask, EndsTask
    <3>4. QED
      BY <1>1, <2>1, <3>1, <3>3
  <2>3. CASE TaskNames
    <3>1. UNCHANGED <<curve, commanded>>
      BY <2>3 DEF TaskNames, cacheVars
    <3>2. task'.noted \cap promised = {}
      BY <1>0, <2>3, NamesTask DEF PromiseInv
    <3>3. QED
      BY <2>1, <3>1, <3>2 DEF PromiseInv, Verifying, Driven
  <2>4. CASE TaskWrites
    <3>1. PICK f \in task.noted :
                    \/ /\ curve' = [curve EXCEPT ![f] = task.pct[f]]
                       /\ commanded' = [commanded EXCEPT ![f] = task.pct[f]]
                    \/ UNCHANGED <<curve, commanded>>
      BY <1>0, <2>4, WritesTask
    <3>2. f \notin promised /\ promised \subseteq Fans
      BY <1>0 DEF PromiseInv, SetTypes
    <3>3. \A g \in promised : curve'[g] = curve[g] /\ commanded'[g] = commanded[g]
      BY <1>0, <3>1, <3>2 DEF CardTypes, Commands
    <3>4. task'.noted = {}
      BY <1>0, <2>4, WritesTask
    <3>5. QED
      BY <2>1, <3>3, <3>4 DEF PromiseInv, Verifying, Driven
  <2>5. CASE TaskGivesBack
    <3>1. task'.noted \subseteq task.noted
      BY <1>0, <2>5, GivesBackTask
    <3>2. QED
      BY <1>0, <1>1, <1>2, <2>1, <2>5, <3>1, GivesBackTask
  <2>6. QED
    BY SMTT(30), ZenonT(30), <1>3, <2>2, <2>3, <2>4, <2>5 DEF ByEngine
<1>4. CASE Activate
  <2>1. UNCHANGED <<curve, commanded, task, verify, reset>>
    BY <1>4 DEF Activate, engineVars
  <2>2. UNCHANGED <<relinquished, promised>> \/ promised' = {}
    BY <1>4 DEF Activate
  <2>3. CASE promised' = {}
    BY <2>3 DEF PromiseInv
  <2>4. QED
    BY <1>1, <2>1, <2>2, <2>3
<1>5. CASE ByHandler
  <2>1. task' = task
    BY <1>5 DEF ByHandler, ResetClaims, ResetWrites, VerifyClaims, VerifyDropped, VerifyLocks,
         VerifyNames, VerifyTests, VerifySettles, VerifyRestores, engineVars
  <2>2. CASE ResetClaims
    <3>1. UNCHANGED <<curve, commanded, verify, promised>>
      BY <2>2 DEF ResetClaims
    <3>2. reset'.claimed => reset'.fans \cap promised = {}
      BY <2>2, ClaimsReset DEF PromiseInv
    <3>3. relinquished \subseteq relinquished'
      BY <2>2, ClaimsReset
    <3>4. QED
      BY <2>1, <3>1, <3>2, <3>3 DEF PromiseInv, Verifying, Driven
  <2>3. CASE ResetWrites
    <3>1. verify' = verify /\ lock = "reset" /\ reset' = NoReset
      BY <2>3 DEF ResetWrites
    <3>2. task.noted = {} /\ ~Verifying
      BY <3>1 DEF LockInv, TaskInv
    <3>3. PICK f \in reset.fans :
              /\ f \in Fans
              /\ \/ /\ HandsBack(f) /\ promised' = promised \cup ({f} \cap relinquished)
                    /\ UNCHANGED relinquished
                 \/ /\ relinquished' = IF reset.claimed THEN relinquished \ {f} ELSE relinquished
                    /\ UNCHANGED <<curve, commanded, promised>>
      BY <1>0, <2>3, WritesReset
    <3>4. CASE /\ HandsBack(f) /\ promised' = promised \cup ({f} \cap relinquished)
               /\ UNCHANGED relinquished
      <4>1. \A g \in promised' : ~(curve'[g] >= 0) /\ commanded'[g] = None
        BY <1>0, <3>3, <3>4, GoesBack DEF PromiseInv, Driven, SetTypes, FirmwareAuto
      <4>2. promised' \subseteq relinquished'
        BY <3>4 DEF PromiseInv
      <4>3. QED
        BY <2>1, <3>1, <3>2, <4>1, <4>2, Blank DEF PromiseInv, Verifying, Driven
    <3>5. CASE /\ relinquished' = IF reset.claimed THEN relinquished \ {f} ELSE relinquished
               /\ UNCHANGED <<curve, commanded, promised>>
      <4>1. promised \subseteq relinquished'
        BY <3>5 DEF PromiseInv
      <4>2. QED
        BY <2>1, <3>1, <3>2, <3>5, <4>1, Blank DEF PromiseInv, Verifying, Driven
    <3>6. QED
      BY <3>3, <3>4, <3>5
  <2>4. CASE VerifyClaims \/ VerifyDropped
    <3>1. UNCHANGED <<curve, commanded, relinquished, reset, promised>>
      BY <2>4 DEF VerifyClaims, VerifyDropped, cardVars
    <3>2. verify'.pc \in {"idle", "lock"}
      BY <2>4, Blank, ClaimsVerify DEF VerifyDropped
    <3>3. QED
      BY <2>1, <3>1, <3>2 DEF PromiseInv, Verifying, Driven
  <2>5. CASE VerifyLocks
    <3>1. UNCHANGED <<curve, commanded, relinquished, reset, promised>>
      BY <2>5 DEF VerifyLocks, cardVars, cacheVars
    <3>2. PICK f \in verify.fans : verify'.prior = commanded[f]
      BY <2>5, LocksVerify
    <3>3. verify'.pc = "name" /\ verify'.fans = verify.fans /\ verify.fans = {f}
      BY <2>5, LocksVerify DEF TaskInv
    <3>4. \A g \in verify'.fans \cap promised : verify'.prior = None
      BY <3>2, <3>3 DEF PromiseInv
    <3>5. QED
      BY <2>1, <3>1, <3>3, <3>4 DEF PromiseInv, Verifying, Driven
  <2>6. CASE VerifyNames \/ VerifySettles
    <3>1. UNCHANGED <<curve, commanded, relinquished, reset, promised>>
      BY <2>6 DEF VerifyNames, VerifySettles, cardVars, cacheVars
    <3>2. /\ verify'.fans = verify.fans /\ verify'.prior = verify.prior /\ Verifying
          /\ verify'.pc # "settle"
      BY <1>0, <2>6, GoesOnVerify DEF Verifying
    <3>3. QED
      BY <2>1, <3>1, <3>2 DEF PromiseInv, Verifying, Driven
  <2>7. CASE VerifyTests
    <3>1. UNCHANGED <<relinquished, reset>>
      BY <2>7 DEF VerifyTests
    <3>2. verify'.fans = verify.fans /\ verify'.prior = verify.prior /\ Verifying
      BY <1>0, <2>7, GoesOnVerify DEF Verifying
    <3>3. PICK f \in verify.fans :
              \/ /\ verify'.pc = "settle" /\ promised' = promised \ {f}
                 /\ \A g \in Fans : g # f => curve'[g] = curve[g]
                 /\ \A g \in Fans : g # f => commanded'[g] = commanded[g]
              \/ verify'.pc = "restore" /\ UNCHANGED <<curve, commanded, promised>>
      BY <1>0, <2>7, TestsVerify
    <3>4. verify.fans = {f} /\ promised \subseteq Fans
      BY <1>0, <3>2 DEF TaskInv, Verifying, SetTypes
    <3>5. \A g \in promised' : ~(curve'[g] >= 0) /\ commanded'[g] = None
      BY <3>3, <3>4 DEF PromiseInv, Driven
    <3>6. promised' \subseteq promised /\ (verify'.pc = "settle" => verify'.fans \cap promised' = {})
      BY <3>2, <3>3, <3>4
    <3>7. QED
      BY <2>1, <3>1, <3>2, <3>5, <3>6 DEF PromiseInv, Verifying, Driven
  <2>8. CASE VerifyRestores
    <3>1. UNCHANGED <<relinquished, reset, promised>>
      BY <2>8 DEF VerifyRestores
    <3>2. verify.pc = "restore" /\ verify'.pc = "idle"
      BY <1>0, <2>8, RestoresVerify, Blank
    <3>3. \A g \in promised : ~(curve'[g] >= 0) /\ commanded'[g] = None
      <4>1. PICK f \in verify.fans :
              /\ f \in Fans
              /\ \/ /\ verify.prior \in 1..100
                    /\ \A g \in Fans : g # f => curve'[g] = curve[g]
                    /\ \A g \in Fans : g # f => commanded'[g] = commanded[g]
                 \/ HandsBack(f)
                 \/ UNCHANGED <<curve, commanded>>
        BY <1>0, <2>8, RestoresVerify
      <4>2. CASE /\ verify.prior \in 1..100
                 /\ \A g \in Fans : g # f => curve'[g] = curve[g]
                 /\ \A g \in Fans : g # f => commanded'[g] = commanded[g]
        <5>1. f \notin promised
          BY <3>2, <4>2 DEF PromiseInv, Verifying, None
        <5>2. QED
          BY <1>0, <4>2, <5>1 DEF PromiseInv, Driven, SetTypes
      <4>3. CASE HandsBack(f)
        BY <1>0, <4>1, <4>3, GoesBack DEF PromiseInv, Driven, SetTypes, FirmwareAuto
      <4>4. CASE UNCHANGED <<curve, commanded>>
        BY <4>4 DEF PromiseInv, Driven
      <4>5. QED
        BY <4>1, <4>2, <4>3, <4>4
    <3>4. QED
      BY <2>1, <3>1, <3>2, <3>3 DEF PromiseInv, Verifying, Driven
  <2>9. QED
    BY <1>5, <2>2, <2>3, <2>4, <2>5, <2>6, <2>7, <2>8 DEF ByHandler
<1>6. CASE Quiet
  BY <1>1, <1>6 DEF Quiet, Aside
<1>7. ASSUME UNCHANGED <<commanded, relinquished, verify, reset, promised, task>>,
             NEW f \in Fans, NEW v \in {FirmwareAuto, Foreign}, curve' = [curve EXCEPT ![f] = v]
      PROVE  PromiseInv'
  <2>1. \A g \in promised : ~(curve'[g] >= 0)
    BY <1>0, <1>7 DEF PromiseInv, Driven, SetTypes, CardTypes, FirmwareAuto, Foreign
  <2>2. QED
    BY <1>7, <2>1 DEF PromiseInv, Verifying, Driven
<1>8. CASE OtherTool
  <2>1. UNCHANGED <<commanded, relinquished, verify, reset, promised, task>>
    BY <1>8 DEF OtherTool, backendVars, cacheVars, engineVars, handlerVars
  <2>2. \E f \in Fans : curve' = [curve EXCEPT ![f] = Foreign]
    BY <1>8 DEF OtherTool
  <2>3. QED
    BY <1>7, <2>1, <2>2
<1>9. CASE Stopping
  <2>1. CASE Gone
    <3>1. promised' = {} /\ task' = NoTask
      BY <2>1 DEF Gone
    <3>2. QED
      BY <3>1 DEF PromiseInv
  <2>2. CASE ~Gone
    <3>1. UNCHANGED <<commanded, relinquished, verify, reset, promised, task>>
      BY <1>9, <2>2 DEF Stopping, StopBegins, reset_driven_gpu_fans, RestoreCard, ReplayCard,
           Starts, backendVars, cacheVars, engineVars, handlerVars
    <3>2. curve' = curve \/ \E f \in todo : curve' = [curve EXCEPT ![f] = FirmwareAuto]
      BY <1>9, <2>2 DEF Stopping, StopBegins, reset_driven_gpu_fans, RestoreCard, ReplayCard,
           Starts, backendVars
    <3>3. QED
      BY <1>0, <1>1, <1>7, <3>1, <3>2 DEF SetTypes
  <2>3. QED
    BY <2>1, <2>2
<1>10. QED
  BY <1>3, <1>4, <1>5, <1>6, <1>8, <1>9, Steps

----------------------------------------------------------------------------
(* A test duty holds. *)
LEMMA TestStep ==
    Types /\ LockInv /\ TaskInv /\ TestHolds /\ [Next]_vars => TestHolds'
<1> SUFFICES ASSUME Types, LockInv, TaskInv, TestHolds, [Next]_vars,
                    verify'.pc = "settle", phase' \in {"running", "stopping"},
                    NEW f \in verify'.fans
             PROVE  curve'[f] \in {75, 100}
  BY DEF TestHolds
<1>0. CardTypes /\ EngineTypes /\ HandlerTypes
  BY DEF Types
<1>1. CASE VerifyTests
  <2>1. verify'.fans = verify.fans /\ verify.pc = "test"
    BY <1>0, <1>1, GoesOnVerify
  <2>2. \E g \in verify.fans : curve'[g] \in {75, 100}
    BY <1>0, <1>1, TestsVerify
  <2>3. QED
    BY <2>1, <2>2 DEF TaskInv
<1>2. CASE verify.pc = "settle" /\ verify'.fans = verify.fans
             /\ phase \in {"running", "stopping"} /\ curve' = curve
  BY <1>2 DEF TestHolds
<1>3. CASE verify' = verify
  <2>1. lock = "verify" /\ task.st # "run" /\ phase # "down"
    BY <1>3 DEF LockInv, Verifying
  <2>2. CASE Quiet
    BY <1>2, <1>3, <2>2 DEF Quiet, Aside
  <2>3. CASE ByEngine
    <3>1. TickIssues \/ TickJoins
      BY <1>0, <2>1, <2>3, NamesTask, WritesTask, GivesBackTask, EndsTask DEF ByEngine
    <3>2. QED
      BY <1>2, <1>3, <2>3, <3>1 DEF TickIssues, TickJoins, cardVars, ByEngine, Aside
  <2>4. CASE Activate
    BY <1>2, <1>3, <2>4 DEF Activate, stopVars
  <2>5. CASE ByHandler
    <3>1. ~ResetClaims /\ ~ResetWrites /\ ~VerifyLocks
      BY <2>1 DEF ResetClaims, ResetWrites, VerifyLocks
    <3>2. ~VerifyDropped /\ ~VerifyRestores
      BY <1>3, Blank DEF VerifyDropped, VerifyRestores
    <3>3. ~VerifyNames /\ ~VerifySettles /\ ~VerifyClaims
      BY <1>0, <1>3, GoesOnVerify, ClaimsVerify
    <3>4. QED
      BY <1>1, <2>5, <3>1, <3>2, <3>3 DEF ByHandler
  <2>6. CASE OtherTool
    <3>1. phase' = phase
      BY <2>6 DEF OtherTool, stopVars
    <3>2. PICK g \in Fans : curve[g] = FirmwareAuto /\ curve' = [curve EXCEPT ![g] = Foreign]
      BY <2>6 DEF OtherTool
    <3>3. curve[f] \in {75, 100} /\ f \in Fans
      BY <1>0, <1>3, <3>1 DEF TestHolds, HandlerTypes, Verifies
    <3>4. QED
      BY <1>0, <3>2, <3>3 DEF CardTypes, FirmwareAuto
  <2>7. CASE Stopping
    <3>1. StopBegins
      BY <2>1, <2>7 DEF Stopping, StopBegins, reset_driven_gpu_fans, RestoreCard, Gone,
           ReplayCard, Starts
    <3>2. QED
      BY <1>2, <1>3, <3>1 DEF StopBegins
  <2>8. QED
    BY <2>2, <2>3, <2>4, <2>5, <2>6, <2>7, Steps
<1>4. CASE verify' # verify /\ ~VerifyTests
  <2>1. ~Quiet /\ ~ByEngine /\ ~Activate /\ ~OtherTool
    BY <1>4 DEF Quiet, ByEngine, Aside, Activate, OtherTool, handlerVars
  <2>2. ~Stopping
    BY <1>4, Blank DEF Stopping, StopBegins, reset_driven_gpu_fans, RestoreCard, Gone,
         ReplayCard, Starts, handlerVars
  <2>3. ~ByHandler
    <3>1. ~ResetClaims /\ ~ResetWrites
      BY <1>4 DEF ResetClaims, ResetWrites
    <3>2. ~VerifyDropped /\ ~VerifyRestores
      BY Blank DEF VerifyDropped, VerifyRestores
    <3>3. ~VerifyNames /\ ~VerifySettles /\ ~VerifyClaims /\ ~VerifyLocks
      BY <1>0, GoesOnVerify, ClaimsVerify, LocksVerify
    <3>4. QED
      BY <1>4, <3>1, <3>2, <3>3 DEF ByHandler
  <2>4. QED
    BY <2>1, <2>2, <2>3, Steps
<1>5. QED
  BY <1>1, <1>3, <1>4

----------------------------------------------------------------------------
(* Who puts a curve on a card, or takes one away. *)
LEMMA Writers ==
    ASSUME Types, TaskInv, [Next]_vars, NEW f \in Fans, curve'[f] # curve[f]
    PROVE  \/ f \in task.noted
           \/ f \in taken /\ curve'[f] = FirmwareAuto
           \/ f \in reset.fans /\ curve'[f] = FirmwareAuto
           \/ verify.pc \in {"test", "restore"} /\ f \in verify.fans
           \/ curve'[f] = Foreign
           \/ phase \in {"restore", "down"} /\ f \in todo /\ curve'[f] = FirmwareAuto
<1>0. CardTypes /\ EngineTypes /\ HandlerTypes
  BY DEF Types
<1>1. ASSUME NEW g \in Fans, HandsBack(g) PROVE g = f /\ curve'[f] = FirmwareAuto
  BY <1>0, <1>1, GoesBack
<1>2. ASSUME NEW g \in Fans, NEW c, curve' = [curve EXCEPT ![g] = c] PROVE g = f /\ curve'[f] = c
  BY <1>0, <1>2 DEF CardTypes
<1>3. CASE Quiet
  BY <1>3 DEF Quiet
<1>4. CASE ByEngine
  <2>1. ~TickIssues /\ ~TickJoins /\ ~TaskReturns /\ ~TaskPanics /\ ~TaskNames
    BY DEF TickIssues, TickJoins, TaskReturns, TaskPanics, TaskNames, cardVars
  <2>2. CASE TaskWrites
    <3>1. PICK g \in task.noted : \/ curve' = [curve EXCEPT ![g] = task.pct[g]]
                                  \/ curve' = curve
      BY <1>0, <2>2, WritesTask
    <3>2. g \in Fans
      BY <1>0 DEF EngineTypes, Tasks
    <3>3. QED
      BY <1>2, <3>1, <3>2
  <2>3. CASE TaskGivesBack
    BY <1>0, <1>1, <2>3, GivesBackTask
  <2>4. QED
    BY <1>4, <2>1, <2>2, <2>3 DEF ByEngine
<1>5. CASE ByHandler
  <2>1. ~ResetClaims /\ ~VerifyClaims /\ ~VerifyDropped /\ ~VerifyLocks /\ ~VerifyNames
          /\ ~VerifySettles
    BY DEF ResetClaims, VerifyClaims, VerifyDropped, VerifyLocks, VerifyNames, VerifySettles,
           cardVars
  <2>2. CASE ResetWrites
    BY <1>0, <1>1, <2>2, WritesReset
  <2>3. CASE VerifyTests
    BY <1>0, <2>3, TestsVerify DEF VerifyTests
  <2>4. CASE VerifyRestores
    BY <1>0, <1>1, <2>4, RestoresVerify
  <2>5. QED
    BY <1>5, <2>1, <2>2, <2>3, <2>4 DEF ByHandler
<1>6. CASE OtherTool
  <2>1. PICK g \in Fans : curve' = [curve EXCEPT ![g] = Foreign]
    BY <1>6 DEF OtherTool
  <2>2. QED
    BY <1>2, <2>1
<1>7. CASE RestoreCard \/ ReplayCard
  <2>1. phase \in {"restore", "down"}
    BY <1>7 DEF RestoreCard, ReplayCard
  <2>2. PICK g \in todo : curve' = [curve EXCEPT ![g] = FirmwareAuto]
    BY <1>7 DEF RestoreCard, ReplayCard
  <2>3. g \in Fans
    BY DEF Types, SetTypes
  <2>4. QED
    BY <1>2, <2>1, <2>2, <2>3
<1>8. ~Activate /\ ~StopBegins /\ ~reset_driven_gpu_fans /\ ~Gone /\ ~Starts
  BY DEF Activate, StopBegins, reset_driven_gpu_fans, Gone, Starts
<1>9. QED
  BY <1>3, <1>4, <1>5, <1>6, <1>7, <1>8, Steps DEF Stopping

----------------------------------------------------------------------------
(* The theorems. *)
LEMMA GpuInit == Init => GpuInv
<1> SUFFICES ASSUME Init PROVE GpuInv
  OBVIOUS
<1>1. /\ curve \in [Fans -> {FirmwareAuto}] /\ taken = {} /\ record = {} /\ recordBad = FALSE
      /\ commanded = NoDuties /\ profile = NoDuties /\ relinquished = {} /\ touched = {}
      /\ tick = NoTick /\ task = NoTask /\ lock = "free"
      /\ phase = "running" /\ todo = {} /\ undone = {}
      /\ verify = NoVerify /\ reset = NoReset /\ promised = {}
  BY DEF Init, CardsInit, BackendInit
<1>2. CardTypes /\ SetTypes
  BY <1>1, Blank DEF CardTypes, SetTypes
<1>3. EngineTypes /\ HandlerTypes
  BY <1>1, Blank DEF EngineTypes, HandlerTypes, NoDuties
<1>4. LockInv /\ TaskInv
  BY <1>1, Blank DEF LockInv, TaskInv, Verifying
<1>5. ListInv /\ ReplayInv /\ RestoreInv
  BY <1>1, Blank DEF ListInv, ReplayInv, RestoreInv
<1>6. PromiseInv /\ TestHolds
  BY <1>1, Blank DEF PromiseInv, TestHolds, Verifying
<1>7. QED
  BY <1>2, <1>3, <1>4, <1>5, <1>6 DEF GpuInv, Types

LEMMA GpuStep == GpuInv /\ [Next]_vars => GpuInv'
  BY TypesStep, LockStep, TaskStepInv, ListStep, ReplayStep, RestoreStep, PromiseStep, TestStep
     DEF GpuInv

LEMMA GpuHolds == Spec => []GpuInv
<1>1. Init => GpuInv
  BY GpuInit
<1>2. GpuInv /\ [Next]_vars => GpuInv'
  BY GpuStep
<1>3. QED
  BY <1>1, <1>2, PTL DEF Spec

(* The types of the curves, the lists and the caches hold, whatever the    *)
(* engine, the requests, the stop and ExecStopPost do to the cards.        *)
THEOREM GpuTypes == Spec => []TypeOK
<1>1. GpuInv => TypeOK
  BY DEF GpuInv, Types, CardTypes, EngineTypes, SetTypes, TypeOK, Commands, Percents
<1>2. QED
  BY <1>1, GpuHolds, PTL

(* A card with a curve of the daemon's is on the hand-back list and in its *)
(* record, unless the disk refused the record (note_take, persist_pmfw).   *)
THEOREM DrivenIsListed == Spec => []CurveIsListed
<1>1. GpuInv => CurveIsListed
  BY DEF GpuInv, ListInv, CurveIsListed, Up
<1>2. QED
  BY <1>1, GpuHolds, PTL

(* Once ExecStopPost has gone through the record, every card the daemon    *)
(* had written is on firmware auto, or it could not be reset.              *)
THEOREM StopHandsBack == Spec => []StoppedIsAuto
<1>1. GpuInv => StoppedIsAuto
  BY DEF GpuInv, ReplayInv, StoppedIsAuto
<1>2. QED
  BY <1>1, GpuHolds, PTL

(* A card whose reset was answered stays on auto until an activation or a  *)
(* verify takes it, whatever the engine had decided before the reset.      *)
THEOREM ResetLasts == Spec => []ResetIsDurable
<1>1. GpuInv => ResetIsDurable
  BY DEF GpuInv, PromiseInv, ResetIsDurable
<1>2. QED
  BY <1>1, GpuHolds, PTL

(* Between a verify's test and its restore the card has the test's duty.   *)
THEOREM TestReadsItsOwn == Spec => []TestHolds
<1>1. GpuInv => TestHolds
  BY DEF GpuInv
<1>2. QED
  BY <1>1, GpuHolds, PTL

(* Every duty is written to a card that the hand-back list and its record  *)
(* already name (note_take before every write).                            *)
THEOREM NamedBeforeWritten == Spec => WriteIsListed
<1> DEFINE A == \A f \in Fans : curve'[f] # curve[f] /\ curve'[f] >= 0 =>
                   f \in taken /\ (f \in record \/ recordBad)
<1>1. GpuInv /\ [Next]_vars => [A]_vars
  <2> SUFFICES ASSUME GpuInv, [Next]_vars, NEW f \in Fans,
                      curve'[f] # curve[f], curve'[f] >= 0
               PROVE  f \in taken /\ (f \in record \/ recordBad)
    OBVIOUS
  <2>1. curve'[f] # FirmwareAuto /\ curve'[f] # Foreign
    BY DEF FirmwareAuto, Foreign
  <2>2. f \in task.noted \/ (verify.pc \in {"test", "restore"} /\ f \in verify.fans)
    BY <2>1, Writers DEF GpuInv
  <2>3. f \in taken
    BY <2>2 DEF GpuInv, ListInv
  <2>4. phase # "down"
    BY <2>3 DEF GpuInv, ListInv
  <2>5. QED
    BY <2>3, <2>4 DEF GpuInv, ListInv
<1>2. QED
  BY <1>1, GpuHolds, PTL DEF Spec, WriteIsListed

(* A curve of another tool's goes only with a reset a client asked for, or *)
(* on a card the daemon is driving, or for a record that could not be      *)
(* written: the stop and ExecStopPost reset no card on an earlier list.    *)
THEOREM OthersLeftAlone == Spec => LeavesOthersAlone
<1> DEFINE A == \A f \in Fans : curve[f] = Foreign /\ curve'[f] # Foreign =>
                   \/ f \in touched \/ f \in reset.fans
                   \/ phase = "down" /\ f \in undone
<1>1. GpuInv /\ [Next]_vars => [A]_vars
  <2> SUFFICES ASSUME GpuInv, [Next]_vars, NEW f \in Fans,
                      curve[f] = Foreign, curve'[f] # Foreign, f \notin reset.fans
               PROVE  f \in touched \/ (phase = "down" /\ f \in undone)
    OBVIOUS
  <2>1. \/ f \in task.noted
        \/ f \in taken
        \/ verify.pc \in {"test", "restore"} /\ f \in verify.fans
        \/ phase \in {"restore", "down"} /\ f \in todo
    BY Writers DEF GpuInv
  <2>2. CASE f \in taken
    <3>1. phase # "down"
      BY <2>2 DEF GpuInv, ListInv
    <3>2. QED
      BY <2>2, <3>1 DEF GpuInv, ListInv
  <2>3. CASE f \in task.noted \/ (verify.pc \in {"test", "restore"} /\ f \in verify.fans)
    <3>1. f \in taken
      BY <2>3 DEF GpuInv, ListInv
    <3>2. QED
      BY <2>2, <3>1
  <2>4. CASE phase = "restore" /\ f \in todo
    BY <2>4 DEF GpuInv, RestoreInv
  <2>5. CASE phase = "down" /\ f \in todo
    BY <2>5 DEF GpuInv, ReplayInv
  <2>6. QED
    BY <2>1, <2>2, <2>3, <2>4, <2>5
<1>2. QED
  BY <1>1, GpuHolds, PTL DEF Spec, LeavesOthersAlone
=============================================================================
