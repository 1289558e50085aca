-------------------------------- MODULE Watchdog --------------------------------
(***************************************************************************)
(* systemd's watchdog over the daemon (sd_notify.rs): the ping of every    *)
(* completed engine tick, the disarm a stop sends and sends again, and the *)
(* widening around a system sleep, on the sleep hook's two signals.        *)
(*                                                                         *)
(* Time is counted in units of the watchdog: a healthy engine completes a  *)
(* tick in every unit it is not frozen in.  A datagram reaches systemd or  *)
(* fails; each failure, a hook that stops waiting for its answer, and a    *)
(* wedged engine are events the environment has a budget of.               *)
(***************************************************************************)
EXTENDS Naturals, Sequences

CONSTANTS
    Configured,   \* WatchdogSec
    Wide,         \* SLEEP_WATCHDOG, which is the fallback's delay as well
    Freeze,       \* the longest a suspend and resume freeze user space
    ResetAfter,   \* RESTART_RESET_AFTER_TICKS
    Env, EnvBudget

ASSUME TimesAssumption ==
    /\ Configured \in Nat \ {0} /\ Freeze \in Nat \ {0} /\ ResetAfter \in Nat \ {0}
    /\ Wide \in Nat /\ Wide > Freeze /\ Wide > Configured /\ EnvBudget \in Nat

VARIABLES
    stopping,     \* Notifier::stopping
    disarmed,     \* Notifier::disarmed
    ticks,        \* Notifier::ticks, counted up to ResetAfter
    resetSent,    \* Notifier::restart_reset_sent
    narrowIn,     \* watch_sleep's narrow_at: units left, Never when there is none
    signals,      \* SIGUSR1 ("pre") and SIGUSR2 ("post") pending
    queue,        \* the transitions on their way to watch_sleep
    ack,          \* sleep-hook.ack
    host,         \* "awake", "pre" (the hook waits), "ready" to sleep, "thawed"
    usec,         \* the watchdog systemd applies, Never when it is disarmed
    left,         \* units until it expires
    ticked,       \* the engine has completed a tick in this unit
    resets,       \* RESTART_RESET=1 messages systemd has read
    killed,       \* the watchdog expired
    excused,      \* history: something was lost, or a hook gave up waiting
    step,         \* where the stop is: 0 running, 1 server, 2 drained, 3 restored
    budget

notifierVars == <<stopping, disarmed, ticks, resetSent>>
sleepVars == <<narrowIn, signals, queue, ack, host>>
systemdVars == <<usec, left, resets, killed>>
vars == <<notifierVars, sleepVars, systemdVars, ticked, excused, step, budget>>

Never == 1000
NoAck == <<>>
Event(e) == e \in Env /\ budget > 0 /\ budget' = budget - 1
Less(n, k) == IF n = Never THEN Never ELSE IF n < k THEN 0 ELSE n - k

(* A datagram is read, and what it says applied, or is not sent at all. *)
Lost == Event("lost") /\ excused' = TRUE
Sent == UNCHANGED <<budget, excused>>
Running == ~killed /\ step < 3

----------------------------------------------------------------------------
(* TickCompletion::drop: the ping, with the request to forget the restarts *)
(* once the daemon has been healthy for long enough.                       *)
reset_due == ticks' = ResetAfter /\ ~resetSent

watchdog_tick ==
    /\ ticks' = IF ticks < ResetAfter THEN ticks + 1 ELSE ticks
    /\ \/ /\ Sent
          /\ left' = usec
          /\ resetSent' = (resetSent \/ reset_due)
          /\ resets' = IF reset_due /\ resets < 2 THEN resets + 1 ELSE resets
       \/ Lost /\ UNCHANGED <<left, resetSent, resets>>

(* The engine ticks until the task drains have stopped it; a stop under    *)
(* way makes its ticks silent.                                             *)
EngineTicks ==
    /\ Running /\ step < 2 /\ ~ticked
    /\ ticked' = TRUE
    /\ IF stopping THEN UNCHANGED <<ticks, resetSent, left, resets, budget, excused>>
       ELSE watchdog_tick
    /\ UNCHANGED <<stopping, disarmed, sleepVars, usec, killed, step>>

(* A tick that does not end. *)
EngineWedges ==
    /\ Running /\ ~ticked /\ Event("wedge")
    /\ ticked' = TRUE /\ excused' = TRUE
    /\ UNCHANGED <<notifierVars, sleepVars, systemdVars, step>>

----------------------------------------------------------------------------
(* systemd applies a WATCHDOG_USEC= from now on. *)
Override(n) == usec' = n /\ left' = n

(* Notifier::stopping and resend_disarm_if_lost: STOPPING=1 and the disarm. *)
SendStop ==
    \/ Sent /\ disarmed' = TRUE /\ Override(Never)
    \/ Lost /\ UNCHANGED <<disarmed, usec, left>>

Stopping ==
    /\ Running /\ step = 0 /\ Event("stop") /\ stopping' = TRUE /\ step' = 1
    /\ disarmed' = TRUE /\ Override(Never) /\ UNCHANGED excused
    /\ UNCHANGED <<ticks, resetSent, sleepVars, resets, killed, ticked>>

StoppingLost ==
    /\ Running /\ step = 0 /\ {"stop", "lost"} \subseteq Env /\ budget > 1
    /\ stopping' = TRUE /\ step' = 1 /\ budget' = budget - 2 /\ excused' = TRUE
    /\ UNCHANGED <<disarmed, ticks, resetSent, sleepVars, systemdVars, ticked>>

resend_disarm_if_lost ==
    /\ Running /\ step \in {1, 2}
    /\ step' = step + 1
    /\ IF disarmed THEN UNCHANGED <<disarmed, usec, left, budget, excused>> ELSE SendStop
    /\ UNCHANGED <<stopping, ticks, resetSent, sleepVars, resets, killed, ticked>>

----------------------------------------------------------------------------
(* sleep_transition: nothing once a stop has begun. *)
Entering == "pre"
Resumed == "post"
Widened(t) == IF t = Entering THEN Wide ELSE Configured

(* Mutant of sleep_transition: a stop does not end it. *)
sleep_transition_always(t, outcome) ==
    \/ outcome = "sent" /\ Sent /\ Override(Widened(t))
    \/ outcome = "failed" /\ Lost /\ UNCHANGED <<usec, left>>

sleep_transition(t, outcome) ==
    \/ stopping /\ outcome = "skipped" /\ Sent /\ UNCHANGED <<usec, left>>
    \/ ~stopping /\ outcome = "sent" /\ Sent /\ Override(Widened(t))
    \/ ~stopping /\ outcome = "failed" /\ Lost /\ UNCHANGED <<usec, left>>

(* Mutant of Narrow: a restore that failed is not tried again. *)
Narrow_once(t, outcome) ==
    IF t = Entering /\ outcome = "sent" THEN Wide
    ELSE IF t = Entering /\ outcome = "failed" THEN narrowIn
    ELSE Never

(* watch_sleep's next deadline. *)
Narrow(t, outcome) ==
    IF t = Entering /\ outcome = "sent" THEN Wide
    ELSE IF t = Entering /\ outcome = "failed" THEN narrowIn
    ELSE IF outcome = "failed" THEN 1 ELSE Never

Answer(t, outcome) ==
    /\ sleep_transition(t, outcome)
    /\ narrowIn' = Narrow(t, outcome)
    /\ ack' = <<t, outcome>>

(* watch_sleep: the next transition, or the deadline as if it were resumed. *)
watch_sleep ==
    /\ Running
    /\ \E outcome \in {"sent", "skipped", "failed"} :
         \/ /\ queue # <<>>
            /\ queue' = Tail(queue) /\ Answer(Head(queue), outcome)
         \/ /\ narrowIn = 0
            /\ UNCHANGED queue /\ Answer(Resumed, outcome)
    /\ UNCHANGED <<notifierVars, signals, host, resets, killed, ticked, step>>

(* Mutant of forward_sleep_signals: the sleep goes first. *)
forward_sleep_signals_sleep_first ==
    /\ Running /\ signals # {} /\ Len(queue) < 4
    /\ LET t == IF Entering \in signals THEN Entering ELSE Resumed
       IN  queue' = Append(queue, t) /\ signals' = signals \ {t}
    /\ UNCHANGED <<notifierVars, narrowIn, ack, host, systemdVars, ticked, excused,
                   step, budget>>

(* The two signals keep no order between them: the resume goes first. *)
forward_sleep_signals ==
    /\ Running /\ signals # {} /\ Len(queue) < 4
    /\ LET t == IF Resumed \in signals THEN Resumed ELSE Entering
       IN  queue' = Append(queue, t) /\ signals' = signals \ {t}
    /\ UNCHANGED <<notifierVars, narrowIn, ack, host, systemdVars, ticked, excused,
                   step, budget>>

----------------------------------------------------------------------------
(* control-ofc-sleep-hook.sh: the old answer goes, the signal is sent, and *)
(* a pre waits for its answer, for only so long.                           *)
HookPre ==
    /\ Running /\ host = "awake" /\ Event("sleep")
    /\ host' = "pre" /\ ack' = NoAck /\ signals' = signals \cup {Entering}
    /\ UNCHANGED <<notifierVars, narrowIn, queue, systemdVars, ticked, excused, step>>

Answered == host = "pre" /\ ack # NoAck /\ ack[1] = Entering

HookReads ==
    /\ Running /\ Answered
    /\ host' = "ready"
    /\ excused' = (excused \/ ack[2] = "failed")
    /\ UNCHANGED <<notifierVars, narrowIn, signals, queue, ack, systemdVars, ticked,
                   step, budget>>

HookGivesUp ==
    /\ Running /\ host = "pre" /\ Event("unanswered")
    /\ host' = "ready" /\ excused' = TRUE
    /\ UNCHANGED <<notifierVars, narrowIn, signals, queue, ack, systemdVars, ticked, step>>

(* Time passes, for the daemon and for systemd's clock alike.  The hook's  *)
(* next look at the answer (50 ms) and what is left between its end and    *)
(* the freeze take none of it, but the daemon's tasks may run in them.     *)
Passes(k) ==
    /\ left' = IF left = Never THEN Never ELSE Less(left, k)
    /\ killed' = (left # Never /\ left < k)
    /\ narrowIn' = Less(narrowIn, k)

Unit ==
    /\ Running /\ host # "ready" /\ ~Answered /\ (ticked \/ step = 2) /\ narrowIn # 0
    /\ Passes(1) /\ ticked' = FALSE
    /\ UNCHANGED <<notifierVars, signals, queue, ack, host, usec, resets, excused, step, budget>>

(* The devices suspend and resume, and nothing in user space runs. *)
Sleeps ==
    /\ Running /\ host = "ready"
    /\ \E k \in 1..Freeze : Passes(k)
    /\ host' = "thawed" /\ ticked' = FALSE
    /\ UNCHANGED <<notifierVars, signals, queue, ack, usec, resets, excused, step, budget>>

(* The post hook, which may be missing. *)
HookPost ==
    /\ Running /\ host = "thawed"
    /\ host' = "awake"
    /\ \/ /\ ack' = NoAck /\ signals' = signals \cup {Resumed} /\ UNCHANGED budget
       \/ Event("no_post") /\ UNCHANGED <<ack, signals>>
    /\ UNCHANGED <<notifierVars, narrowIn, queue, systemdVars, ticked, excused, step>>

----------------------------------------------------------------------------
Init ==
    /\ stopping = FALSE /\ disarmed = FALSE /\ ticks = 0 /\ resetSent = FALSE
    /\ narrowIn = Never /\ signals = {} /\ queue = <<>> /\ ack = NoAck /\ host = "awake"
    /\ usec = Configured /\ left = Configured /\ resets = 0 /\ killed = FALSE
    /\ ticked = FALSE /\ excused = FALSE /\ step = 0 /\ budget = EnvBudget

Next ==
    \/ EngineTicks \/ EngineWedges
    \/ Stopping \/ StoppingLost \/ resend_disarm_if_lost
    \/ watch_sleep \/ forward_sleep_signals
    \/ HookPre \/ HookReads \/ HookGivesUp \/ Sleeps \/ HookPost
    \/ Unit

Spec == Init /\ [][Next]_vars

(* The runtime runs the daemon's tasks; the host ends a sleep; time passes. *)
FairSpec ==
    /\ Spec
    /\ WF_vars(EngineTicks) /\ WF_vars(watch_sleep) /\ WF_vars(forward_sleep_signals)
    /\ WF_vars(HookReads) /\ WF_vars(Sleeps) /\ WF_vars(HookPost) /\ WF_vars(Unit)

----------------------------------------------------------------------------
(* The types of the notifier, the sleep watch and systemd's watchdog. *)
TypeOK ==
    /\ narrowIn \in 0..Wide \cup {Never} /\ left \in 0..Wide \cup {Never}
    /\ usec \in {Configured, Wide, Never}
    /\ signals \subseteq {Entering, Resumed} /\ Len(queue) <= 4
    /\ resets <= 1

(* The watchdog never kills a daemon whose engine ticks, across sleeps,    *)
(* lost resumes, the narrowing of a sleep the next one overtakes, and the  *)
(* whole of a stop, unless a message was lost or the hook did not wait.    *)
NotKilled == killed => excused

(* A disarm that systemd has read lasts: neither a tick that ends after    *)
(* the stop began nor the sleep watch arms the watchdog again.             *)
DisarmLasts == disarmed => usec = Never

(* A watchdog that was widened for a sleep is narrowed again, though the   *)
(* resume's signal is lost or the message that narrows it is.              *)
NarrowedAgain == []<>(usec # Wide \/ stopping \/ killed)

(* A daemon that stays healthy gets its restarts forgotten: the request is *)
(* sent again until systemd has it.                                        *)
HealthyIsReset == <>[](resets = 1 \/ stopping \/ killed)

(* A stop whose disarm was lost has it sent again before the drains and    *)
(* before the restore: each of the two ends with systemd told, or loses    *)
(* its message as well (TS-ap, TS-ay).                                     *)
DisarmIsResent ==
    [][step > 0 /\ step' > step => disarmed' \/ budget' # budget]_vars

(* What a lost message should have told systemd is sent again: a widening  *)
(* is taken back and the restarts are forgotten in the end, and a stop's   *)
(* disarm is told unless each of its three attempts is lost.               *)
LostIsSentAgain == NarrowedAgain /\ HealthyIsReset /\ DisarmIsResent
=============================================================================
