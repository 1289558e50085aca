---------------------------- MODULE WatchdogProofs ----------------------------
(***************************************************************************)
(* What is proved of Watchdog, for every watchdog, freeze, widening and    *)
(* set of events: its types, that a disarm lasts, and that a healthy       *)
(* daemon is not killed.                                                   *)
(***************************************************************************)
EXTENDS Watchdog, TLAPS

Transitions == {"pre", "post"}
Outcomes == {"sent", "skipped", "failed"}

(* What TypeOK leaves out, and what its bounds need. *)
Flags ==
    /\ stopping \in BOOLEAN /\ disarmed \in BOOLEAN /\ resetSent \in BOOLEAN
    /\ killed \in BOOLEAN /\ ticked \in BOOLEAN /\ excused \in BOOLEAN
    /\ host \in {"awake", "pre", "ready", "thawed"}

Times ==
    /\ ticks \in Nat /\ budget \in Nat /\ step \in 0..3
    /\ narrowIn \in 0..Wide \cup {Never} /\ left \in 0..Wide \cup {Never}
    /\ usec \in {Configured, Wide, Never}

Mail ==
    /\ signals \subseteq Transitions /\ queue \in Seq(Transitions) /\ Len(queue) <= 4
    /\ ack \in {NoAck} \cup (Transitions \X Outcomes)

Types == Flags /\ Times /\ Mail

(* The restarts are asked to be forgotten once. *)
AskedOnce == resets = IF resetSent THEN 1 ELSE 0

(* A stop that lost nothing has disarmed the watchdog, and a disarmed      *)
(* watchdog belongs to a stop.                                             *)
DisarmInv ==
    /\ disarmed => stopping /\ usec = Never /\ left = Never
    /\ stopping /\ ~excused => disarmed
    /\ step > 0 => stopping

Healthy == ~excused /\ ~stopping

(* The engine's last tick of this unit left the watchdog a full turn. *)
TickInv == Healthy /\ ticked => left = usec

Posts(q) == \A i \in 1..Len(q) : q[i] = "post"
NotYet == ack = NoAck \/ ack[1] = "post"
Asked == "pre" \in signals /\ Posts(queue) /\ NotYet
Queued ==
    /\ signals = {} /\ queue # <<>> /\ queue[Len(queue)] = "pre" /\ NotYet
    /\ \A i \in 1..(Len(queue) - 1) : queue[i] = "post"
Widening == signals = {} /\ queue = <<>> /\ usec = Wide /\ left = Wide /\ narrowIn = Wide

(* Where the hook's request is: pending, on its way behind the resumes, or *)
(* answered with the watchdog wide; and nowhere once the host is awake.    *)
HookInv ==
    Healthy =>
        /\ host \in {"awake", "thawed"} => "pre" \notin signals /\ Posts(queue)
        /\ host = "pre" => Asked \/ Queued \/ (ack = <<"pre", "sent">> /\ Widening)
        /\ host = "ready" => Widening

LifeInv == Types /\ DisarmInv /\ TickInv /\ HookInv /\ NotKilled

USE TimesAssumption DEF Never

----------------------------------------------------------------------------
(* A resume leaves the queue, a request follows the last of them. *)
LEMMA QueueTail ==
    ASSUME NEW q \in Seq(Transitions), q # <<>>
    PROVE  /\ Tail(q) \in Seq(Transitions) /\ Len(Tail(q)) = Len(q) - 1
           /\ \A i \in 1..Len(Tail(q)) : Tail(q)[i] = q[i + 1]
           /\ Head(q) = q[1] /\ Head(q) \in Transitions /\ Len(q) \in Nat \ {0}
  BY DEF Transitions

LEMMA QueueAppend ==
    ASSUME NEW q \in Seq(Transitions), NEW t \in Transitions
    PROVE  /\ Append(q, t) \in Seq(Transitions) /\ Len(Append(q, t)) = Len(q) + 1
           /\ \A i \in 1..Len(q) : Append(q, t)[i] = q[i]
           /\ Append(q, t)[Len(q) + 1] = t /\ Append(q, t) # <<>> /\ Len(q) \in Nat
  OBVIOUS

----------------------------------------------------------------------------
(* What a transition does, whichever way it goes. *)
LEMMA AnswerTypes ==
    ASSUME Types, NEW t \in Transitions, NEW outcome \in Outcomes, Answer(t, outcome)
    PROVE  /\ narrowIn' \in 0..Wide \cup {Never} /\ left' \in 0..Wide \cup {Never}
           /\ usec' \in {Configured, Wide, Never} /\ budget' \in Nat
           /\ ack' \in {NoAck} \cup (Transitions \X Outcomes)
<1>1. narrowIn' \in 0..Wide \cup {Never}
  BY DEF Answer, Narrow, Types, Times
<1>2. left' \in 0..Wide \cup {Never} /\ usec' \in {Configured, Wide, Never}
  BY DEF Answer, sleep_transition, Override, Widened, Types, Times
<1>3. budget' \in Nat
  BY DEF Answer, sleep_transition, Sent, Lost, Event, Types, Times
<1>4. ack' \in {NoAck} \cup (Transitions \X Outcomes)
  BY DEF Answer
<1>5. QED
  BY <1>1, <1>2, <1>3, <1>4

LEMMA TypesInit == Init => Types
<1>1. ASSUME Init PROVE Flags
  BY <1>1 DEF Init, Flags
<1>2. ASSUME Init PROVE Times
  BY <1>2 DEF Init, Times
<1>3. ASSUME Init PROVE Mail
  BY <1>3 DEF Init, Mail, NoAck, Transitions
<1>4. QED
  BY <1>1, <1>2, <1>3 DEF Types

LEMMA FlagsStep == Types /\ [Next]_vars => Flags'
<1> SUFFICES ASSUME Types, [Next]_vars PROVE Flags'
  OBVIOUS
<1> USE DEF Types, Flags
<1>1. CASE EngineTicks
  <2>1. UNCHANGED <<stopping, disarmed, killed, host>> /\ ticked' = TRUE
    BY <1>1 DEF EngineTicks, sleepVars
  <2>2. resetSent' \in BOOLEAN /\ excused' \in BOOLEAN
    <3>1. CASE stopping
      BY <1>1, <3>1 DEF EngineTicks
    <3>2. CASE ~stopping
      BY <1>1, <3>2, Zenon DEF EngineTicks, watchdog_tick, Sent, Lost
    <3>3. QED
      BY <3>1, <3>2
  <2>3. QED
    BY <2>1, <2>2
<1>2. CASE EngineWedges
  BY <1>2, Zenon DEF EngineWedges, notifierVars, sleepVars, systemdVars
<1>3. CASE Stopping
  BY ZenonT(60), <1>3, Zenon DEF Stopping, notifierVars, sleepVars, systemdVars
<1>4. CASE StoppingLost
  BY <1>4, Zenon DEF StoppingLost, notifierVars, sleepVars, systemdVars
<1>5. CASE resend_disarm_if_lost
  <2>1. UNCHANGED <<stopping, resetSent, killed, ticked, host>>
    BY <1>5 DEF resend_disarm_if_lost, sleepVars
  <2>2. UNCHANGED <<disarmed, excused>> \/ SendStop
    BY <1>5 DEF resend_disarm_if_lost
  <2>3. SendStop => disarmed' \in {disarmed, TRUE} /\ excused' \in {excused, TRUE}
    BY ZenonT(60) DEF SendStop, Sent, Lost
  <2>4. QED
    BY <2>1, <2>2, <2>3
<1>6. CASE watch_sleep
  <2>1. UNCHANGED <<stopping, disarmed, resetSent, killed, ticked, host>>
    BY <1>6 DEF watch_sleep, notifierVars
  <2>2. PICK t, outcome : sleep_transition(t, outcome)
    BY <1>6, Zenon DEF watch_sleep, Answer
  <2>3. excused' \in {excused, TRUE}
    BY <2>2 DEF sleep_transition, Sent, Lost
  <2>4. QED
    BY <2>1, <2>3
<1>7. CASE forward_sleep_signals
  BY <1>7, Zenon DEF forward_sleep_signals, notifierVars, sleepVars, systemdVars
<1>8. CASE HookPre
  BY <1>8, Zenon DEF HookPre, notifierVars, sleepVars, systemdVars
<1>9. CASE HookReads
  BY <1>9, Zenon DEF HookReads, notifierVars, sleepVars, systemdVars
<1>10. CASE HookGivesUp
  BY <1>10, Zenon DEF HookGivesUp, notifierVars, sleepVars, systemdVars
<1>11. CASE Sleeps
  BY ZenonT(60), <1>11, Zenon DEF Sleeps, notifierVars, sleepVars, systemdVars, Passes
<1>12. CASE HookPost
  BY <1>12, Zenon DEF HookPost, notifierVars, sleepVars, systemdVars
<1>13. CASE Unit
  BY <1>13, Zenon DEF Unit, notifierVars, sleepVars, systemdVars, Passes
<1>14. CASE UNCHANGED vars
  BY <1>14 DEF vars, notifierVars, sleepVars, systemdVars
<1>15. QED
  BY <1>1, <1>2, <1>3, <1>4, <1>5, <1>6, <1>7,
     <1>8, <1>9, <1>10, <1>11, <1>12, <1>13, <1>14 DEF Next

LEMMA TimesStep == Types /\ [Next]_vars => Times'
<1> SUFFICES ASSUME Types, [Next]_vars PROVE Times'
  OBVIOUS
<1> USE DEF Types, Times, Event, notifierVars, sleepVars, systemdVars
<1>1. CASE EngineTicks
  BY <1>1 DEF EngineTicks, watchdog_tick, Sent, Lost
<1>2. CASE EngineWedges
  BY <1>2 DEF EngineWedges
<1>3. CASE Stopping
  BY <1>3 DEF Stopping, Override
<1>4. CASE StoppingLost
  BY <1>4 DEF StoppingLost
<1>5. CASE resend_disarm_if_lost
  BY <1>5 DEF resend_disarm_if_lost, SendStop, Sent, Lost, Override
<1>6. CASE watch_sleep
  <2>1. PICK outcome \in Outcomes :
            \/ queue # <<>> /\ Answer(Head(queue), outcome)
            \/ Answer("post", outcome)
    BY <1>6 DEF watch_sleep, Outcomes, Resumed
  <2>2. PICK t \in Transitions : Answer(t, outcome)
    BY <2>1, QueueTail DEF Mail, Transitions
  <2>3. QED
    BY <1>6, <2>2, AnswerTypes DEF watch_sleep
<1>7. CASE forward_sleep_signals
  BY <1>7 DEF forward_sleep_signals
<1>8. CASE HookPre
  BY <1>8 DEF HookPre
<1>9. CASE HookReads
  BY <1>9 DEF HookReads
<1>10. CASE HookGivesUp
  BY <1>10 DEF HookGivesUp
<1>11. CASE Sleeps
  BY <1>11 DEF Sleeps, Passes, Less
<1>12. CASE HookPost
  BY <1>12 DEF HookPost
<1>13. CASE Unit
  BY <1>13 DEF Unit, Passes, Less
<1>14. CASE UNCHANGED vars
  BY <1>14 DEF vars
<1>15. QED
  BY <1>1, <1>2, <1>3, <1>4, <1>5, <1>6, <1>7,
     <1>8, <1>9, <1>10, <1>11, <1>12, <1>13, <1>14 DEF Next

LEMMA MailStep == Types /\ [Next]_vars => Mail'
<1> SUFFICES ASSUME Types, [Next]_vars PROVE Mail'
  OBVIOUS
<1> USE DEF Types, Mail, notifierVars, sleepVars, systemdVars
<1>1. CASE EngineTicks
  BY <1>1 DEF EngineTicks
<1>2. CASE EngineWedges
  BY <1>2 DEF EngineWedges
<1>3. CASE Stopping
  BY <1>3 DEF Stopping
<1>4. CASE StoppingLost
  BY <1>4 DEF StoppingLost
<1>5. CASE resend_disarm_if_lost
  BY <1>5 DEF resend_disarm_if_lost
<1>6. CASE watch_sleep
  <2>1. PICK outcome \in Outcomes :
            \/ queue # <<>> /\ queue' = Tail(queue) /\ Answer(Head(queue), outcome)
            \/ UNCHANGED queue /\ Answer("post", outcome)
    BY <1>6 DEF watch_sleep, Outcomes, Resumed
  <2>2. PICK t \in Transitions : Answer(t, outcome)
    BY <2>1, QueueTail DEF Transitions
  <2>3. queue' \in Seq(Transitions) /\ Len(queue') <= 4
    BY <2>1, QueueTail
  <2>4. QED
    BY <1>6, <2>2, <2>3, AnswerTypes DEF watch_sleep
<1>7. CASE forward_sleep_signals
  <2>1. PICK t \in Transitions : queue' = Append(queue, t) /\ signals' = signals \ {t}
    BY <1>7 DEF forward_sleep_signals, Resumed, Entering, Transitions
  <2>2. queue' \in Seq(Transitions) /\ Len(queue') <= 4
    BY <1>7, <2>1, QueueAppend DEF forward_sleep_signals
  <2>3. QED
    BY <1>7, <2>1, <2>2 DEF forward_sleep_signals
<1>8. CASE HookPre
  BY <1>8 DEF HookPre, Entering, Transitions
<1>9. CASE HookReads
  BY <1>9 DEF HookReads
<1>10. CASE HookGivesUp
  BY <1>10 DEF HookGivesUp
<1>11. CASE Sleeps
  BY <1>11 DEF Sleeps
<1>12. CASE HookPost
  BY <1>12 DEF HookPost, Resumed, Transitions
<1>13. CASE Unit
  BY <1>13 DEF Unit
<1>14. CASE UNCHANGED vars
  BY <1>14 DEF vars
<1>15. QED
  BY <1>1, <1>2, <1>3, <1>4, <1>5, <1>6, <1>7,
     <1>8, <1>9, <1>10, <1>11, <1>12, <1>13, <1>14 DEF Next

----------------------------------------------------------------------------
(* The restarts: a request that was sent is not sent again. *)
LEMMA AskedOnceStep == Types /\ AskedOnce /\ [Next]_vars => AskedOnce'
<1> SUFFICES ASSUME Types, AskedOnce, [Next]_vars PROVE AskedOnce'
  OBVIOUS
<1> USE DEF AskedOnce, Types, Flags, notifierVars, sleepVars, systemdVars
<1>1. CASE EngineTicks
  <2>1. CASE reset_due /\ ~UNCHANGED <<resetSent, resets>>
    <3>1. ~resetSent /\ resets = 0 /\ resetSent' = TRUE
      BY <1>1, <2>1, Zenon DEF EngineTicks, watchdog_tick, reset_due
    <3>2. resets' = IF reset_due /\ resets < 2 THEN resets + 1 ELSE resets
      BY <1>1, <2>1, Zenon DEF EngineTicks, watchdog_tick
    <3>3. QED
      BY <2>1, <3>1, <3>2
  <2>2. CASE ~reset_due \/ UNCHANGED <<resetSent, resets>>
    <3>1. UNCHANGED <<resetSent, resets>>
      BY <1>1, <2>2, Zenon DEF EngineTicks, watchdog_tick
    <3>2. QED
      BY <3>1
  <2>3. QED
    BY <2>1, <2>2
<1>2. CASE EngineWedges
  BY <1>2 DEF EngineWedges
<1>3. CASE Stopping
  BY <1>3 DEF Stopping
<1>4. CASE StoppingLost
  BY <1>4 DEF StoppingLost
<1>5. CASE resend_disarm_if_lost
  BY <1>5 DEF resend_disarm_if_lost
<1>6. CASE watch_sleep
  BY <1>6 DEF watch_sleep
<1>7. CASE forward_sleep_signals
  BY <1>7 DEF forward_sleep_signals
<1>8. CASE HookPre
  BY <1>8 DEF HookPre
<1>9. CASE HookReads
  BY <1>9 DEF HookReads
<1>10. CASE HookGivesUp
  BY <1>10 DEF HookGivesUp
<1>11. CASE Sleeps
  BY <1>11 DEF Sleeps
<1>12. CASE HookPost
  BY <1>12 DEF HookPost
<1>13. CASE Unit
  BY <1>13 DEF Unit
<1>14. CASE UNCHANGED vars
  BY <1>14 DEF vars
<1>15. QED
  BY <1>1, <1>2, <1>3, <1>4, <1>5, <1>6, <1>7,
     <1>8, <1>9, <1>10, <1>11, <1>12, <1>13, <1>14 DEF Next

(* The stop: whoever sends it, the watchdog is disarmed or the message was *)
(* lost, and from then on no one arms it.                                  *)
LEMMA DisarmStep == Types /\ DisarmInv /\ [Next]_vars => DisarmInv'
<1> SUFFICES ASSUME Types, DisarmInv, [Next]_vars PROVE DisarmInv'
  OBVIOUS
<1> USE DEF DisarmInv, Types, Flags, Times, Running, Sent, Lost, Override, notifierVars,
            sleepVars, systemdVars
<1>1. CASE EngineTicks
  BY <1>1 DEF EngineTicks, watchdog_tick
<1>2. CASE EngineWedges
  BY <1>2 DEF EngineWedges
<1>3. CASE Stopping
  BY <1>3 DEF Stopping
<1>4. CASE StoppingLost
  BY <1>4 DEF StoppingLost
<1>5. CASE resend_disarm_if_lost
  BY <1>5 DEF resend_disarm_if_lost, SendStop
<1>6. CASE watch_sleep
  BY <1>6 DEF watch_sleep, Answer, sleep_transition
<1>7. CASE forward_sleep_signals
  BY <1>7 DEF forward_sleep_signals
<1>8. CASE HookPre
  BY <1>8 DEF HookPre
<1>9. CASE HookReads
  BY <1>9 DEF HookReads
<1>10. CASE HookGivesUp
  BY <1>10 DEF HookGivesUp
<1>11. CASE Sleeps
  BY <1>11 DEF Sleeps, Passes, Less
<1>12. CASE HookPost
  BY <1>12 DEF HookPost
<1>13. CASE Unit
  BY <1>13 DEF Unit, Passes, Less
<1>14. CASE UNCHANGED vars
  BY <1>14 DEF vars
<1>15. QED
  BY <1>1, <1>2, <1>3, <1>4, <1>5, <1>6, <1>7,
     <1>8, <1>9, <1>10, <1>11, <1>12, <1>13, <1>14 DEF Next

(* The tick: a full turn lasts until time passes. *)
LEMMA TickStep == Types /\ TickInv /\ [Next]_vars => TickInv'
<1> SUFFICES ASSUME Types, TickInv, [Next]_vars PROVE TickInv'
  OBVIOUS
<1> USE DEF TickInv, Healthy, Types, Flags, Sent, Lost, Override, notifierVars, sleepVars,
            systemdVars
<1>1. CASE EngineTicks
  BY <1>1 DEF EngineTicks, watchdog_tick
<1>2. CASE EngineWedges
  BY <1>2 DEF EngineWedges
<1>3. CASE Stopping
  BY <1>3 DEF Stopping
<1>4. CASE StoppingLost
  BY <1>4 DEF StoppingLost
<1>5. CASE resend_disarm_if_lost
  BY <1>5 DEF resend_disarm_if_lost, SendStop
<1>6. CASE watch_sleep
  BY <1>6 DEF watch_sleep, Answer, sleep_transition
<1>7. CASE forward_sleep_signals
  BY <1>7 DEF forward_sleep_signals
<1>8. CASE HookPre
  BY <1>8 DEF HookPre
<1>9. CASE HookReads
  BY <1>9 DEF HookReads
<1>10. CASE HookGivesUp
  BY <1>10 DEF HookGivesUp
<1>11. CASE Sleeps
  BY <1>11 DEF Sleeps
<1>12. CASE HookPost
  BY <1>12 DEF HookPost
<1>13. CASE Unit
  BY <1>13 DEF Unit
<1>14. CASE UNCHANGED vars
  BY <1>14 DEF vars
<1>15. QED
  BY <1>1, <1>2, <1>3, <1>4, <1>5, <1>6, <1>7,
     <1>8, <1>9, <1>10, <1>11, <1>12, <1>13, <1>14 DEF Next

(* The hook, where the mail does not move: the daemon's own steps leave    *)
(* what a sleep needs alone.                                               *)
LEMMA HookKept ==
    ASSUME Types, HookInv, Healthy' => Healthy,
           UNCHANGED <<signals, queue, ack, host, narrowIn, usec>>,
           left' = left \/ left' = usec
    PROVE  HookInv'
  BY DEF HookInv, Asked, Queued, Widening, NotYet, Posts

LEMMA HookStep == Types /\ DisarmInv /\ HookInv /\ [Next]_vars => HookInv'
<1> SUFFICES ASSUME Types, DisarmInv, HookInv, [Next]_vars PROVE HookInv'
  OBVIOUS
<1> USE DEF Healthy, Types, Flags, notifierVars, sleepVars, systemdVars
<1>1. CASE EngineTicks
  BY <1>1, HookKept DEF EngineTicks, watchdog_tick, Sent, Lost
<1>2. CASE EngineWedges
  BY <1>2 DEF EngineWedges, HookInv
<1>3. CASE Stopping
  BY <1>3 DEF Stopping, HookInv
<1>4. CASE StoppingLost
  BY <1>4 DEF StoppingLost, HookInv
<1>5. CASE resend_disarm_if_lost
  BY <1>5 DEF resend_disarm_if_lost, HookInv, Running, DisarmInv
<1>6. CASE watch_sleep
  <2> SUFFICES ASSUME ~excused', ~stopping' PROVE HookInv'
    BY DEF HookInv
  <2>1. /\ ~excused /\ ~stopping /\ UNCHANGED <<host, signals>>
        /\ \/ queue # <<>> /\ queue' = Tail(queue) /\ Answer(Head(queue), "sent")
           \/ narrowIn = 0 /\ UNCHANGED queue /\ Answer("post", "sent")
    BY <1>6 DEF watch_sleep, Answer, sleep_transition, Sent, Lost, Resumed
  <2>2. CASE narrowIn = 0 /\ UNCHANGED queue /\ Answer("post", "sent")
    BY <2>1, <2>2 DEF HookInv, Answer, Asked, Queued, Widening, NotYet, Posts
  <2>3. CASE queue # <<>> /\ queue' = Tail(queue) /\ Answer(Head(queue), "sent")
    <3>1. /\ Len(queue') = Len(queue) - 1 /\ \A i \in 1..Len(queue') : queue'[i] = queue[i + 1]
          /\ Head(queue) = queue[1] /\ Head(queue) \in Transitions /\ Len(queue) \in Nat \ {0}
      BY <2>3, QueueTail DEF Mail
    <3>2. ack' = <<Head(queue), "sent">>
      BY <2>3 DEF Answer
    <3>3. CASE host \in {"awake", "thawed"}
      BY <2>1, <3>1, <3>3 DEF HookInv, Posts
    <3>4. CASE host = "ready"
      BY <2>1, <2>3, <3>4 DEF HookInv, Widening
    <3>5. CASE host = "pre" /\ Asked
      <4>1. Head(queue) = "post" /\ Posts(queue')
        BY <3>1, <3>5 DEF Asked, Posts
      <4>2. QED
        BY <2>1, <3>2, <3>5, <4>1 DEF HookInv, Asked, NotYet
    <3>6. CASE host = "pre" /\ Queued
      <4>1. CASE Len(queue) = 1
        <5>1. Head(queue) = "pre" /\ queue' = <<>>
          BY <3>1, <3>6, <4>1, <2>3 DEF Queued, Mail
        <5>2. ack' = <<"pre", "sent">> /\ signals' = {} /\ usec' = Wide /\ left' = Wide /\ narrowIn' = Wide
          BY <2>1, <2>3, <3>2, <3>6, <5>1 DEF Answer, sleep_transition, Override, Widened, Narrow, Entering, Queued
        <5>3. QED
          BY <2>1, <3>6, <5>1, <5>2 DEF HookInv, Widening
      <4>2. CASE Len(queue) > 1
        <5>1. Head(queue) = "post" /\ queue' # <<>> /\ queue'[Len(queue')] = "pre"
          BY <3>1, <3>6, <4>2 DEF Queued
        <5>2. \A i \in 1..(Len(queue') - 1) : queue'[i] = "post"
          BY <3>1, <3>6 DEF Queued
        <5>3. QED
          BY <2>1, <3>2, <3>6, <5>1, <5>2 DEF HookInv, Queued, NotYet
      <4>3. QED
        BY <3>1, <4>1, <4>2
    <3>7. QED
      BY <2>1, <2>3, <3>3, <3>4, <3>5, <3>6 DEF HookInv, Widening
  <2>4. QED
    BY <2>1, <2>2, <2>3
<1>7. CASE forward_sleep_signals
  <2> SUFFICES ASSUME Healthy PROVE HookInv'
    BY <1>7 DEF forward_sleep_signals, HookInv
  <2>1. PICK t \in Transitions :
           /\ t \in signals /\ queue' = Append(queue, t) /\ signals' = signals \ {t}
           /\ t = "pre" => "post" \notin signals
    BY <1>7 DEF forward_sleep_signals, Resumed, Entering, Transitions, Mail
  <2>2. /\ Len(queue') = Len(queue) + 1 /\ Len(queue) \in Nat /\ queue' # <<>>
        /\ \A i \in 1..Len(queue) : queue'[i] = queue[i]
        /\ queue'[Len(queue) + 1] = t
    BY <2>1, QueueAppend DEF Mail
  <2>3. UNCHANGED <<host, ack, usec, left, narrowIn, excused, stopping>>
    BY <1>7 DEF forward_sleep_signals
  <2>4. CASE host \in {"awake", "thawed"}
    BY <2>1, <2>2, <2>3, <2>4 DEF HookInv, Posts, Transitions
  <2>5. CASE host = "ready"
    BY <2>1, <2>5 DEF HookInv, Widening
  <2>6. CASE host = "pre" /\ t = "post"
    <3>1. Asked /\ Posts(queue')
      BY <2>1, <2>2, <2>6 DEF HookInv, Asked, Queued, Widening, Posts
    <3>2. QED
      BY <2>1, <2>3, <2>6, <3>1 DEF HookInv, Asked, NotYet
  <2>7. CASE host = "pre" /\ t = "pre"
    <3>1. Asked /\ signals' = {}
      BY <2>1, <2>7 DEF HookInv, Asked, Queued, Widening, Mail, Transitions
    <3>2. \A i \in 1..(Len(queue') - 1) : queue'[i] = "post"
      BY <2>2, <3>1 DEF Asked, Posts
    <3>3. queue'[Len(queue')] = "pre"
      BY <2>2, <2>7
    <3>4. QED
      BY <2>2, <2>3, <2>7, <3>1, <3>2, <3>3 DEF HookInv, Asked, Queued, NotYet
  <2>8. QED
    BY <2>1, <2>4, <2>5, <2>6, <2>7 DEF Transitions
<1>8. CASE HookPre
  BY <1>8 DEF HookPre, HookInv, Asked, NotYet, Posts, Entering
<1>9. CASE HookReads
  BY <1>9 DEF HookReads, Answered, Entering, HookInv, Asked, Queued, Widening, NotYet, NoAck
<1>10. CASE HookGivesUp
  BY <1>10 DEF HookGivesUp, HookInv
<1>11. CASE Sleeps
  BY <1>11 DEF Sleeps, HookInv, Widening, Posts
<1>12. CASE HookPost
  BY <1>12 DEF HookPost, HookInv, Posts, Resumed
<1>13. CASE Unit
  <2>1. CASE host = "pre" /\ Healthy
    BY <1>13, <2>1 DEF Unit, Answered, Entering, NoAck, HookInv, Asked, Queued, NotYet, Posts
  <2>2. CASE host # "pre" \/ ~Healthy
    BY <1>13, <2>2 DEF Unit, HookInv, Posts
  <2>3. QED
    BY <2>1, <2>2
<1>14. CASE UNCHANGED vars
  BY <1>14, HookKept DEF vars
<1>15. QED
  BY <1>1, <1>2, <1>3, <1>4, <1>5, <1>6, <1>7,
     <1>8, <1>9, <1>10, <1>11, <1>12, <1>13, <1>14 DEF Next

(* Time: it never passes a unit without a tick in it, nor a freeze the     *)
(* watchdog was not widened for.                                           *)
LEMMA KillStep == LifeInv /\ [Next]_vars => NotKilled'
<1> SUFFICES ASSUME LifeInv, [Next]_vars PROVE NotKilled'
  OBVIOUS
<1>1. killed \in BOOLEAN /\ excused \in BOOLEAN /\ excused' \in BOOLEAN /\ (killed => excused)
  BY FlagsStep DEF LifeInv, Types, Flags, NotKilled
<1>2. CASE Unit
  <2> SUFFICES ASSUME ~excused PROVE ~killed'
    BY <1>1, <1>2, Zenon DEF NotKilled, Unit
  <2>1. CASE stopping
    BY ZenonT(60), <1>2, <2>1 DEF LifeInv, DisarmInv, Unit, Passes
  <2>2. CASE ~stopping
    BY <1>2, <2>2 DEF LifeInv, DisarmInv, TickInv, Healthy, Types, Flags, Times, Unit, Passes
  <2>3. QED
    BY <2>1, <2>2
<1>3. CASE Sleeps
  <2> SUFFICES ASSUME ~excused PROVE ~killed'
    BY <1>1, <1>3, Zenon DEF NotKilled, Sleeps
  <2>1. CASE stopping
    BY ZenonT(60), <1>3, <2>1 DEF LifeInv, DisarmInv, Sleeps, Passes
  <2>2. CASE ~stopping
    BY <1>3, <2>2 DEF LifeInv, HookInv, Widening, Healthy, Types, Flags, Sleeps, Passes
  <2>3. QED
    BY <2>1, <2>2
<1>4. CASE ~Unit /\ ~Sleeps
  <2>1. killed' = killed
    BY <1>4 DEF Next, vars, EngineTicks, EngineWedges, Stopping, StoppingLost,
       resend_disarm_if_lost, watch_sleep, forward_sleep_signals, HookPre, HookReads,
       HookGivesUp, HookPost, systemdVars
  <2>2. excused => excused'
    BY ZenonT(60), <1>4 DEF Next, vars, EngineTicks, watchdog_tick, EngineWedges, Stopping,
       StoppingLost, resend_disarm_if_lost, SendStop, watch_sleep, Answer,
       sleep_transition, forward_sleep_signals, HookPre, HookReads, HookGivesUp,
       HookPost, Sent, Lost
  <2>3. QED
    BY <1>1, <2>1, <2>2 DEF NotKilled
<1>5. QED
  BY <1>2, <1>3, <1>4

LEMMA LifeInit == Init => LifeInv
<1> SUFFICES ASSUME Init PROVE LifeInv
  OBVIOUS
<1>1. DisarmInv /\ TickInv /\ NotKilled
  BY DEF Init, DisarmInv, TickInv, Healthy, NotKilled
<1>2. HookInv
  BY DEF Init, HookInv, Posts
<1>3. QED
  BY <1>1, <1>2, TypesInit DEF LifeInv

LEMMA LifeStep == LifeInv /\ [Next]_vars => LifeInv'
<1> SUFFICES ASSUME LifeInv, [Next]_vars PROVE LifeInv'
  OBVIOUS
<1>1. Types'
  BY FlagsStep, TimesStep, MailStep DEF LifeInv, Types
<1>2. DisarmInv' /\ TickInv' /\ HookInv' /\ NotKilled'
  BY DisarmStep, TickStep, HookStep, KillStep DEF LifeInv
<1>3. QED
  BY <1>1, <1>2 DEF LifeInv

----------------------------------------------------------------------------
(* Every width, deadline and queue keeps its bounds, and the restarts are  *)
(* asked to be forgotten at most once (sd_notify.rs Notifier, watch_sleep).*)
THEOREM WatchdogTypes == Spec => []TypeOK
<1>1. Init => Types /\ AskedOnce
  BY TypesInit DEF Init, AskedOnce
<1>2. Types /\ AskedOnce /\ [Next]_vars => (Types /\ AskedOnce)'
  BY FlagsStep, TimesStep, MailStep, AskedOnceStep DEF Types
<1>3. Types /\ AskedOnce => TypeOK
  BY DEF Types, Times, Mail, Flags, AskedOnce, TypeOK, Entering, Resumed, Transitions
<1>4. QED
  BY <1>1, <1>2, <1>3, PTL DEF Spec

(* Once systemd has read a disarm, nothing arms the watchdog again         *)
(* (Notifier::stopping, watchdog_tick, sleep_transition).                  *)
THEOREM DisarmHolds == Spec => []DisarmLasts
<1>1. LifeInv => DisarmLasts
  BY DEF LifeInv, DisarmInv, DisarmLasts
<1>2. QED
  BY LifeInit, LifeStep, <1>1, PTL DEF Spec

(* However long the watchdog and the freezes it is widened for, a daemon   *)
(* that loses no message is not killed by it: asleep, awake or stopping.   *)
THEOREM NeverKilled == Spec => []NotKilled
<1>1. LifeInv => NotKilled
  BY DEF LifeInv
<1>2. QED
  BY LifeInit, LifeStep, <1>1, PTL DEF Spec

(* Each of a stop's later steps ends with systemd told of the disarm, or   *)
(* with one more attempt lost (resend_disarm_if_lost, DEC-402).            *)
THEOREM LostDisarmIsResent == Spec => DisarmIsResent
<1>1. LifeInv /\ [Next]_vars => [step > 0 /\ step' > step => disarmed' \/ budget' # budget]_vars
  <2> SUFFICES ASSUME LifeInv, [Next]_vars, step > 0, step' > step
               PROVE  disarmed' \/ budget' # budget
    OBVIOUS
  <2>1. step \in 0..3 /\ budget \in Nat /\ disarmed \in BOOLEAN
    BY DEF LifeInv, Types, Times, Flags
  <2>2. resend_disarm_if_lost
    <3>1. step' # step /\ step # 0
      BY <2>1
    <3>2. Next
      BY <3>1 DEF vars
    <3>3. ~(EngineTicks \/ EngineWedges \/ Stopping \/ StoppingLost)
      BY <3>1 DEF EngineTicks, EngineWedges, Stopping, StoppingLost
    <3>4. ~(watch_sleep \/ forward_sleep_signals \/ HookPre \/ HookReads)
      BY <3>1 DEF watch_sleep, forward_sleep_signals, HookPre, HookReads
    <3>5. ~(HookGivesUp \/ Sleeps \/ HookPost \/ Unit)
      BY <3>1 DEF HookGivesUp, Sleeps, HookPost, Unit
    <3> QED BY <3>2, <3>3, <3>4, <3>5 DEF Next
  <2>3. CASE disarmed
    BY <2>2, <2>3 DEF resend_disarm_if_lost
  <2>4. CASE ~disarmed
    <3>1. SendStop
      BY <2>2, <2>4 DEF resend_disarm_if_lost
    <3> QED BY <2>1, <3>1 DEF SendStop, Lost, Event
  <2> QED BY <2>3, <2>4
<1> QED
  BY <1>1, LifeInit, LifeStep, PTL DEF Spec, DisarmIsResent
=============================================================================
