---------------------------- MODULE OpenFanProofs ----------------------------
(***************************************************************************)
(* Theorems about OpenFan, for every number of channels and every set of   *)
(* profiles, duties and events: its types, what the controller believes,   *)
(* publishes and times, and that nothing is left below the exit floor.     *)
(***************************************************************************)
EXTENDS OpenFan, WellFoundedInduction, TLAPS

Maybe == Duty \cup {NoDuty}

Tasks == [kind : {"none", "apply", "floor", "emergency"},
          step : {"none", "record", "read", "write", "put", "at", "mask", "release", "give"},
          todo : SUBSET Channels, put : SUBSET Channels, gives : BOOLEAN,
          duties : [Channels -> Maybe], members : SUBSET Channels,
          held : SUBSET Channels, at : Nat]

Calls == [step : {"idle", "send", "done"},
          by : {"none", "engine", "calibration", "update", "stop"},
          ch : Channels, pct : Duty, ok : BOOLEAN]

EngineTypeOK ==
    /\ profile \in [Channels -> Maybe] /\ skipped \subseteq Channels
    /\ rung \in Rungs /\ engineHeld \subseteq Channels
    /\ task \in Tasks
    /\ task.kind = "apply" =>
          /\ task.step \in {"write", "put", "at", "mask"}
          /\ task.step = "write" => \A c \in task.todo : task.duties[c] # NoDuty
    /\ snapshot \in [taken : BOOLEAN, duties : [Channels -> Maybe]]
    /\ lost \in [known : BOOLEAN, at : Nat, mask : SUBSET Channels]

CalTypeOK ==
    cal \in [step : {"off", "claimed", "walk", "step", "failed", "kick", "kicked", "restore"},
             ch : Channels, pct : Duty, back : Duty, touched : BOOLEAN]

LinkTypeOK ==
    /\ update \in [step : {"none", "parking", "lent", "boot", "offered", "recovery"},
                   todo : SUBSET Channels]
    /\ link \in {"ok", "searching", "adopting", "lent", "taken", "settling"}
    /\ asleep \in BOOLEAN

StopTypeOK ==
    stop \in [stage : {"run", "stopping", "flooring", "floored"}, todo : SUBSET Channels]

(* A generation noted is one that has been; the exit floor writes only     *)
(* minima that have been latched.                                          *)
NotedInv == task.at <= generation /\ lost.at <= generation
LatchedInv == stop.stage = "flooring" => \A c \in Channels : ctl[c].exitMin # NoDuty

TypeInv == /\ FanTypeOK /\ EngineTypeOK /\ CalTypeOK /\ LinkTypeOK /\ StopTypeOK
           /\ NotedInv /\ LatchedInv

----------------------------------------------------------------------------
(* What makes BelievedIsTrue inductive: where the port is in each state of *)
(* the poll loop, how a loan and an update go together, and that nothing   *)
(* is believed by the time a board's port is put back in the slot.         *)
PortInv ==
    /\ link = "ok" => port \in {"board", "dead"}
    /\ link \in {"searching", "adopting"} => port = "none"
    /\ link = "lent" => port = "lent"
    /\ link \in {"taken", "settling"} => port = "board"

LoanInv ==
    /\ update.step \in {"lent", "boot"} => link = "lent"
    /\ link = "lent" => update.step \in {"lent", "boot", "offered"}
    /\ op.step # "idle" /\ op.by = "update" =>
          update.step = "parking" /\ op.ch \in update.todo

NothingBelieved == \A c \in Channels : last_commanded_pct(c) = NoDuty

ForgottenInv ==
    link = "adopting" \/ (link = "lent" /\ update.step = "offered") => NothingBelieved

BeliefInv == PortInv /\ LoanInv /\ ForgottenInv /\ BelievedIsTrue

----------------------------------------------------------------------------
(* Helpers. *)

(* Every nonempty set of channels has a first one. *)
LEMMA FirstChannel == ASSUME NEW S \in SUBSET Channels, S # {} PROVE Min(S) \in S
  <1> DEFINE Less == {p \in Nat \X Nat : p[1] < p[2]}
  <1>1. S \subseteq Nat
    BY FanAssumption DEF Channels
  <1>2. IsWellFoundedOn(Less, Nat)
    BY NatLessThanWellFounded, Zenon DEF OpToRel
  <1>3. \E x \in S : \A y \in S : ~(<<y, x>> \in Less)
    <2> HIDE DEF Less
    <2> QED BY <1>1, <1>2, WFMin
  <1>4. \E x \in S : \A y \in S : x <= y
    <2>1. PICK x \in S : \A y \in S : ~(<<y, x>> \in Less)
      BY <1>3
    <2>2. ASSUME NEW y \in S PROVE x <= y
      <3>1. x \in Nat /\ y \in Nat
        BY <1>1
      <3>2. ~(<<y, x>> \in Less)
        BY <2>1
      <3>3. ~(y < x)
        BY <3>1, <3>2
      <3> QED BY <3>1, <3>3
    <2> QED BY <2>2
  <1> QED BY <1>4, Zenon DEF Min

LEMMA ExitDutyType ==
    ASSUME NEW d \in Maybe, NEW f \in Duty PROVE exit_duty(d, f) \in Duty
  BY DEF exit_duty, AtLeast, Maybe, Duty, NoDuty

(* What the controller knows of a channel is a duty or nothing. *)
LEMMA KnownType ==
    ASSUME FanTypeOK, NEW c \in Channels
    PROVE  /\ last_commanded_pct(c) \in Maybe
           /\ duty_before_loss(c) \in Maybe
           /\ last_known_duty(c) \in Maybe
  <1>1. ctl[c].last \in Maybe /\ ctl[c].before \in Maybe /\ NoDuty \in Maybe
    BY DEF FanTypeOK, Control, Maybe
  <1> QED BY <1>1 DEF last_commanded_pct, duty_before_loss, last_known_duty, OrElse

LEMMA ObservedType ==
    ASSUME FanTypeOK
    PROVE  /\ Observed \in [Channels -> Control]
           /\ \A c \in Channels :
                 /\ Observed[c].last = last_commanded_pct(c)
                 /\ Observed[c].exitMin = ctl[c].exitMin
           /\ StopClockMeansStopped =>
                 \A c \in Channels : Observed[c].timed <=> Observed[c].last = 0
  <1>1. \A c \in Channels : ctl[c] \in Control
    BY DEF FanTypeOK
  <1>2. CASE generation = seen
    BY <1>1, <1>2 DEF Observed, FanTypeOK, last_commanded_pct, StopClockMeansStopped
  <1>3. CASE generation # seen
    <2> DEFINE Lost(c) == [ctl[c] EXCEPT !.before = OrElse(ctl[c].last, @), !.last = NoDuty,
                                         !.timed = FALSE]
    <2>1. \A c \in Channels : /\ Lost(c) \in Control
                              /\ Lost(c).last = NoDuty /\ Lost(c).timed = FALSE
                              /\ Lost(c).exitMin = ctl[c].exitMin
      BY <1>1 DEF Control, OrElse
    <2>2. Observed = [c \in Channels |-> Lost(c)]
      BY <1>3 DEF Observed
    <2> HIDE DEF Lost
    <2>3. \A c \in Channels : Observed[c] = Lost(c) /\ last_commanded_pct(c) = NoDuty
      BY <1>3, <2>2 DEF last_commanded_pct
    <2>4. Observed \in [Channels -> Control]
      BY <2>1, <2>2
    <2> QED BY <2>1, <2>3, <2>4 DEF NoDuty
  <1> QED BY <1>2, <1>3

(* A set_pwm up to the wire: the duties the controller stands by, their    *)
(* stop clocks and the exit minima are what they were.                     *)
LEMMA SetPwmKeeps ==
    ASSUME FanTypeOK, NEW by, NEW c \in Channels, NEW pct, set_pwm(by, c, pct)
    PROVE  /\ UNCHANGED <<deviceVars, cacheVars>>
           /\ op = Idle /\ op'.step # "idle" /\ op'.by = by /\ op'.ch = c
           /\ seen' = generation
           /\ ctl' \in [Channels -> Control]
           /\ \A d \in Channels : /\ ctl'[d].last = last_commanded_pct(d)
                                  /\ ctl'[d].exitMin = ctl[d].exitMin
           /\ StopClockMeansStopped => StopClockMeansStopped'
           /\ by \in {"engine", "calibration", "update", "stop"}
              /\ AtLeast(pct, ctl[c].exitMin) \in Duty => op' \in Calls
  <1> DEFINE noted == Observed
             target == AtLeast(pct, noted[c].exitMin)
             call == [step |-> "done", by |-> by, ch |-> c, pct |-> target, ok |-> TRUE]
  <1>1. /\ noted \in [Channels -> Control]
        /\ \A d \in Channels : /\ noted[d].last = last_commanded_pct(d)
                               /\ noted[d].exitMin = ctl[d].exitMin
        /\ StopClockMeansStopped =>
              \A d \in Channels : noted[d].timed <=> noted[d].last = 0
    BY ObservedType
  <1>2. target = AtLeast(pct, ctl[c].exitMin)
    BY <1>1
  <1> HIDE DEF noted, target
  <1> DEFINE wrote == [noted EXCEPT ![c].written = TRUE]
  <1>3. /\ wrote \in [Channels -> Control]
        /\ \A d \in Channels : /\ wrote[d].last = noted[d].last
                               /\ wrote[d].timed = noted[d].timed
                               /\ wrote[d].exitMin = noted[d].exitMin
    BY ZenonT(60), <1>1 DEF Control
  <1> HIDE DEF wrote
  <1>4. /\ op = Idle /\ seen' = generation
        /\ ctl' \in {noted, wrote}
        /\ op' \in {call, [call EXCEPT !.ok = FALSE], [call EXCEPT !.step = "send"]}
        /\ UNCHANGED <<deviceVars, cacheVars>>
    <2>1. set_pwm(by, c, pct) <=>
            /\ op = Idle
            /\ seen' = generation
            /\ IF noted[c].last = target
               THEN ctl' = noted /\ op' = call
               ELSE IF target = 0 /\ noted[c].timed
               THEN ctl' = noted /\ op' = [call EXCEPT !.ok = FALSE]
               ELSE /\ ctl' = wrote
                    /\ op' = [call EXCEPT !.step = "send"]
            /\ UNCHANGED <<deviceVars, cacheVars>>
      BY Zenon DEF set_pwm, noted, target, wrote
    <2> QED BY <2>1, Zenon
  <1>5. /\ ctl' \in [Channels -> Control]
        /\ \A d \in Channels : /\ ctl'[d].last = last_commanded_pct(d)
                               /\ ctl'[d].exitMin = ctl[d].exitMin
    BY <1>1, <1>3, <1>4
  <1>6. op'.step # "idle" /\ op'.by = by /\ op'.ch = c
    BY <1>4
  <1>7. by \in {"engine", "calibration", "update", "stop"} /\ target \in Duty => op' \in Calls
    <2>1. CASE op' = call
      BY <2>1 DEF Calls
    <2>2. CASE op' = [call EXCEPT !.ok = FALSE]
      BY <2>2 DEF Calls
    <2>3. CASE op' = [call EXCEPT !.step = "send"]
      BY <2>3 DEF Calls
    <2> QED BY <1>4, <2>1, <2>2, <2>3
  <1>8. StopClockMeansStopped => StopClockMeansStopped'
    <2> SUFFICES ASSUME StopClockMeansStopped, NEW d \in Channels
                 PROVE  ctl'[d].timed <=> ctl'[d].last = 0
      BY DEF StopClockMeansStopped
    <2>1. CASE ctl' = noted
      BY <1>1, <2>1, Zenon
    <2>2. CASE ctl' = wrote
      BY <1>1, <1>3, <2>2, Zenon
    <2> QED BY <1>4, <2>1, <2>2
  <1> QED BY <1>2, <1>4, <1>5, <1>6, <1>7, <1>8, Zenon

(* A duty given to it, it keeps the types too. *)
LEMMA SetPwmEffect ==
    ASSUME FanTypeOK, NEW by \in {"engine", "calibration", "update", "stop"},
           NEW c \in Channels, NEW pct \in Duty, set_pwm(by, c, pct)
    PROVE  /\ FanTypeOK'
           /\ UNCHANGED generation
           /\ \A d \in Channels : ctl'[d].exitMin = ctl[d].exitMin
  <1>1. AtLeast(pct, ctl[c].exitMin) \in Duty
    BY DEF FanTypeOK, AtLeast, Control, Duty, NoDuty
  <1>2. op' \in Calls
    BY <1>1, SetPwmKeeps DEF Calls
  <1>3. /\ UNCHANGED <<port, board, generation, clearing, shown>> /\ seen' = generation
        /\ ctl' \in [Channels -> Control]
        /\ \A d \in Channels : ctl'[d].exitMin = ctl[d].exitMin
    BY SetPwmKeeps DEF deviceVars, cacheVars
  <1> QED BY <1>2, <1>3 DEF FanTypeOK, Calls

(* The two ends of the serial exchange. *)
LEMMA ConfirmedType ==
    ASSUME NEW k \in Control, NEW pct \in Duty
    PROVE  /\ Confirmed(k, pct) \in Control /\ Unconfirmed(k, pct) \in Control
           /\ Confirmed(k, pct).last = pct /\ Unconfirmed(k, pct).last = NoDuty
           /\ (Confirmed(k, pct).timed <=> pct = 0) /\ ~Unconfirmed(k, pct).timed
           /\ Confirmed(k, pct).exitMin = k.exitMin
           /\ Unconfirmed(k, pct).exitMin = k.exitMin
  <1> DEFINE zero == (pct = 0)
  <1>1. zero \in BOOLEAN
    OBVIOUS
  <1>2. Confirmed(k, pct) = [k EXCEPT !.last = pct, !.before = NoDuty, !.timed = zero]
    BY Zenon DEF Confirmed
  <1>3. Unconfirmed(k, pct) = [k EXCEPT !.last = NoDuty, !.timed = FALSE,
                                 !.before = IF k.before = pct THEN k.before ELSE NoDuty]
    BY DEF Unconfirmed, Control
  <1> HIDE DEF zero
  <1>4. /\ Confirmed(k, pct) \in Control
        /\ Confirmed(k, pct).last = pct /\ Confirmed(k, pct).timed = zero
        /\ Confirmed(k, pct).exitMin = k.exitMin
    BY <1>1, <1>2 DEF Control
  <1>5. /\ Unconfirmed(k, pct) \in Control
        /\ Unconfirmed(k, pct).last = NoDuty /\ Unconfirmed(k, pct).timed = FALSE
        /\ Unconfirmed(k, pct).exitMin = k.exitMin
    BY <1>3 DEF Control
  <1> QED BY <1>4, <1>5, Zenon DEF zero

LEMMA ExchangeEffect ==
    ASSUME FanTypeOK, Exchange
    PROVE  /\ FanTypeOK'
           /\ UNCHANGED <<port, generation, clearing, seen>>
           /\ port = "board" /\ op.step # "idle" /\ op'.step # "idle"
           /\ op'.by = op.by /\ op'.ch = op.ch
           /\ ctl'[op.ch].last = op.pct /\ board'[op.ch] = op.pct
           /\ shown' = IF seen = generation THEN [shown EXCEPT ![op.ch] = op.pct] ELSE shown
           /\ \A d \in Channels : /\ ctl'[d].exitMin = ctl[d].exitMin
                                  /\ d # op.ch => /\ ctl'[d].last = ctl[d].last
                                                  /\ board'[d] = board[d]
           /\ StopClockMeansStopped => StopClockMeansStopped'
  <1>1. op \in Calls /\ op.ch \in Channels /\ op.pct \in Duty
    BY DEF FanTypeOK, Calls
  <1>2. ctl \in [Channels -> Control] /\ ctl[op.ch] \in Control
    BY <1>1 DEF FanTypeOK
  <1>3. ctl' = [ctl EXCEPT ![op.ch] = Confirmed(ctl[op.ch], op.pct)]
    BY DEF Exchange
  <1>4. /\ Confirmed(ctl[op.ch], op.pct) \in Control
        /\ Confirmed(ctl[op.ch], op.pct).last = op.pct
        /\ Confirmed(ctl[op.ch], op.pct).timed <=> op.pct = 0
        /\ Confirmed(ctl[op.ch], op.pct).exitMin = ctl[op.ch].exitMin
    BY <1>1, <1>2, ConfirmedType
  <1>5. /\ ctl' \in [Channels -> Control]
        /\ ctl'[op.ch] = Confirmed(ctl[op.ch], op.pct)
        /\ \A d \in Channels : d # op.ch => ctl'[d] = ctl[d]
    BY <1>1, <1>2, <1>3, <1>4
  <1>6. StopClockMeansStopped => StopClockMeansStopped'
    <2> SUFFICES ASSUME StopClockMeansStopped, NEW d \in Channels
                 PROVE  ctl'[d].timed <=> ctl'[d].last = 0
      BY DEF StopClockMeansStopped
    <2>1. CASE d = op.ch
      BY <1>4, <1>5, <2>1, Zenon
    <2>2. CASE d # op.ch
      BY <1>5, <2>2, Zenon DEF StopClockMeansStopped
    <2> QED BY <2>1, <2>2
  <1>7. /\ op' \in Calls /\ op.step # "idle" /\ op'.step # "idle"
        /\ op'.by = op.by /\ op'.ch = op.ch
    BY <1>1 DEF Exchange, Calls
  <1>8. /\ board' = [board EXCEPT ![op.ch] = op.pct] /\ port = "board"
        /\ shown' = IF seen = generation THEN [shown EXCEPT ![op.ch] = op.pct] ELSE shown
        /\ UNCHANGED <<port, generation, clearing, seen>>
    BY DEF Exchange, set_openfan_commanded_pwm
  <1>9. board' \in [Channels -> Duty] /\ shown' \in [Channels -> Duty \cup {NoDuty}]
    BY <1>1, <1>8 DEF FanTypeOK
  <1>10. FanTypeOK'
    BY <1>5, <1>7, <1>8, <1>9 DEF FanTypeOK, Calls
  <1>11. /\ board'[op.ch] = op.pct
         /\ \A d \in Channels : d # op.ch => board'[d] = board[d]
    BY <1>1, <1>8 DEF FanTypeOK
  <1> QED BY <1>4, <1>5, <1>6, <1>7, <1>8, <1>10, <1>11

LEMMA ExchangeFailsEffect ==
    ASSUME FanTypeOK, NEW lands \in BOOLEAN, ExchangeFails(lands)
    PROVE  /\ FanTypeOK'
           /\ UNCHANGED <<port, generation, clearing, seen>>
           /\ op.step # "idle" /\ op'.step # "idle" /\ op'.by = op.by /\ op'.ch = op.ch
           /\ ctl'[op.ch].last = NoDuty /\ shown'[op.ch] = NoDuty
           /\ \A d \in Channels : /\ ctl'[d].exitMin = ctl[d].exitMin
                                  /\ d # op.ch => /\ ctl'[d].last = ctl[d].last
                                                  /\ board'[d] = board[d]
                                                  /\ shown'[d] = shown[d]
           /\ StopClockMeansStopped => StopClockMeansStopped'
  <1>1. op \in Calls /\ op.ch \in Channels /\ op.pct \in Duty
    BY DEF FanTypeOK, Calls
  <1>2. ctl \in [Channels -> Control] /\ ctl[op.ch] \in Control
    BY <1>1 DEF FanTypeOK
  <1>3. ctl' = [ctl EXCEPT ![op.ch] = Unconfirmed(ctl[op.ch], op.pct)]
    BY DEF ExchangeFails
  <1>4. /\ Unconfirmed(ctl[op.ch], op.pct) \in Control
        /\ Unconfirmed(ctl[op.ch], op.pct).last = NoDuty
        /\ ~Unconfirmed(ctl[op.ch], op.pct).timed
        /\ Unconfirmed(ctl[op.ch], op.pct).exitMin = ctl[op.ch].exitMin
    BY <1>1, <1>2, ConfirmedType
  <1>5. /\ ctl' \in [Channels -> Control]
        /\ ctl'[op.ch] = Unconfirmed(ctl[op.ch], op.pct)
        /\ \A d \in Channels : d # op.ch => ctl'[d] = ctl[d]
    BY <1>1, <1>2, <1>3, <1>4
  <1>6. StopClockMeansStopped => StopClockMeansStopped'
    <2> SUFFICES ASSUME StopClockMeansStopped, NEW d \in Channels
                 PROVE  ctl'[d].timed <=> ctl'[d].last = 0
      BY DEF StopClockMeansStopped
    <2>0. NoDuty # 0
      BY DEF NoDuty
    <2>1. CASE d = op.ch
      BY <1>4, <1>5, <2>0, <2>1, Zenon
    <2>2. CASE d # op.ch
      BY <1>5, <2>2, Zenon DEF StopClockMeansStopped
    <2> QED BY <2>1, <2>2
  <1>7. /\ op' \in Calls /\ op.step # "idle" /\ op'.step # "idle"
        /\ op'.by = op.by /\ op'.ch = op.ch
    BY <1>1 DEF ExchangeFails, Calls
  <1>8. /\ board' = IF lands THEN [board EXCEPT ![op.ch] = op.pct] ELSE board
        /\ shown' = [shown EXCEPT ![op.ch] = NoDuty]
        /\ UNCHANGED <<port, generation, clearing, seen>>
    BY DEF ExchangeFails
  <1>9. board' \in [Channels -> Duty] /\ shown' \in [Channels -> Duty \cup {NoDuty}]
    BY <1>1, <1>8 DEF FanTypeOK
  <1>10. FanTypeOK'
    BY <1>5, <1>7, <1>8, <1>9 DEF FanTypeOK, Calls
  <1>11. /\ shown'[op.ch] = NoDuty
         /\ \A d \in Channels : d # op.ch => board'[d] = board[d] /\ shown'[d] = shown[d]
    BY <1>1, <1>8 DEF FanTypeOK
  <1> QED BY <1>4, <1>5, <1>6, <1>7, <1>8, <1>10, <1>11

(* The exit minima are latched over the duties that are known. *)
LEMMA LatchEffect ==
    ASSUME FanTypeOK, LatchExitFloor
    PROVE  /\ FanTypeOK'
           /\ UNCHANGED <<port, board, generation, clearing, shown, op>>
           /\ seen' = generation
           /\ \A d \in Channels : /\ ctl'[d].last = last_commanded_pct(d)
                                  /\ ctl'[d].exitMin # NoDuty
           /\ StopClockMeansStopped => StopClockMeansStopped'
  <1> DEFINE noted == Observed
             min(d) == IF noted[d].written
                       THEN exit_duty(OrElse(noted[d].last, noted[d].before), ExitFloor)
                       ELSE ExitFloor
  <1>1. /\ noted \in [Channels -> Control]
        /\ \A d \in Channels : noted[d].last = last_commanded_pct(d)
        /\ StopClockMeansStopped =>
              \A d \in Channels : noted[d].timed <=> noted[d].last = 0
    BY ObservedType
  <1>2. /\ seen' = generation
        /\ ctl' = [d \in Channels |-> [noted[d] EXCEPT !.exitMin = min(d)]]
        /\ UNCHANGED <<deviceVars, cacheVars, op>>
    BY Zenon DEF LatchExitFloor
  <1> HIDE DEF noted
  <1>3. \A d \in Channels : min(d) \in Duty
    <2> SUFFICES ASSUME NEW d \in Channels PROVE min(d) \in Duty
      OBVIOUS
    <2>1. OrElse(noted[d].last, noted[d].before) \in Maybe
      BY <1>1 DEF Control, OrElse, Maybe
    <2> QED BY <2>1, ExitDutyType, FanAssumption
  <1> HIDE DEF min
  <1>4. \A d \in Channels : /\ ctl'[d] \in Control
                            /\ ctl'[d].last = noted[d].last
                            /\ ctl'[d].timed = noted[d].timed
                            /\ ctl'[d].exitMin = min(d)
    BY <1>1, <1>2, <1>3 DEF Control
  <1>5. ctl' \in [Channels -> Control]
    BY <1>2, <1>4
  <1>6. StopClockMeansStopped => StopClockMeansStopped'
    BY <1>1, <1>4, Zenon DEF StopClockMeansStopped
  <1>7. \A d \in Channels : ctl'[d].last = last_commanded_pct(d) /\ ctl'[d].exitMin # NoDuty
    BY <1>1, <1>3, <1>4 DEF Duty, NoDuty
  <1>8. /\ UNCHANGED <<port, board, generation, clearing, shown, op>>
        /\ seen' = generation
    BY <1>2, Zenon DEF deviceVars, cacheVars
  <1>9. FanTypeOK'
    BY <1>5, <1>8 DEF FanTypeOK
  <1> QED BY <1>6, <1>7, <1>8, <1>9

(* What a force writes is a duty. *)
LEMMA ForcedDutyType ==
    ASSUME FanTypeOK, EngineTypeOK, NEW c \in Channels PROVE ForcedDuty(c) \in Duty
  <1> DEFINE held == IF c \in task.held THEN {last_known_duty(c)} ELSE {}
             S == {NoSensorPct, task.duties[c]} \cup held
  <1>1. task.duties[c] \in Maybe
    BY DEF EngineTypeOK, Tasks
  <1>2. last_known_duty(c) \in Maybe
    BY KnownType
  <1>3. /\ NoSensorPct \in S /\ S \subseteq Maybe
        /\ NoSensorPct \in 1..99
    BY <1>1, <1>2, OpenFanAssumption DEF Maybe, Duty
  <1>4. \E x \in S : \A y \in S : x >= y
    <2>1. PICK m \in {NoSensorPct, task.duties[c]} :
             m >= NoSensorPct /\ m >= task.duties[c]
      BY <1>1, <1>3 DEF Maybe, Duty, NoDuty
    <2>2. m \in Maybe
      BY <1>1, <1>3, <2>1
    <2>3. CASE c \in task.held /\ last_known_duty(c) > m
      <3>1. \A y \in S : last_known_duty(c) >= y
        BY <1>1, <1>2, <1>3, <2>1, <2>2, <2>3 DEF Maybe, Duty, NoDuty
      <3> QED BY <2>3, <3>1
    <2>4. CASE c \notin task.held \/ ~(last_known_duty(c) > m)
      <3>1. \A y \in S : m >= y
        BY <1>1, <1>2, <1>3, <2>1, <2>2, <2>4 DEF Maybe, Duty, NoDuty
      <3> QED BY <2>1, <3>1
    <2> QED BY <2>3, <2>4
  <1> HIDE DEF S
  <1>5. Max(S) \in S /\ \A y \in S : Max(S) >= y
    BY <1>4, Zenon DEF Max
  <1>6. Max(S) \in Duty
    <2> DEFINE m == Max(S)
    <2>1. m \in Maybe /\ m >= NoSensorPct
      BY <1>3, <1>5, Zenon
    <2> HIDE DEF m
    <2>2. m \in Duty
      BY <1>3, <2>1 DEF Maybe, Duty, NoDuty
    <2> QED BY <2>2 DEF m
  <1>7. ForcedDuty(c) = IF task.kind = "emergency" THEN 100 ELSE Max(S)
    BY Zenon DEF ForcedDuty, S
  <1> QED BY <1>6, <1>7 DEF Duty

----------------------------------------------------------------------------
(* What a step leaves alone keeps its type. *)
LEMMA FanFrame == ASSUME FanTypeOK, UNCHANGED fanVars PROVE FanTypeOK'
  BY DEF FanTypeOK, fanVars, deviceVars, cacheVars

(* So does the controller when it lets go of its lock. *)
LEMMA ReturnFrame ==
    ASSUME FanTypeOK, op' = Idle, UNCHANGED <<deviceVars, cacheVars, seen, ctl>>
    PROVE  FanTypeOK'
  <1>1. Idle \in Calls
    BY FanAssumption DEF Idle, Calls, Channels, Duty
  <1> QED BY <1>1 DEF FanTypeOK, Calls, deviceVars, cacheVars

LEMMA EngineFrame ==
    ASSUME EngineTypeOK, NotedInv, generation' \in Nat, generation \in Nat,
           generation' >= generation, EngineLeaves
    PROVE  EngineTypeOK' /\ NotedInv'
  BY DEF EngineTypeOK, NotedInv, EngineLeaves, Tasks

LEMMA OthersFrame ==
    /\ CalTypeOK /\ UNCHANGED cal => CalTypeOK'
    /\ LinkTypeOK /\ UNCHANGED <<update, link, asleep>> => LinkTypeOK'
    /\ StopTypeOK /\ UNCHANGED stop => StopTypeOK'
    /\ LatchedInv /\ UNCHANGED <<stop, ctl>> => LatchedInv'
  BY DEF CalTypeOK, LinkTypeOK, StopTypeOK, LatchedInv

(* The invariant after a set_pwm that its caller began. *)
LEMMA CallFrame ==
    ASSUME TypeInv, NEW by \in {"engine", "calibration", "update", "stop"},
           NEW c \in Channels, NEW pct \in Duty, set_pwm(by, c, pct)
    PROVE  /\ FanTypeOK' /\ UNCHANGED generation
           /\ UNCHANGED stop => LatchedInv'
  BY SetPwmEffect DEF TypeInv, LatchedInv

----------------------------------------------------------------------------
(* Types, one group of actions at a time.  Every duty that reaches set_pwm *)
(* is one.                                                                 *)

LEMMA NoTaskType == NoTask \in Tasks /\ NoTask.kind = "none" /\ NoTask.at = 0
  BY DEF NoTask, Tasks, Maybe

LEMMA GiveBackType ==
    ASSUME EngineTypeOK
    PROVE  GiveBack \in Tasks /\ GiveBack.kind = "none" /\ GiveBack.at = 0
  BY NoTaskType DEF GiveBack, EngineTypeOK, Tasks

LEMMA TickTypes == ASSUME TypeInv, Tick PROVE TypeInv'
  <1>1. FanTypeOK /\ EngineTypeOK /\ NotedInv
    BY DEF TypeInv
  <1>2. /\ UNCHANGED fanVars /\ UNCHANGED <<cal, update, link, asleep, stop>>
        /\ UNCHANGED <<profile, skipped, rung, snapshot, lost>>
    BY DEF Tick, StartApply, StartForce, NoCall
  <1>3. FanTypeOK' /\ CalTypeOK' /\ LinkTypeOK' /\ StopTypeOK' /\ LatchedInv'
    BY <1>2, FanFrame, OthersFrame DEF TypeInv, fanVars
  <1>4. Members \subseteq Channels /\ Commanded \subseteq Members
    BY DEF Members, Commanded
  <1>5. CASE StartApply
    <2> DEFINE gives == engineHeld \ Members # {} \/ snapshot.taken
               new == [kind |-> "apply", step |-> "write", todo |-> Commanded,
                       put |-> Held \cap StillLost, gives |-> gives, duties |-> profile,
                       members |-> Members, held |-> {}, at |-> 0]
    <2>1. gives \in BOOLEAN
      BY <1>1 DEF EngineTypeOK
    <2>2. task' = new /\ engineHeld' = engineHeld \cup Commanded
      BY <1>5, Zenon DEF StartApply
    <2> HIDE DEF gives
    <2>3. new \in Tasks
      BY <1>1, <1>4, <2>1 DEF EngineTypeOK, Tasks, Held
    <2>4. \A c \in Commanded : profile[c] # NoDuty
      BY <1>4 DEF Members
    <2>5. EngineTypeOK'
      BY <1>1, <1>2, <1>4, <2>2, <2>3, <2>4 DEF EngineTypeOK
    <2>6. NotedInv'
      BY <1>1, <1>2, <2>2 DEF NotedInv, fanVars, cacheVars, FanTypeOK
    <2> QED BY <1>3, <2>5, <2>6 DEF TypeInv
  <1>6. CASE StartForce
    <2> DEFINE everything == rung = "emergency"
               duties == [c \in Channels |-> IF c \in Commanded THEN profile[c] ELSE NoDuty]
               new == [kind |-> rung, step |-> IF everything THEN "record" ELSE "write",
                       todo |-> IF everything THEN Channels ELSE Members,
                       put |-> {}, gives |-> ~everything, duties |-> duties,
                       members |-> Members, held |-> IF everything THEN {} ELSE Held,
                       at |-> 0]
    <2>1. duties \in [Channels -> Maybe]
      BY <1>1 DEF EngineTypeOK, Maybe
    <2>2. /\ task' = new /\ rung # "normal"
          /\ engineHeld' = IF everything THEN engineHeld ELSE engineHeld \cup Members
      BY <1>6, Zenon DEF StartForce
    <2>3. everything \in BOOLEAN
      OBVIOUS
    <2> HIDE DEF duties
    <2>4. new \in Tasks /\ new.kind # "apply"
      <3>1. CASE everything
        BY <1>1, <1>4, <2>1, <2>2, <3>1 DEF EngineTypeOK, Tasks, Held, Rungs
      <3>2. CASE ~everything
        BY <1>1, <1>4, <2>1, <2>2, <3>2 DEF EngineTypeOK, Tasks, Held, Rungs
      <3> QED BY <3>1, <3>2
    <2>5. new.at = 0
      OBVIOUS
    <2> HIDE DEF new
    <2>6. EngineTypeOK'
      BY <1>1, <1>2, <1>4, <2>2, <2>4 DEF EngineTypeOK
    <2>7. NotedInv'
      BY <1>1, <1>2, <2>2, <2>5 DEF NotedInv, fanVars, cacheVars, FanTypeOK
    <2> QED BY <1>3, <2>6, <2>7 DEF TypeInv
  <1> QED BY <1>5, <1>6 DEF Tick

LEMMA TaskTypes == ASSUME TypeInv, TaskStep PROVE TypeInv'
  <1>1. FanTypeOK /\ EngineTypeOK /\ NotedInv /\ generation \in Nat
    BY DEF TypeInv, FanTypeOK
  <1>2. TaskLeaves
    BY DEF TaskStep, RecordPreEmergency, WriteNext, PutBackNext, NoteLost, release_unheld,
           GiveBackNext, EngineReturned, NextLeg
  <1>3. CalTypeOK' /\ LinkTypeOK' /\ StopTypeOK'
    BY <1>2, OthersFrame DEF TypeInv, TaskLeaves
  <1>4. /\ task.todo \subseteq Channels
        /\ \A S \in SUBSET Channels : LET new == [task EXCEPT !.todo = S]
                                      IN  /\ new \in Tasks /\ new.kind = task.kind
                                          /\ new.step = task.step /\ new.todo = S
                                          /\ new.duties = task.duties /\ new.at = task.at
    BY <1>1 DEF EngineTypeOK, Tasks
  \* A task, what it may leave behind, and what it may not.
  <1> DEFINE TaskOK(t) == /\ t \in Tasks /\ t.at <= generation
                          /\ t.kind = "apply" =>
                                /\ t.step \in {"write", "put", "at", "mask"}
                                /\ t.step = "write" =>
                                      \A c \in t.todo : t.duties[c] # NoDuty
             FanOK == FanTypeOK' /\ UNCHANGED generation /\ LatchedInv'
             LostOK == /\ lost' \in [known : BOOLEAN, at : Nat, mask : SUBSET Channels]
                       /\ lost'.at <= generation
             SnapOK == snapshot' \in [taken : BOOLEAN, duties : [Channels -> Maybe]]
  <1>5. TaskOK(task) /\ task.at \in Nat
    BY <1>1 DEF EngineTypeOK, NotedInv, Tasks
  <1>6. \A S \in SUBSET Channels :
           S \subseteq task.todo => TaskOK([task EXCEPT !.todo = S])
    BY <1>4, <1>5
  <1>7. ASSUME FanOK, TaskOK(task'), LostOK, SnapOK, engineHeld' \subseteq Channels
        PROVE  TypeInv'
    <2>1. EngineTypeOK'
      BY <1>1, <1>2, <1>7 DEF EngineTypeOK, TaskLeaves
    <2> QED BY <1>3, <1>7, <2>1 DEF TypeInv, NotedInv
  <1>8. UNCHANGED snapshot => SnapOK
    BY <1>1 DEF EngineTypeOK
  <1>9. UNCHANGED lost => LostOK
    BY <1>1 DEF EngineTypeOK, NotedInv
  <1>10. engineHeld \subseteq Channels
    BY <1>1 DEF EngineTypeOK
  <1>11. UNCHANGED fanVars => FanOK
    BY <1>1, <1>2, FanFrame, OthersFrame DEF TypeInv, TaskLeaves, fanVars, cacheVars
  <1>12. ASSUME NEW c \in Channels, NEW pct \in Duty, set_pwm("engine", c, pct) PROVE FanOK
    BY <1>2, <1>12, CallFrame DEF TaskLeaves
  <1>13. task.todo # {} => Min(task.todo) \in task.todo
    BY <1>4, FirstChannel
  <1>14. \A d \in [Channels -> Maybe] :
            snapshot' = [taken |-> TRUE, duties |-> d] => SnapOK
    OBVIOUS
  <1>15. /\ snapshot' = NoSnapshot => SnapOK
         /\ snapshot' = [NoSnapshot EXCEPT !.taken = TRUE] => SnapOK
    <2> DEFINE none == [c \in Channels |-> NoDuty]
    <2>1. none \in [Channels -> Maybe]
      BY DEF Maybe
    <2>2. NoSnapshot = [taken |-> FALSE, duties |-> none]
      BY Zenon DEF NoSnapshot
    <2> HIDE DEF none
    <2>3. NoSnapshot \in [taken : BOOLEAN, duties : [Channels -> Maybe]]
      BY <2>1, <2>2
    <2>4. [NoSnapshot EXCEPT !.taken = TRUE]
             \in [taken : BOOLEAN, duties : [Channels -> Maybe]]
      BY <2>3
    <2> QED BY <2>3, <2>4, Zenon
  <1> HIDE DEF TaskOK, FanOK, LostOK, SnapOK
  <1>21. CASE RecordPreEmergency
    <2>1. FanOK /\ LostOK /\ engineHeld' \subseteq Channels
      BY <1>9, <1>10, <1>11, <1>21 DEF RecordPreEmergency, NoCall
    <2>2. \E s \in {"write", "read"} : task' = [task EXCEPT !.step = s]
      BY <1>21, Zenon DEF RecordPreEmergency
    <2>3. task.step \in {"record", "read"}
      BY <1>21 DEF RecordPreEmergency
    <2>4. TaskOK(task')
      BY <1>5, <2>2, <2>3 DEF TaskOK, Tasks
    <2>5. SnapOK
      <3> DEFINE known == [c \in Channels |-> last_known_duty(c)]
      <3>1. known \in [Channels -> Maybe]
        BY <1>1, KnownType
      <3>2. \/ UNCHANGED snapshot
            \/ snapshot' = [NoSnapshot EXCEPT !.taken = TRUE]
            \/ snapshot' = [taken |-> TRUE, duties |-> known]
        BY <1>21, Zenon DEF RecordPreEmergency
      <3> HIDE DEF known
      <3> QED BY <1>8, <1>14, <1>15, <3>1, <3>2
    <2> QED BY <1>7, <2>1, <2>4, <2>5
  <1>22. CASE WriteNext
    <2> DEFINE c == Min(task.todo)
               less == IF task.kind = "apply" THEN task.todo \ {c} ELSE {}
               pct == IF task.kind = "apply" THEN task.duties[c] ELSE ForcedDuty(c)
    <2>1. LostOK /\ SnapOK /\ engineHeld' \subseteq Channels
      BY <1>8, <1>9, <1>10, <1>22 DEF WriteNext
    <2>2. c \in task.todo /\ c \in Channels /\ task.step = "write"
      BY <1>4, <1>13, <1>22 DEF WriteNext
    <2>3. \/ task' = [task EXCEPT !.todo = less] /\ UNCHANGED fanVars
          \/ set_pwm("engine", c, pct) /\ UNCHANGED task
      BY <1>22, Zenon DEF WriteNext
    <2>4. less \subseteq task.todo /\ less \in SUBSET Channels
      BY <1>4
    <2>5. pct \in Duty
      <3>1. ForcedDuty(c) \in Duty
        BY <1>1, <2>2, ForcedDutyType
      <3>2. task.duties[c] \in Maybe
        BY <1>5, <2>2 DEF TaskOK, Tasks
      <3>3. task.kind = "apply" => task.duties[c] # NoDuty
        BY <1>5, <2>2 DEF TaskOK
      <3> QED BY <3>1, <3>2, <3>3 DEF Maybe
    <2> HIDE DEF c, less, pct
    <2>6. FanOK
      BY <1>11, <1>12, <2>2, <2>3, <2>5
    <2>7. TaskOK(task')
      BY <1>5, <1>6, <2>3, <2>4
    <2> QED BY <1>7, <2>1, <2>6, <2>7
  <1>23. CASE PutBackNext
    <2> DEFINE c == Min(task.todo)
    <2>1. LostOK /\ SnapOK /\ engineHeld' \subseteq Channels
      BY <1>8, <1>9, <1>10, <1>23 DEF PutBackNext
    <2>2. c \in task.todo /\ c \in Channels
      BY <1>4, <1>13, <1>23 DEF PutBackNext
    <2>3. \/ \E S \in {{}, task.todo \ {c}} :
                task' = [task EXCEPT !.todo = S] /\ UNCHANGED fanVars
          \/ /\ duty_before_loss(c) # NoDuty
             /\ set_pwm("engine", c, duty_before_loss(c)) /\ UNCHANGED task
      BY <1>23, Zenon DEF PutBackNext
    <2>4. duty_before_loss(c) \in Maybe
      BY <1>1, <2>2, KnownType
    <2> HIDE DEF c
    <2>5. FanOK
      BY <1>11, <1>12, <2>2, <2>3, <2>4 DEF Maybe
    <2>6. TaskOK(task')
      BY <1>4, <1>5, <1>6, <2>3
    <2> QED BY <1>7, <2>1, <2>5, <2>6
  <1>24. CASE NoteLost
    <2>1. FanOK /\ SnapOK /\ engineHeld' \subseteq Channels
      BY <1>8, <1>10, <1>11, <1>24 DEF NoteLost, NoCall
    <2>2. CASE /\ task.step = "at" /\ UNCHANGED lost
               /\ task' = [task EXCEPT !.step = "mask", !.at = generation]
      <3>1. generation <= generation /\ generation \in Nat
        BY <1>1
      <3>2. /\ task' \in Tasks /\ task'.at = generation /\ task'.kind = task.kind
            /\ task'.step = "mask"
        BY <1>5, <2>2, <3>1 DEF TaskOK, Tasks
      <3>3. TaskOK(task')
        BY <3>1, <3>2 DEF TaskOK
      <3> QED BY <1>7, <1>9, <2>1, <2>2, <3>3
    <2>3. CASE /\ lost' = [known |-> TRUE, at |-> task.at,
                           mask |-> {c \in Channels : duty_before_loss(c) # NoDuty}]
               /\ task' = GiveBack
      <3>1. LostOK
        BY <1>5, <2>3 DEF LostOK, TaskOK
      <3>2. TaskOK(task')
        BY <1>1, <2>3, GiveBackType DEF TaskOK
      <3> QED BY <1>7, <2>1, <3>1, <3>2
    <2> QED BY <1>24, <2>2, <2>3 DEF NoteLost
  <1>25. CASE release_unheld
    <2> DEFINE c == Min(task.todo)
               to == exit_duty(last_known_duty(c), ExitFloor)
    <2>1. LostOK /\ SnapOK
      BY <1>8, <1>9, <1>25 DEF release_unheld
    <2>2. c \in task.todo /\ c \in Channels
      BY <1>4, <1>13, <1>25 DEF release_unheld
    <2>3. \/ \E S \in {{}, task.todo \ {c}} :
                task' = [task EXCEPT !.todo = S] /\ UNCHANGED fanVars
          \/ set_pwm("engine", c, to) /\ UNCHANGED task
      BY <1>25, Zenon DEF release_unheld
    <2>4. engineHeld' = engineHeld \/ engineHeld' = engineHeld \ {c}
      BY <1>25, Zenon DEF release_unheld
    <2>5. to \in Duty
      BY <1>1, <2>2, KnownType, ExitDutyType, FanAssumption
    <2> HIDE DEF c, to
    <2>6. FanOK
      BY <1>11, <1>12, <2>2, <2>3, <2>5
    <2>7. TaskOK(task')
      BY <1>4, <1>5, <1>6, <2>3
    <2>8. engineHeld' \subseteq Channels
      BY <1>10, <2>4
    <2> QED BY <1>7, <2>1, <2>6, <2>7, <2>8
  <1>26. CASE GiveBackNext
    <2> DEFINE c == Min(task.todo)
               to == exit_duty(task.duties[c], ExitFloor)
    <2>1. LostOK /\ engineHeld' \subseteq Channels
      BY <1>9, <1>10, <1>26 DEF GiveBackNext
    <2>2. c \in task.todo /\ c \in Channels
      BY <1>4, <1>13, <1>26 DEF GiveBackNext
    <2>3. \/ /\ snapshot' = [taken |-> TRUE, duties |-> task.duties]
             /\ task' = [task EXCEPT !.todo = {}] /\ UNCHANGED fanVars
          \/ set_pwm("engine", c, to) /\ UNCHANGED <<task, snapshot>>
      BY <1>26, Zenon DEF GiveBackNext
    <2>4. task.duties \in [Channels -> Maybe]
      BY <1>5 DEF TaskOK, Tasks
    <2>5. to \in Duty
      BY <2>2, <2>4, ExitDutyType, FanAssumption
    <2> HIDE DEF c, to
    <2>6. FanOK
      BY <1>11, <1>12, <2>2, <2>3, <2>5
    <2>7. TaskOK(task')
      BY <1>4, <1>5, <1>6, <2>3
    <2>8. SnapOK
      BY <1>8, <1>14, <2>3, <2>4
    <2> QED BY <1>7, <2>1, <2>6, <2>7, <2>8
  <1>27. CASE EngineReturned
    <2>1. LostOK /\ SnapOK
      BY <1>8, <1>9, <1>27 DEF EngineReturned
    <2>2. FanOK
      BY <1>1, <1>2, <1>27, ReturnFrame, OthersFrame
         DEF FanOK, TypeInv, TaskLeaves, EngineReturned, cacheVars
    <2>3. op.ch \in Channels
      BY <1>1 DEF FanTypeOK
    <2>4. TaskOK(task')
      BY <1>4, <1>6, <1>27 DEF EngineReturned
    <2>5. engineHeld' \subseteq Channels
      BY <1>10, <1>27, <2>3 DEF EngineReturned
    <2> QED BY <1>7, <2>1, <2>2, <2>4, <2>5
  <1>28. CASE NextLeg
    <2> DEFINE back == {c \in Channels \ task.members : snapshot.duties[c] # NoDuty}
    <2>1. FanOK /\ LostOK /\ engineHeld' \subseteq Channels
      BY <1>9, <1>10, <1>11, <1>28 DEF NextLeg, NoCall
    <2>2. \/ /\ task.step = "write" /\ UNCHANGED snapshot
             /\ task' \in {GiveBack, [task EXCEPT !.step = "put", !.todo = task.put]}
          \/ /\ task.step = "put" /\ UNCHANGED snapshot
             /\ task' = [task EXCEPT !.step = "at"]
          \/ /\ task.step = "release" /\ snapshot' = NoSnapshot
             /\ task' = [task EXCEPT !.step = "give", !.todo = back,
                                     !.duties = snapshot.duties]
          \/ task' = NoTask /\ UNCHANGED snapshot
      BY <1>28, Zenon DEF NextLeg
    <2>3. SnapOK
      BY <1>8, <1>15, <2>2
    <2>4. TaskOK(task')
      <3>1. TaskOK(GiveBack) /\ TaskOK(NoTask)
        BY <1>1, GiveBackType, NoTaskType DEF TaskOK
      <3>2. task.step = "write" => TaskOK([task EXCEPT !.step = "put", !.todo = task.put])
        BY <1>5 DEF TaskOK, Tasks
      <3>3. task.step = "put" => TaskOK([task EXCEPT !.step = "at"])
        BY <1>5 DEF TaskOK, Tasks
      <3>4. snapshot.duties \in [Channels -> Maybe] /\ back \in SUBSET Channels
        BY <1>1 DEF EngineTypeOK
      <3> HIDE DEF back
      <3>5. task.step = "release" =>
              TaskOK([task EXCEPT !.step = "give", !.todo = back, !.duties = snapshot.duties])
        BY <1>5, <3>4 DEF TaskOK, Tasks
      <3> QED BY <2>2, <3>1, <3>2, <3>3, <3>5, Zenon
    <2> QED BY <1>7, <2>1, <2>3, <2>4
  <1> QED BY <1>21, <1>22, <1>23, <1>24, <1>25, <1>26, <1>27, <1>28 DEF TaskStep

LEMMA NoCalType ==
    NoCal \in [step : {"off", "claimed", "walk", "step", "failed", "kick", "kicked", "restore"},
               ch : Channels, pct : Duty, back : Duty, touched : BOOLEAN]
  BY FanAssumption DEF NoCal, Channels, Duty

LEMMA CalTypes ==
    ASSUME TypeInv,
           CalStep \/ (\E c \in Channels : CalClaims(c))
                   \/ (\E pct \in TestDuties : CalPassesGate(pct))
    PROVE  TypeInv'
  <1>1. FanTypeOK /\ EngineTypeOK /\ NotedInv /\ CalTypeOK /\ generation \in Nat
    BY DEF TypeInv, FanTypeOK
  <1>2. CalLeaves
    BY DEF CalStep, CalClaims, CalPassesGate, CalReadsOriginal, CalEnds, CalRestores,
           CalWrites, CalReturned
  <1>3. EngineLeaves /\ LinkTypeOK' /\ StopTypeOK'
    BY <1>2, OthersFrame DEF TypeInv, CalLeaves
  <1> DEFINE FanOK == FanTypeOK' /\ UNCHANGED generation /\ LatchedInv'
  <1>4. ASSUME FanOK, CalTypeOK' PROVE TypeInv'
    <2>1. EngineTypeOK' /\ NotedInv'
      BY <1>1, <1>3, <1>4, EngineFrame
    <2> QED BY <1>3, <1>4, <2>1 DEF TypeInv
  <1>5. UNCHANGED fanVars => FanOK
    BY <1>1, <1>2, FanFrame, OthersFrame DEF TypeInv, CalLeaves, fanVars, cacheVars
  <1> HIDE DEF FanOK
  <1>6. cal.ch \in Channels /\ cal.pct \in Duty /\ cal.back \in Duty /\ 100 \in Duty
    BY <1>1 DEF CalTypeOK, Duty
  <1>7. ASSUME NEW c \in Channels, CalClaims(c) PROVE TypeInv'
    <2>1. cal' = [NoCal EXCEPT !.step = "claimed", !.ch = c] /\ FanOK
      BY <1>5, <1>7 DEF CalClaims, NoCall
    <2>2. CalTypeOK'
      BY <1>1, <2>1, NoCalType DEF CalTypeOK
    <2> QED BY <1>4, <2>1, <2>2
  <1>8. ASSUME NEW pct \in TestDuties, CalPassesGate(pct) PROVE TypeInv'
    <2>1. cal' = [cal EXCEPT !.step = "step", !.pct = pct, !.touched = TRUE] /\ FanOK
      BY <1>5, <1>8 DEF CalPassesGate, NoCall
    <2>2. CalTypeOK'
      BY <1>1, <2>1, OpenFanAssumption DEF CalTypeOK
    <2> QED BY <1>4, <2>1, <2>2
  <1>9. CASE CalReadsOriginal
    <2> DEFINE back == exit_duty(last_known_duty(cal.ch), 0)
    <2>1. cal' = [cal EXCEPT !.step = "walk", !.back = back] /\ FanOK
      BY <1>5, <1>9 DEF CalReadsOriginal, NoCall
    <2>2. back \in Duty
      <3>1. 0 \in Duty
        BY DEF Duty
      <3> QED BY <1>1, <1>6, <3>1, KnownType, ExitDutyType
    <2> HIDE DEF back
    <2>3. CalTypeOK'
      BY <1>1, <2>1, <2>2 DEF CalTypeOK
    <2> QED BY <1>4, <2>1, <2>3
  <1>10. CASE CalEnds
    <2>1. FanOK
      BY <1>5, <1>10 DEF CalEnds, NoCall
    <2>2. CalTypeOK'
      BY ZenonT(60), <1>1, <1>6, <1>10, NoCalType DEF CalEnds, CalTypeOK
    <2> QED BY <1>4, <2>1, <2>2
  <1>11. CASE CalRestores
    <2>1. FanOK
      BY <1>5, <1>11 DEF CalRestores, NoCall
    <2>2. CalTypeOK'
      BY <1>1, <1>11, NoCalType DEF CalRestores, CalTypeOK
    <2> QED BY <1>4, <2>1, <2>2
  <1>12. CASE CalWrites
    <2>1. set_pwm("calibration", cal.ch, cal.pct) /\ UNCHANGED cal
      BY <1>12 DEF CalWrites
    <2>2. FanOK
      BY <1>2, <1>6, <2>1, CallFrame DEF FanOK, CalLeaves
    <2> QED BY <1>1, <1>4, <2>1, <2>2, OthersFrame
  <1>13. CASE CalReturned
    <2>1. FanOK
      BY <1>1, <1>2, <1>13, ReturnFrame, OthersFrame
         DEF FanOK, TypeInv, CalLeaves, CalReturned, cacheVars
    <2>2. CalTypeOK'
      BY <1>1, <1>6, <1>13, NoCalType DEF CalReturned, CalTypeOK
    <2> QED BY <1>4, <2>1, <2>2
  <1> QED BY <1>7, <1>8, <1>9, <1>10, <1>11, <1>12, <1>13 DEF CalStep

(* The poll loop, the machine, the update and the invalidations they make. *)
LEMMA LinkTypes ==
    ASSUME TypeInv, PollStep \/ UpdateStep \/ PortDies \/ HostSleeps \/ suspend_openfan_writes
    PROVE  TypeInv'
  <1>1. FanTypeOK /\ EngineTypeOK /\ NotedInv /\ LinkTypeOK /\ generation \in Nat
    BY DEF TypeInv, FanTypeOK
  <1>2. EngineLeaves /\ UNCHANGED <<cal, stop>>
    BY DEF PollStep, UpdateStep, PortDies, HostSleeps, suspend_openfan_writes,
           release_adopted_port, adopt_reconnected_transport, PollAdopts, PollTakesBack,
           set_resume_detected, InvalidationEnds, UpdateParks, UpdateReturned, UpdateGoesOn,
           PollLends, PollLeaves, UpdateLeaves
  <1>3. CalTypeOK' /\ StopTypeOK'
    BY <1>2, OthersFrame DEF TypeInv
  <1> DEFINE FanOK == FanTypeOK' /\ generation' \in Nat /\ generation' >= generation
                      /\ LatchedInv'
  <1>4. ASSUME FanOK, LinkTypeOK' PROVE TypeInv'
    <2>1. EngineTypeOK' /\ NotedInv'
      BY <1>1, <1>2, <1>4, EngineFrame
    <2> QED BY <1>3, <1>4, <2>1 DEF TypeInv
  <1>5. UNCHANGED fanVars => FanOK
    BY <1>1, <1>2, FanFrame, OthersFrame DEF TypeInv, fanVars, cacheVars
  <1>6. UNCHANGED ctl => LatchedInv'
    BY <1>2, OthersFrame DEF TypeInv
  <1>7. [c \in Channels |-> PowerOn] \in [Channels -> Duty]
        /\ [c \in Channels |-> NoDuty] \in [Channels -> Duty \cup {NoDuty}]
    BY FanAssumption
  <1>8. ASSUME /\ board' \in {board, [c \in Channels |-> PowerOn]}
               /\ port' \in {"board", "dead", "none", "lent"}
               /\ \/ UNCHANGED cacheVars
                  \/ \E by \in {"poll", "resume", "update"} : InvalidateBegin(by)
               /\ UNCHANGED <<seen, ctl, op>>
        PROVE  FanOK
    <2>1. /\ generation' \in {generation, generation + 1} /\ UNCHANGED shown
          /\ \E by \in {"poll", "resume", "update"} : clearing' \in {clearing, clearing \cup {by}}
      BY <1>8, Zenon DEF cacheVars, InvalidateBegin
    <2>2. /\ generation' \in Nat /\ generation' >= generation
          /\ clearing' \subseteq {"poll", "resume", "update"}
      BY <1>1, <2>1 DEF FanTypeOK
    <2>3. board' \in [Channels -> Duty]
      BY <1>1, <1>7, <1>8 DEF FanTypeOK
    <2>4. seen' \in 0..generation'
      BY <1>1, <1>8, <2>2 DEF FanTypeOK
    <2> QED BY <1>1, <1>6, <1>8, <2>1, <2>2, <2>3, <2>4 DEF FanTypeOK
  <1>9. port \in {"board", "dead", "none", "lent"}
    BY <1>1 DEF FanTypeOK
  <1>10. NoUpdate \in [step : {"none", "parking", "lent", "boot", "offered", "recovery"},
                       todo : SUBSET Channels]
    BY DEF NoUpdate
  <1>11. UNCHANGED <<update, link, asleep>> => LinkTypeOK'
    BY <1>1, OthersFrame
  <1> HIDE DEF FanOK
  <1>20. CASE PortDies
    BY <1>4, <1>8, <1>11, <1>20 DEF PortDies
  <1>21. CASE HostSleeps
    <2>1. FanOK
      BY <1>8, <1>9, <1>21 DEF HostSleeps
    <2>2. LinkTypeOK'
      BY <1>1, <1>21 DEF HostSleeps, LinkTypeOK
    <2> QED BY <1>4, <2>1, <2>2
  <1>22. CASE suspend_openfan_writes
    <2>1. FanOK
      BY <1>5, <1>22 DEF suspend_openfan_writes, NoCall
    <2>2. LinkTypeOK'
      BY <1>1, <1>22 DEF suspend_openfan_writes, UpdateLeaves, LinkTypeOK
    <2> QED BY <1>4, <2>1, <2>2
  <1>23. CASE release_adopted_port
    <2>1. FanOK
      BY <1>8, <1>23 DEF release_adopted_port
    <2>2. LinkTypeOK'
      BY <1>1, <1>23 DEF release_adopted_port, LinkTypeOK
    <2> QED BY <1>4, <2>1, <2>2
  <1>24. CASE adopt_reconnected_transport
    <2>1. FanOK
      BY <1>8, <1>9, <1>24 DEF adopt_reconnected_transport, deviceVars
    <2>2. LinkTypeOK'
      BY <1>1, <1>24 DEF adopt_reconnected_transport, LinkTypeOK
    <2> QED BY <1>4, <2>1, <2>2
  <1>25. CASE PollAdopts
    <2>1. FanOK
      BY <1>8, <1>25 DEF PollAdopts
    <2>2. LinkTypeOK'
      BY <1>1, <1>10, <1>25 DEF PollAdopts, LinkTypeOK
    <2> QED BY <1>4, <2>1, <2>2
  <1>26. CASE PollTakesBack
    <2>1. FanOK
      BY <1>8, <1>9, <1>26 DEF PollTakesBack
    <2>2. LinkTypeOK'
      BY <1>1, <1>26 DEF PollTakesBack, LinkTypeOK
    <2> QED BY <1>4, <2>1, <2>2
  <1>27. CASE set_resume_detected
    <2>1. FanOK
      BY <1>8, <1>9, <1>27 DEF set_resume_detected, deviceVars
    <2>2. LinkTypeOK'
      BY <1>1, <1>27 DEF set_resume_detected, LinkTypeOK
    <2> QED BY <1>4, <2>1, <2>2
  <1>28. ASSUME NEW by \in {"poll", "resume", "update"}, InvalidationEnds(by) PROVE TypeInv'
    <2>1. /\ clearing' = clearing \ {by} /\ shown' = [c \in Channels |-> NoDuty]
          /\ UNCHANGED <<generation, port, board, seen, ctl, op, update, link, asleep>>
      BY <1>28 DEF InvalidationEnds, InvalidateEnd, deviceVars
    <2>2. FanOK
      BY <1>1, <1>6, <1>7, <2>1 DEF FanOK, FanTypeOK
    <2> QED BY <1>4, <1>11, <2>1, <2>2
  <1>29. CASE UpdateParks
    <2> DEFINE c == Min(update.todo)
    <2>1. update.todo \subseteq Channels /\ update.todo # {} /\ 100 \in Duty
      BY <1>1, <1>29 DEF UpdateParks, LinkTypeOK, Duty
    <2>2. c \in Channels
      BY <2>1, FirstChannel
    <2>3. set_pwm("update", c, 100) /\ UNCHANGED <<update, link, asleep>>
      BY <1>29 DEF UpdateParks, UpdateLeaves
    <2> HIDE DEF c
    <2>4. FanOK
      BY <1>1, <1>2, <2>1, <2>2, <2>3, CallFrame DEF FanOK
    <2> QED BY <1>4, <1>11, <2>3, <2>4
  <1>30. CASE UpdateReturned
    <2>1. /\ op' = Idle /\ UNCHANGED <<deviceVars, cacheVars, seen, ctl>>
          /\ UNCHANGED <<link, asleep>>
          /\ update' = [update EXCEPT !.todo = @ \ {op.ch}] \/ update' = NoUpdate
      BY <1>30 DEF UpdateReturned, UpdateLeaves
    <2>2. FanOK
      BY <1>1, <1>6, <2>1, ReturnFrame DEF FanOK, cacheVars
    <2>3. LinkTypeOK'
      BY <1>1, <1>10, <2>1 DEF LinkTypeOK
    <2> QED BY <1>4, <2>2, <2>3
  <1>31. CASE UpdateGoesOn
    <2>1. FanOK
      BY <1>8, <1>9, <1>31 DEF UpdateGoesOn
    <2>2. LinkTypeOK'
      BY <1>1, <1>10, <1>31 DEF UpdateGoesOn, UpdateLeaves, LinkTypeOK
    <2> QED BY <1>4, <2>1, <2>2
  <1>32. CASE PollLends
    <2>1. FanOK
      BY <1>8, <1>9, <1>32 DEF PollLends
    <2>2. LinkTypeOK'
      BY <1>1, <1>10, <1>32 DEF PollLends, LinkTypeOK
    <2> QED BY <1>4, <2>1, <2>2
  <1> QED BY <1>20, <1>21, <1>22, <1>23, <1>24, <1>25, <1>26, <1>27, <1>28, <1>29, <1>30,
             <1>31, <1>32 DEF PollStep, UpdateStep

LEMMA StopTypes == ASSUME TypeInv, StopStep \/ Shutdown PROVE TypeInv'
  <1>1. FanTypeOK /\ EngineTypeOK /\ NotedInv /\ StopTypeOK /\ generation \in Nat
    BY DEF TypeInv, FanTypeOK
  <1>2. EngineLeaves /\ UNCHANGED <<cal, update, link, asleep>>
    BY DEF StopStep, Shutdown, apply_exit_floor, FloorNext, FloorReturned, Floored, StopLeaves
  <1>3. CalTypeOK' /\ LinkTypeOK'
    BY <1>2, OthersFrame DEF TypeInv
  <1>4. ASSUME FanTypeOK', UNCHANGED generation, StopTypeOK', LatchedInv' PROVE TypeInv'
    <2>1. EngineTypeOK' /\ NotedInv'
      BY <1>1, <1>2, <1>4, EngineFrame
    <2> QED BY <1>3, <1>4, <2>1 DEF TypeInv
  <1>5. UNCHANGED fanVars => FanTypeOK' /\ UNCHANGED <<generation, ctl>>
    BY <1>1, FanFrame DEF fanVars, cacheVars
  <1>6. CASE Shutdown
    <2>1. stop' = [stop EXCEPT !.stage = "stopping"] /\ UNCHANGED fanVars
      BY <1>6 DEF Shutdown, NoCall
    <2>2. StopTypeOK' /\ LatchedInv'
      BY <1>1, <2>1 DEF StopTypeOK, LatchedInv
    <2> QED BY <1>4, <1>5, <2>1, <2>2
  <1>7. CASE apply_exit_floor
    <2>1. LatchExitFloor
          /\ stop' = [stage |-> "flooring", todo |-> {c \in Channels : ctl[c].written}]
      BY <1>7 DEF apply_exit_floor
    <2>2. FanTypeOK' /\ UNCHANGED generation /\ \A c \in Channels : ctl'[c].exitMin # NoDuty
      BY <1>1, <2>1, LatchEffect
    <2>3. StopTypeOK'
      BY <2>1 DEF StopTypeOK
    <2>4. LatchedInv'
      BY <2>2 DEF LatchedInv
    <2> QED BY <1>4, <2>2, <2>3, <2>4
  <1>8. CASE FloorNext
    <2> DEFINE c == Min(stop.todo)
    <2>1. /\ stop.stage = "flooring" /\ set_pwm("stop", c, ctl[c].exitMin) /\ UNCHANGED stop
          /\ stop.todo # {} /\ stop.todo \subseteq Channels
      BY <1>1, <1>8 DEF FloorNext, StopTypeOK
    <2>2. c \in Channels
      BY <2>1, FirstChannel
    <2> HIDE DEF c
    <2>3. ctl[c].exitMin \in Duty
      BY <1>1, <2>1, <2>2 DEF TypeInv, LatchedInv, FanTypeOK, Control
    <2>4. FanTypeOK' /\ UNCHANGED generation /\ LatchedInv'
      BY <2>1, <2>2, <2>3, CallFrame
    <2> QED BY <1>1, <1>4, <2>1, <2>4, OthersFrame
  <1>9. CASE FloorReturned
    <2>1. /\ op' = Idle /\ UNCHANGED <<deviceVars, cacheVars, seen, ctl>>
          /\ stop' = [stop EXCEPT !.todo = @ \ {op.ch}]
      BY <1>9 DEF FloorReturned
    <2>2. FanTypeOK' /\ UNCHANGED generation
      BY <1>1, <2>1, ReturnFrame DEF cacheVars
    <2>3. StopTypeOK' /\ LatchedInv'
      BY <1>1, <2>1 DEF StopTypeOK, LatchedInv, TypeInv
    <2> QED BY <1>4, <2>2, <2>3
  <1>10. CASE Floored
    <2>1. stop' = [stop EXCEPT !.stage = "floored"] /\ UNCHANGED fanVars
      BY <1>10 DEF Floored, NoCall
    <2>2. StopTypeOK' /\ LatchedInv'
      BY <1>1, <2>1 DEF StopTypeOK, LatchedInv
    <2> QED BY <1>4, <1>5, <2>1, <2>2
  <1> QED BY <1>6, <1>7, <1>8, <1>9, <1>10 DEF StopStep

LEMMA SerialTypes == ASSUME TypeInv, SerialStep \/ SerialFails PROVE TypeInv'
  <1>1. FanTypeOK /\ EngineTypeOK /\ NotedInv /\ generation \in Nat
    BY DEF TypeInv, FanTypeOK
  <1>2. EngineLeaves /\ UNCHANGED othersVars
    BY DEF SerialStep, SerialFails
  <1>3. Exchange \/ \E lands \in BOOLEAN : ExchangeFails(lands)
    BY DEF SerialStep, SerialFails
  <1>4. /\ FanTypeOK' /\ UNCHANGED generation
        /\ \A d \in Channels : ctl'[d].exitMin = ctl[d].exitMin
    BY <1>1, <1>3, ExchangeEffect, ExchangeFailsEffect
  <1>5. EngineTypeOK' /\ NotedInv'
    BY <1>1, <1>2, <1>4, EngineFrame
  <1>6. CalTypeOK' /\ LinkTypeOK' /\ StopTypeOK'
    BY <1>2, OthersFrame DEF TypeInv, othersVars
  <1>7. LatchedInv'
    BY <1>2, <1>4 DEF TypeInv, LatchedInv, othersVars
  <1> QED BY <1>4, <1>5, <1>6, <1>7 DEF TypeInv

(* The decision, the profile and its sensors. *)
LEMMA DecideTypes ==
    ASSUME TypeInv, \/ \E r \in Rungs : Decide(r)
                    \/ \E p \in Profiles : Activate(p)
                    \/ \E s \in SUBSET Skippable : Skip(s)
    PROVE  TypeInv'
  <1>1. FanTypeOK /\ EngineTypeOK /\ NotedInv
    BY DEF TypeInv
  <1>2. /\ UNCHANGED fanVars /\ UNCHANGED <<cal, update, link, asleep, stop>>
        /\ UNCHANGED <<task, engineHeld, snapshot, lost>>
    BY DEF Decide, Activate, Skip, NoCall
  <1>3. FanTypeOK' /\ CalTypeOK' /\ LinkTypeOK' /\ StopTypeOK' /\ LatchedInv'
    BY <1>2, FanFrame, OthersFrame DEF TypeInv, fanVars
  <1>4. NotedInv'
    BY <1>1, <1>2 DEF NotedInv, fanVars, cacheVars
  <1>5. profile' \in [Channels -> Maybe] /\ skipped' \subseteq Channels /\ rung' \in Rungs
    <2>1. profile \in [Channels -> Maybe] /\ skipped \subseteq Channels /\ rung \in Rungs
      BY <1>1 DEF EngineTypeOK
    <2>2. ASSUME NEW r \in Rungs, Decide(r) PROVE <1>5!:
      BY <2>1, <2>2 DEF Decide
    <2>3. ASSUME NEW p \in Profiles, Activate(p) PROVE <1>5!:
      BY <2>1, <2>3, OpenFanAssumption DEF Activate, Maybe
    <2>4. ASSUME NEW s \in SUBSET Skippable, Skip(s) PROVE <1>5!:
      BY <2>1, <2>4, OpenFanAssumption DEF Skip
    <2> QED BY <2>2, <2>3, <2>4
  <1>6. EngineTypeOK'
    BY <1>1, <1>2, <1>5 DEF EngineTypeOK
  <1> QED BY <1>3, <1>4, <1>6 DEF TypeInv

LEMMA InitTypes == ASSUME Init PROVE TypeInv
  <1>1. FanTypeOK
    <2>1. /\ NoControl \in Control /\ Idle \in Calls
      BY FanAssumption DEF NoControl, Control, Idle, Calls, Channels, Duty, NoDuty
    <2>2. ctl \in [Channels -> Control]
      BY <2>1 DEF Init, FanInit
    <2>3. board \in [Channels -> Duty] /\ shown \in [Channels -> Duty \cup {NoDuty}]
      BY FanAssumption DEF Init, FanInit
    <2> QED BY <2>1, <2>2, <2>3 DEF Init, FanInit, FanTypeOK, Calls
  <1>2. EngineTypeOK /\ NotedInv
    <2>1. /\ profile \in Persisted /\ skipped = {} /\ rung = "normal"
          /\ task = NoTask /\ engineHeld = {} /\ snapshot = NoSnapshot
          /\ lost = [known |-> FALSE, at |-> 0, mask |-> {}] /\ generation = 0
      BY DEF Init, FanInit
    <2>2. profile \in [Channels -> Maybe]
      BY <2>1, OpenFanAssumption DEF Maybe
    <2>3. snapshot \in [taken : BOOLEAN, duties : [Channels -> Maybe]]
      BY <2>1 DEF NoSnapshot, Maybe
    <2> QED BY <2>1, <2>2, <2>3, NoTaskType DEF EngineTypeOK, NotedInv, Rungs
  <1>3. CalTypeOK
    BY NoCalType DEF Init, CalTypeOK
  <1>4. LinkTypeOK /\ StopTypeOK /\ LatchedInv
    BY DEF Init, LinkTypeOK, NoUpdate, StopTypeOK, LatchedInv
  <1> QED BY <1>1, <1>2, <1>3, <1>4 DEF TypeInv

LEMMA StutterTypes == ASSUME TypeInv, UNCHANGED vars PROVE TypeInv'
  <1>1. UNCHANGED fanVars /\ EngineLeaves /\ UNCHANGED <<cal, update, link, asleep, stop>>
    BY DEF vars, engineVars, othersVars, EngineLeaves
  <1>2. FanTypeOK' /\ CalTypeOK' /\ LinkTypeOK' /\ StopTypeOK' /\ LatchedInv'
    BY <1>1, FanFrame, OthersFrame DEF TypeInv, fanVars
  <1>3. EngineTypeOK' /\ NotedInv'
    BY <1>1 DEF TypeInv, EngineTypeOK, NotedInv, EngineLeaves, fanVars, cacheVars
  <1> QED BY <1>2, <1>3 DEF TypeInv

LEMMA NextTypes == TypeInv /\ [Next]_vars => TypeInv'
  <1> SUFFICES ASSUME TypeInv, [Next]_vars PROVE TypeInv'
    OBVIOUS
  <1>1. CASE Environment
    BY <1>1, DecideTypes, CalTypes, SerialTypes, LinkTypes, StopTypes DEF Environment
  <1>2. CASE Tick \/ TaskStep
    BY <1>2, TickTypes, TaskTypes
  <1>3. CASE SerialStep \/ CalStep
    BY <1>3, SerialTypes, CalTypes
  <1>4. CASE PollStep \/ UpdateStep \/ StopStep
    BY <1>4, LinkTypes, StopTypes
  <1>5. CASE UNCHANGED vars
    BY <1>5, StutterTypes
  <1> QED BY <1>1, <1>2, <1>3, <1>4, <1>5 DEF Next

LEMMA Typed == Spec => []TypeInv
  BY InitTypes, NextTypes, PTL DEF Spec

(* Every variable of OpenFan keeps its type, for any number of channels    *)
(* and any profiles.  In particular every duty that reaches the wire, the  *)
(* minima latched by the exit floor and the duties put back after a loss   *)
(* among them, is a percentage and never a missing one.                    *)
THEOREM TypesHold == Spec => []TypeOK
  <1>1. TypeInv => TypeOK
    <2> SUFFICES ASSUME TypeInv PROVE TypeOK
      OBVIOUS
    <2>1. lost.at \in 0..generation
      BY DEF TypeInv, EngineTypeOK, NotedInv, FanTypeOK
    <2> QED BY <2>1 DEF TypeInv, TypeOK, EngineTypeOK, CalTypeOK, LinkTypeOK, StopTypeOK,
                        Tasks, Maybe
  <1> QED BY <1>1, Typed, PTL

----------------------------------------------------------------------------
(* What a step may do to what the controller knows.  It observes when it   *)
(* takes note of the generation: what it stands by stays what it was.      *)
Observes ==
    /\ UNCHANGED <<deviceVars, cacheVars>> /\ seen' = generation
    /\ \A d \in Channels : ctl'[d].last = last_commanded_pct(d)
    /\ StopClockMeansStopped => StopClockMeansStopped'

KnowledgeStep ==
    \/ UNCHANGED <<cacheVars, seen, ctl>>
    \/ Observes
    \/ Exchange
    \/ \E lands \in BOOLEAN : ExchangeFails(lands)
    \/ (\E by \in {"poll", "resume", "update"} : InvalidateBegin(by)) /\ UNCHANGED <<seen, ctl>>
    \/ \E by \in {"poll", "resume", "update"} : InvalidateEnd(by)

LEMMA CallObserves ==
    ASSUME FanTypeOK, NEW by, NEW c \in Channels, NEW pct, set_pwm(by, c, pct)
    PROVE  Observes
  BY SetPwmKeeps DEF Observes

(* The steps of every actor but the poll loop, the update and the wire, as *)
(* far as the controller can tell.                                         *)
OutsideStep ==
    \/ Tick \/ TaskStep \/ CalStep \/ StopStep \/ Shutdown \/ UNCHANGED vars
    \/ \E r \in Rungs : Decide(r)
    \/ \E p \in Profiles : Activate(p)
    \/ \E s \in SUBSET Skippable : Skip(s)
    \/ \E c \in Channels : CalClaims(c)
    \/ \E pct \in TestDuties : CalPassesGate(pct)

LEMMA OutsideCalls ==
    ASSUME TypeInv, OutsideStep
    PROVE  \/ UNCHANGED fanVars
           \/ op' = Idle /\ UNCHANGED <<deviceVars, cacheVars, seen, ctl>>
           \/ LatchExitFloor
           \/ \E by \in {"engine", "calibration", "stop"}, c \in Channels : \E pct :
                 set_pwm(by, c, pct)
  <1>0. CalTypeOK /\ StopTypeOK /\ task.todo \subseteq Channels
    BY DEF TypeInv, EngineTypeOK, Tasks
  <1>1. CASE TaskStep
    <2>1. CASE WriteNext \/ PutBackNext \/ release_unheld \/ GiveBackNext
      <3>1. task.todo # {}
        BY <2>1 DEF WriteNext, PutBackNext, release_unheld, GiveBackNext
      <3>2. Min(task.todo) \in Channels
        BY <1>0, <3>1, FirstChannel
      <3>3. UNCHANGED fanVars \/ \E pct : set_pwm("engine", Min(task.todo), pct)
        BY <2>1, Zenon DEF WriteNext, PutBackNext, release_unheld, GiveBackNext
      <3> QED BY <3>2, <3>3, Zenon
    <2>2. CASE EngineReturned
      BY <2>2 DEF EngineReturned
    <2>3. CASE RecordPreEmergency \/ NoteLost \/ NextLeg
      BY <2>3, Zenon DEF RecordPreEmergency, NoteLost, NextLeg, NoCall
    <2> QED BY <1>1, <2>1, <2>2, <2>3 DEF TaskStep
  <1>2. CASE CalStep
    <2>1. CASE CalWrites
      <3>1. cal.ch \in Channels /\ set_pwm("calibration", cal.ch, cal.pct)
        BY <1>0, <2>1 DEF CalWrites, CalTypeOK
      <3> QED BY <3>1, Zenon
    <2>2. CASE CalReturned
      BY <2>2 DEF CalReturned
    <2>3. CASE CalReadsOriginal \/ CalEnds \/ CalRestores
      BY <2>3 DEF CalReadsOriginal, CalEnds, CalRestores, NoCall
    <2> QED BY <1>2, <2>1, <2>2, <2>3 DEF CalStep
  <1>3. CASE StopStep
    <2>1. CASE FloorNext
      <3>1. Min(stop.todo) \in Channels
        BY <1>0, <2>1, FirstChannel DEF FloorNext, StopTypeOK
      <3>2. set_pwm("stop", Min(stop.todo), ctl[Min(stop.todo)].exitMin)
        BY <2>1, Zenon DEF FloorNext
      <3> QED BY <3>1, <3>2, Zenon
    <2>2. CASE apply_exit_floor \/ FloorReturned \/ Floored
      BY SMTT(30), ZenonT(30), <2>2 DEF apply_exit_floor, FloorReturned, Floored, NoCall
    <2> QED BY <1>3, <2>1, <2>2 DEF StopStep
  <1>4. CASE ~(TaskStep \/ CalStep \/ StopStep)
    BY <1>4 DEF OutsideStep, Tick, StartApply, StartForce, Shutdown, Decide, Activate, Skip,
                CalClaims, CalPassesGate, NoCall, vars
  <1> QED BY <1>1, <1>2, <1>3, <1>4

LEMMA Knowledge == ASSUME TypeInv, [Next]_vars PROVE KnowledgeStep
  <1>1. FanTypeOK /\ LinkTypeOK
    BY DEF TypeInv
  <1>2. UNCHANGED fanVars => KnowledgeStep
    BY DEF fanVars, KnowledgeStep
  <1>3. CASE OutsideStep
    <2>1. CASE op' = Idle /\ UNCHANGED <<deviceVars, cacheVars, seen, ctl>>
      BY <2>1 DEF KnowledgeStep
    <2>2. CASE LatchExitFloor
      <3>1. Observes
        BY <1>1, <2>2, LatchEffect DEF Observes, deviceVars, cacheVars
      <3> QED BY <3>1 DEF KnowledgeStep
    <2>3. ASSUME NEW by, NEW c \in Channels, NEW pct, set_pwm(by, c, pct) PROVE KnowledgeStep
      BY <1>1, <2>3, CallObserves DEF KnowledgeStep
    <2> QED BY <1>2, <1>3, <2>1, <2>2, <2>3, OutsideCalls
  <1>4. CASE SerialStep \/ SerialFails
    BY <1>4 DEF SerialStep, SerialFails, KnowledgeStep
  <1>5. CASE PollStep
    <2>1. CASE release_adopted_port \/ PollAdopts
      BY <2>1 DEF release_adopted_port, PollAdopts, KnowledgeStep
    <2>2. CASE adopt_reconnected_transport \/ set_resume_detected
      BY <2>2 DEF adopt_reconnected_transport, set_resume_detected, KnowledgeStep
    <2>3. CASE PollTakesBack
      BY <2>3 DEF PollTakesBack, KnowledgeStep
    <2>4. ASSUME NEW by \in {"poll", "resume", "update"}, InvalidationEnds(by)
          PROVE  KnowledgeStep
      BY <2>4 DEF InvalidationEnds, KnowledgeStep
    <2> QED BY <1>5, <2>1, <2>2, <2>3, <2>4 DEF PollStep
  <1>6. CASE UpdateStep
    <2>1. CASE UpdateParks
      <3>1. Min(update.todo) \in Channels
        BY <1>1, <2>1, FirstChannel DEF UpdateParks, LinkTypeOK
      <3>2. set_pwm("update", Min(update.todo), 100)
        BY <2>1 DEF UpdateParks
      <3> QED BY <1>1, <3>1, <3>2, CallObserves DEF KnowledgeStep
    <2>2. CASE UpdateReturned \/ PollLends
      BY <2>2 DEF UpdateReturned, PollLends, KnowledgeStep
    <2>3. CASE UpdateGoesOn
      BY <2>3 DEF UpdateGoesOn, KnowledgeStep
    <2> QED BY <1>6, <2>1, <2>2, <2>3 DEF UpdateStep
  <1>7. CASE PortDies \/ HostSleeps
    BY <1>7 DEF PortDies, HostSleeps, KnowledgeStep
  <1>8. CASE suspend_openfan_writes
    BY <1>2, <1>8 DEF suspend_openfan_writes, NoCall
  <1> QED BY <1>3, <1>4, <1>5, <1>6, <1>7, <1>8 DEF Next, Environment, OutsideStep

(* The stop clock of a channel runs exactly while its last duty is a 0 %   *)
(* that the board took, through coalesced and refused writes, failed       *)
(* exchanges and every loss: a 0 % that a loss made necessary again is     *)
(* never refused as a stop that lasts too long.                            *)
THEOREM StopClocksHold == Spec => []StopClockMeansStopped
  <1>1. Init => StopClockMeansStopped
    BY DEF Init, FanInit, NoControl, NoDuty, StopClockMeansStopped
  <1>2. ASSUME TypeInv, StopClockMeansStopped, [Next]_vars PROVE StopClockMeansStopped'
    <2>1. CASE UNCHANGED ctl
      BY <1>2, <2>1 DEF StopClockMeansStopped
    <2>2. CASE Exchange \/ \E lands \in BOOLEAN : ExchangeFails(lands)
      BY <1>2, <2>2, ExchangeEffect, ExchangeFailsEffect DEF TypeInv
    <2>3. CASE Observes
      BY <1>2, <2>3 DEF Observes
    <2> QED BY <1>2, <2>1, <2>2, <2>3, Knowledge DEF KnowledgeStep, InvalidateEnd
  <1> QED BY <1>1, <1>2, Typed, PTL DEF Spec

(* A duty the API shows is the one the controller stands by, whatever      *)
(* invalidations overtake a write between the generation it noted and its  *)
(* publication: nothing republishes a duty that was cleared.               *)
THEOREM ShownHolds == Spec => []ShownIsCurrent
  <1>1. Init => ShownIsCurrent
    BY DEF Init, FanInit, ShownIsCurrent
  <1>2. ASSUME TypeInv, ShownIsCurrent, [Next]_vars PROVE ShownIsCurrent'
    <2> SUFFICES ASSUME clearing' = {}, NEW c \in Channels, shown'[c] # NoDuty
                 PROVE  last_commanded_pct(c)' = shown'[c]
      BY DEF ShownIsCurrent
    <2>0. FanTypeOK /\ KnowledgeStep
      BY <1>2, Knowledge DEF TypeInv
    <2>1. CASE UNCHANGED <<cacheVars, seen, ctl>>
      BY <1>2, <2>1 DEF ShownIsCurrent, cacheVars, last_commanded_pct
    <2>2. CASE Observes
      <3>1. UNCHANGED <<generation, clearing, shown>> /\ seen' = generation
            /\ ctl'[c].last = last_commanded_pct(c)
        BY <2>2 DEF Observes, cacheVars
      <3>2. last_commanded_pct(c)' = last_commanded_pct(c)
        BY <3>1 DEF last_commanded_pct
      <3> QED BY <1>2, <3>1, <3>2 DEF ShownIsCurrent
    <2>3. CASE Exchange
      <3>1. /\ UNCHANGED <<generation, clearing, seen>>
            /\ ctl'[op.ch].last = op.pct
            /\ shown' = IF seen = generation THEN [shown EXCEPT ![op.ch] = op.pct] ELSE shown
            /\ c # op.ch => ctl'[c].last = ctl[c].last
        BY <2>0, <2>3, ExchangeEffect
      <3>2. shown \in [Channels -> Duty \cup {NoDuty}]
        BY <2>0 DEF FanTypeOK
      <3> QED BY <1>2, <3>1, <3>2 DEF ShownIsCurrent, last_commanded_pct
    <2>4. ASSUME NEW lands \in BOOLEAN, ExchangeFails(lands)
          PROVE  last_commanded_pct(c)' = shown'[c]
      <3>1. /\ UNCHANGED <<generation, clearing, seen>> /\ shown'[op.ch] = NoDuty
            /\ c # op.ch => ctl'[c].last = ctl[c].last /\ shown'[c] = shown[c]
        BY <2>0, <2>4, ExchangeFailsEffect
      <3> QED BY <1>2, <3>1 DEF ShownIsCurrent, last_commanded_pct
    <2>5. CASE \E by \in {"poll", "resume", "update"} : InvalidateBegin(by)
      BY <2>5 DEF InvalidateBegin
    <2>6. CASE \E by \in {"poll", "resume", "update"} : InvalidateEnd(by)
      BY <2>6 DEF InvalidateEnd
    <2> QED BY <2>0, <2>1, <2>2, <2>3, <2>4, <2>5, <2>6 DEF KnowledgeStep
  <1> QED BY <1>1, <1>2, Typed, PTL DEF Spec

----------------------------------------------------------------------------
(* Nothing is believed across a generation that has not been noted.        *)
LEMMA Invalidated ==
    ASSUME FanTypeOK, NEW by, InvalidateBegin(by), UNCHANGED seen PROVE NothingBelieved'
  <1>1. seen' # generation'
    BY DEF FanTypeOK, InvalidateBegin
  <1> QED BY <1>1 DEF NothingBelieved, last_commanded_pct

(* A step that leaves the link, the update and the device alone, and       *)
(* believes what was believed.                                             *)
LEMMA BeliefKept ==
    ASSUME BeliefInv, UNCHANGED <<port, board, link, asleep, update>>,
           \A c \in Channels : last_commanded_pct(c)' = last_commanded_pct(c),
           UNCHANGED op \/ op'.step = "idle" \/ op'.by # "update"
    PROVE  BeliefInv'
  <1>1. PortInv' /\ LoanInv'
    BY DEF BeliefInv, PortInv, LoanInv
  <1>2. ForgottenInv' /\ BelievedIsTrue'
    BY DEF BeliefInv, ForgottenInv, NothingBelieved, BelievedIsTrue
  <1> QED BY <1>1, <1>2 DEF BeliefInv

LEMMA ObservesKnown ==
    /\ Observes => \A c \in Channels : last_commanded_pct(c)' = last_commanded_pct(c)
    /\ UNCHANGED <<generation, seen, ctl>> =>
          \A c \in Channels : last_commanded_pct(c)' = last_commanded_pct(c)
  <1>1. ASSUME Observes, NEW c \in Channels
        PROVE  last_commanded_pct(c)' = last_commanded_pct(c)
    <2>1. UNCHANGED generation /\ seen' = generation /\ ctl'[c].last = last_commanded_pct(c)
      BY <1>1 DEF Observes, cacheVars
    <2> QED BY <2>1 DEF last_commanded_pct
  <1>2. ASSUME UNCHANGED <<generation, seen, ctl>>, NEW c \in Channels
        PROVE  last_commanded_pct(c)' = last_commanded_pct(c)
    BY <1>2 DEF last_commanded_pct
  <1> QED BY <1>1, <1>2

LEMMA BeliefOutside ==
    ASSUME TypeInv, BeliefInv, OutsideStep
    PROVE  BeliefInv'
  <1>1. FanTypeOK
    BY SMTT(30), ZenonT(30) DEF TypeInv
  <1>2. UNCHANGED <<link, asleep, update>>
    BY DEF OutsideStep, Tick, StartApply, StartForce, TaskStep, RecordPreEmergency,
           WriteNext, PutBackNext, NoteLost, release_unheld, GiveBackNext, EngineReturned,
           NextLeg, TaskLeaves, CalStep, CalReadsOriginal, CalEnds, CalRestores, CalWrites,
           CalReturned, CalClaims, CalPassesGate, CalLeaves, StopStep, apply_exit_floor, FloorNext, FloorReturned,
           Floored, StopLeaves, Shutdown, Decide, Activate, Skip, vars, othersVars
  <1>3. \/ UNCHANGED fanVars
        \/ op' = Idle /\ UNCHANGED <<deviceVars, cacheVars, seen, ctl>>
        \/ LatchExitFloor
        \/ \E by \in {"engine", "calibration", "stop"}, c \in Channels : \E pct :
              set_pwm(by, c, pct)
    BY OutsideCalls
  <1>4. CASE UNCHANGED fanVars
    BY <1>2, <1>4, BeliefKept, ObservesKnown DEF fanVars, deviceVars, cacheVars
  <1>5. CASE op' = Idle /\ UNCHANGED <<deviceVars, cacheVars, seen, ctl>>
    BY <1>2, <1>5, BeliefKept, ObservesKnown DEF Idle, deviceVars, cacheVars
  <1>6. CASE LatchExitFloor
    <2>1. UNCHANGED <<port, board, op>> /\ Observes
      BY <1>1, <1>6, LatchEffect DEF Observes, deviceVars, cacheVars
    <2> QED BY <1>2, <2>1, BeliefKept, ObservesKnown
  <1>7. ASSUME NEW by \in {"engine", "calibration", "stop"}, NEW c \in Channels, NEW pct,
               set_pwm(by, c, pct)
        PROVE  BeliefInv'
    <2>1. Observes /\ UNCHANGED <<port, board>> /\ op'.by # "update"
      BY <1>1, <1>7, SetPwmKeeps, CallObserves DEF deviceVars
    <2> QED BY <1>2, <2>1, BeliefKept, ObservesKnown
  <1> QED BY <1>3, <1>4, <1>5, <1>6, <1>7

LEMMA BeliefSerial ==
    ASSUME TypeInv, BeliefInv, SerialStep \/ SerialFails PROVE BeliefInv'
  <1>1. FanTypeOK
    BY DEF TypeInv
  <1>2. UNCHANGED <<link, asleep, update>>
    BY DEF SerialStep, SerialFails, othersVars
  <1>3. CASE Exchange
    <2>1. /\ UNCHANGED <<port, generation, seen>> /\ port = "board"
          /\ op.step # "idle" /\ op'.by = op.by /\ op'.ch = op.ch
          /\ ctl'[op.ch].last = op.pct /\ board'[op.ch] = op.pct
          /\ \A d \in Channels : d # op.ch => ctl'[d].last = ctl[d].last /\ board'[d] = board[d]
      BY <1>1, <1>3, ExchangeEffect
    <2>2. PortInv' /\ LoanInv'
      BY <1>2, <2>1 DEF BeliefInv, PortInv, LoanInv
    <2>3. ForgottenInv'
      BY <1>2, <2>1 DEF BeliefInv, PortInv, ForgottenInv
    <2>4. BelievedIsTrue'
      BY <1>2, <2>1 DEF BeliefInv, BelievedIsTrue, last_commanded_pct
    <2> QED BY <2>2, <2>3, <2>4 DEF BeliefInv
  <1>4. ASSUME NEW lands \in BOOLEAN, ExchangeFails(lands) PROVE BeliefInv'
    <2>1. /\ UNCHANGED <<port, generation, seen>>
          /\ op.step # "idle" /\ op'.by = op.by /\ op'.ch = op.ch
          /\ ctl'[op.ch].last = NoDuty
          /\ \A d \in Channels : d # op.ch => ctl'[d].last = ctl[d].last /\ board'[d] = board[d]
      BY <1>1, <1>4, ExchangeFailsEffect
    <2>2. PortInv' /\ LoanInv'
      BY <1>2, <2>1 DEF BeliefInv, PortInv, LoanInv
    <2>3. ForgottenInv'
      BY <1>2, <2>1 DEF BeliefInv, ForgottenInv, NothingBelieved, last_commanded_pct
    <2>4. BelievedIsTrue'
      BY <1>2, <2>1 DEF BeliefInv, BelievedIsTrue, last_commanded_pct
    <2> QED BY <2>2, <2>3, <2>4 DEF BeliefInv
  <1> QED BY <1>3, <1>4 DEF SerialStep, SerialFails

(* The poll loop and the machine. *)
LEMMA BeliefPoll ==
    ASSUME TypeInv, BeliefInv, PollStep \/ PortDies \/ HostSleeps PROVE BeliefInv'
  <1>1. FanTypeOK /\ PortInv /\ LoanInv /\ ForgottenInv /\ BelievedIsTrue
    BY DEF TypeInv, BeliefInv
  <1>2. NothingBelieved' => ForgottenInv' /\ BelievedIsTrue'
    BY DEF NothingBelieved, ForgottenInv, BelievedIsTrue
  <1>3. NothingBelieved /\ UNCHANGED <<generation, seen, ctl>> => NothingBelieved'
    BY ObservesKnown DEF NothingBelieved
  <1>4. CASE PortDies
    <2>1. UNCHANGED <<generation, seen, ctl, op, update, link, asleep>> /\ port' = "dead"
          /\ link = "ok"
      BY <1>4 DEF PortDies, cacheVars
    <2> QED BY <1>1, <2>1 DEF BeliefInv, PortInv, LoanInv, ForgottenInv, BelievedIsTrue
  <1>5. CASE HostSleeps
    <2>1. UNCHANGED <<generation, seen, ctl, op, update, link, port>> /\ asleep' = TRUE
      BY <1>5 DEF HostSleeps, cacheVars
    <2>2. ForgottenInv'
      BY <1>1, <1>3, <2>1 DEF ForgottenInv
    <2> QED BY <1>1, <2>1, <2>2 DEF BeliefInv, PortInv, LoanInv, BelievedIsTrue
  <1>6. CASE release_adopted_port
    <2>1. UNCHANGED <<op, update>> /\ port' = "none" /\ link = "ok" /\ link' = "searching"
      BY <1>6 DEF release_adopted_port
    <2> QED BY <1>1, <2>1 DEF BeliefInv, PortInv, LoanInv, ForgottenInv, BelievedIsTrue
  <1>7. CASE adopt_reconnected_transport
    <2>1. /\ UNCHANGED <<op, update, port>> /\ link = "searching" /\ link' = "adopting"
          /\ InvalidateBegin("poll") /\ UNCHANGED seen
      BY <1>7 DEF adopt_reconnected_transport, deviceVars
    <2>2. NothingBelieved'
      BY <1>1, <2>1, Invalidated
    <2> QED BY <1>1, <1>2, <2>1, <2>2 DEF BeliefInv, PortInv, LoanInv
  <1>8. CASE PollAdopts
    <2>1. /\ UNCHANGED <<op, generation, seen, ctl>> /\ link = "adopting"
          /\ port' = "board" /\ link' = "ok"
          /\ update' = IF update.step = "recovery" THEN NoUpdate ELSE update
      BY <1>8 DEF PollAdopts, cacheVars
    <2>2. NothingBelieved'
      BY <1>1, <1>3, <2>1 DEF ForgottenInv
    <2> QED BY <1>1, <1>2, <2>1, <2>2 DEF BeliefInv, PortInv, LoanInv, NoUpdate
  <1>9. CASE PollTakesBack
    <2>1. CASE /\ update.step = "offered" /\ link = "lent"
               /\ port' = "board" /\ link' = "taken"
               /\ UNCHANGED <<cacheVars, update>>
      <3>1. NothingBelieved'
        BY <1>1, <1>3, <1>9, <2>1 DEF ForgottenInv, PollTakesBack, cacheVars
      <3>2. UNCHANGED op
        BY <1>9 DEF PollTakesBack
      <3> QED BY <1>1, <1>2, <2>1, <3>1, <3>2 DEF BeliefInv, PortInv, LoanInv
    <2>2. CASE /\ link = "taken" /\ InvalidateBegin("poll")
               /\ link' = "settling" /\ UNCHANGED <<port, update>>
      <3>1. UNCHANGED <<op, seen>>
        BY <1>9 DEF PollTakesBack
      <3>2. NothingBelieved'
        BY <1>1, <2>2, <3>1, Invalidated
      <3> QED BY <1>1, <1>2, <2>2, <3>1, <3>2 DEF BeliefInv, PortInv, LoanInv
    <2>3. CASE link = "settling" /\ link' = "ok" /\ UNCHANGED <<port, cacheVars, update>>
      <3>1. UNCHANGED <<op, seen, ctl, board, asleep, generation>>
        BY <1>9, <2>3 DEF PollTakesBack, cacheVars
      <3>2. BelievedIsTrue'
        BY <1>1, <2>3, <3>1, ObservesKnown DEF BelievedIsTrue
      <3> QED BY <1>1, <2>3, <3>1, <3>2 DEF BeliefInv, PortInv, LoanInv, ForgottenInv
    <2>4. CASE /\ update.step = "boot" /\ port' = "none" /\ link' = "searching"
               /\ update' = [update EXCEPT !.step = "recovery"]
      <3>1. UNCHANGED op
        BY <1>9 DEF PollTakesBack
      <3>2. update'.step = "recovery"
        BY <2>4 DEF TypeInv, LinkTypeOK
      <3> QED BY <1>1, <2>4, <3>1, <3>2
              DEF BeliefInv, PortInv, LoanInv, ForgottenInv, BelievedIsTrue
    <2> QED BY <1>9, <2>1, <2>2, <2>3, <2>4 DEF PollTakesBack
  <1>10. CASE set_resume_detected
    <2>1. /\ UNCHANGED <<op, update, link, port, seen>> /\ InvalidateBegin("resume")
      BY <1>10 DEF set_resume_detected, deviceVars
    <2>2. NothingBelieved'
      BY <1>1, <2>1, Invalidated
    <2> QED BY <1>1, <1>2, <2>1, <2>2 DEF BeliefInv, PortInv, LoanInv
  <1>11. ASSUME NEW by \in {"poll", "resume", "update"}, InvalidationEnds(by) PROVE BeliefInv'
    BY <1>11, BeliefKept, ObservesKnown DEF InvalidationEnds, InvalidateEnd, deviceVars
  <1> QED BY <1>4, <1>5, <1>6, <1>7, <1>8, <1>9, <1>10, <1>11 DEF PollStep

LEMMA BeliefUpdate ==
    ASSUME TypeInv, BeliefInv, UpdateStep \/ suspend_openfan_writes PROVE BeliefInv'
  <1>1. /\ FanTypeOK /\ PortInv /\ LoanInv /\ ForgottenInv /\ BelievedIsTrue
        /\ LinkTypeOK
    BY DEF TypeInv, BeliefInv
  <1>2. NothingBelieved' => ForgottenInv' /\ BelievedIsTrue'
    BY DEF NothingBelieved, ForgottenInv, BelievedIsTrue
  <1>3. UNCHANGED <<board, port, asleep, generation, seen, ctl>> => BelievedIsTrue'
    BY <1>1, ObservesKnown DEF BelievedIsTrue
  <1>4. CASE suspend_openfan_writes
    <2>1. /\ UNCHANGED <<fanVars, link, asleep>> /\ link = "ok" /\ update.step = "none"
          /\ update' = [step |-> "parking", todo |-> Channels]
      BY <1>4 DEF suspend_openfan_writes, NoCall, UpdateLeaves, NoUpdate
    <2>2. BelievedIsTrue' /\ UNCHANGED <<port, op>>
      BY <1>3, <2>1 DEF fanVars, deviceVars, cacheVars
    <2> QED BY <1>1, <2>1, <2>2 DEF BeliefInv, PortInv, LoanInv, ForgottenInv
  <1>5. CASE UpdateParks
    <2> DEFINE c == Min(update.todo)
    <2>1. /\ update.todo # {} /\ update.step = "parking" /\ set_pwm("update", c, 100)
          /\ UNCHANGED <<link, asleep, update>>
      BY <1>5 DEF UpdateParks, UpdateLeaves
    <2>2. c \in update.todo /\ c \in Channels
      BY <1>1, <2>1, FirstChannel DEF LinkTypeOK
    <2> HIDE DEF c
    <2>3. Observes /\ UNCHANGED <<port, board>> /\ op'.ch = c
      BY ZenonT(60), <1>1, <2>1, <2>2, SetPwmKeeps, CallObserves DEF deviceVars
    <2>4. LoanInv'
      BY <1>1, <2>1, <2>2, <2>3 DEF LoanInv
    <2>5. BelievedIsTrue' /\ PortInv'
      BY <1>1, <2>1, <2>3, ObservesKnown DEF BelievedIsTrue, PortInv
    <2>6. ForgottenInv'
      BY <1>1, <2>1, <2>3, ObservesKnown DEF ForgottenInv, NothingBelieved
    <2> QED BY <2>4, <2>5, <2>6 DEF BeliefInv
  <1>6. CASE UpdateReturned
    <2>1. /\ op.step = "done" /\ op.by = "update" /\ op' = Idle
          /\ UNCHANGED <<port, board, generation, seen, ctl, link, asleep>>
          /\ update' = [update EXCEPT !.todo = @ \ {op.ch}] \/ update' = NoUpdate
      BY <1>6 DEF UpdateReturned, Returned, UpdateLeaves, deviceVars, cacheVars
    <2>2. update.step = "parking" /\ link # "lent" /\ update'.step \in {"parking", "none"}
      BY <1>1, <2>1 DEF LoanInv, LinkTypeOK, NoUpdate
    <2>3. LoanInv' /\ PortInv'
      BY <1>1, <2>1, <2>2 DEF LoanInv, PortInv, Idle
    <2>4. ForgottenInv'
      BY <1>1, <2>1, <2>2, ObservesKnown DEF ForgottenInv, NothingBelieved
    <2> QED BY <1>3, <2>1, <2>3, <2>4 DEF BeliefInv
  <1>7. CASE UpdateGoesOn
    <2>0. UNCHANGED <<port, seen, ctl, op, link, asleep>>
      BY <1>7 DEF UpdateGoesOn, UpdateLeaves
    <2>1. CASE /\ update.step \in {"lent", "boot"} /\ InvalidateBegin("update")
               /\ update' \in {[update EXCEPT !.step = "boot"],
                               [update EXCEPT !.step = "offered"]}
      <3>1. NothingBelieved'
        BY <1>1, <2>0, <2>1, Invalidated
      <3>2. update'.step \in {"boot", "offered"}
        BY <1>1, <2>1 DEF LinkTypeOK
      <3>3. LoanInv' /\ PortInv'
        BY <1>1, <2>0, <2>1, <3>2 DEF LoanInv, PortInv
      <3> QED BY <1>2, <3>1, <3>3 DEF BeliefInv
    <2>2. CASE /\ update.step = "offered" /\ link = "ok" /\ update' = NoUpdate
               /\ UNCHANGED <<board, cacheVars>>
      <3>1. BelievedIsTrue'
        BY <1>3, <2>0, <2>2 DEF cacheVars
      <3>2. LoanInv' /\ PortInv' /\ ForgottenInv'
        BY <1>1, <2>0, <2>2 DEF LoanInv, PortInv, ForgottenInv, NoUpdate
      <3> QED BY <3>1, <3>2 DEF BeliefInv
    <2> QED BY <1>7, <2>1, <2>2 DEF UpdateGoesOn
  <1>8. CASE PollLends
    <2>1. /\ UNCHANGED <<board, generation, seen, ctl, op, asleep>>
          /\ update.step = "parking" /\ update.todo = {}
      BY <1>8 DEF PollLends, cacheVars
    <2>2. ~(op.step # "idle" /\ op.by = "update")
      BY <1>1, <2>1 DEF LoanInv
    <2>3. CASE /\ link = "ok" /\ port' = "lent" /\ link' = "lent"
               /\ update' = [update EXCEPT !.step = "lent"]
      <3>1. update'.step = "lent"
        BY <1>1, <2>3 DEF LinkTypeOK
      <3> QED BY <2>1, <2>2, <2>3, <3>1
              DEF BeliefInv, PortInv, LoanInv, ForgottenInv, BelievedIsTrue
    <2>4. CASE update' = NoUpdate /\ UNCHANGED <<port, link>>
      <3>1. LoanInv' /\ PortInv'
        BY <1>1, <2>1, <2>2, <2>4 DEF LoanInv, PortInv, NoUpdate
      <3>2. ForgottenInv'
        BY <1>1, <2>1, <2>4, <3>1, ObservesKnown
           DEF ForgottenInv, NothingBelieved, LoanInv, NoUpdate
      <3> QED BY <1>3, <2>1, <2>4, <3>1, <3>2 DEF BeliefInv
    <2> QED BY <1>8, <2>3, <2>4 DEF PollLends
  <1> QED BY <1>4, <1>5, <1>6, <1>7, <1>8 DEF UpdateStep

(* What the controller stands by is what the board drives, whatever        *)
(* disconnects, resets, resumes, loans and failed exchanges came in        *)
(* between: by the time a board's port is in the slot again nothing from   *)
(* before is believed, so no command that must be repeated is coalesced    *)
(* away.                                                                   *)
THEOREM BeliefHolds == Spec => []BelievedIsTrue
  <1>1. Init => BeliefInv
    <2> SUFFICES ASSUME Init PROVE BeliefInv
      OBVIOUS
    <2>1. NothingBelieved
      BY DEF Init, FanInit, NoControl, NothingBelieved, last_commanded_pct
    <2> QED BY <2>1 DEF Init, FanInit, Idle, NoUpdate, NothingBelieved, BeliefInv, PortInv,
                        LoanInv, ForgottenInv, BelievedIsTrue
  <1>2. TypeInv /\ BeliefInv /\ [Next]_vars => BeliefInv'
    <2> SUFFICES ASSUME TypeInv, BeliefInv, [Next]_vars PROVE BeliefInv'
      OBVIOUS
    <2>1. CASE Environment
      BY <2>1, BeliefOutside, BeliefSerial, BeliefPoll, BeliefUpdate
         DEF Environment, OutsideStep
    <2>2. CASE Tick \/ TaskStep \/ CalStep \/ StopStep \/ UNCHANGED vars
      BY <2>2, BeliefOutside DEF OutsideStep
    <2>3. CASE SerialStep \/ PollStep \/ UpdateStep
      BY <2>3, BeliefSerial, BeliefPoll, BeliefUpdate
    <2> QED BY <2>1, <2>2, <2>3 DEF Next
  <1>3. BeliefInv => BelievedIsTrue
    BY DEF BeliefInv
  <1> QED BY <1>1, <1>2, <1>3, Typed, PTL DEF Spec

(* The books the controller and the API keep of a board are true together: *)
(* what is believed is driven, what is shown is current, and a stop clock  *)
(* runs exactly while a 0 % stands.                                        *)
THEOREM BooksHold == Spec => []BooksAreTrue
  <1>1. BelievedIsTrue /\ ShownIsCurrent /\ StopClockMeansStopped => BooksAreTrue
    BY DEF BooksAreTrue
  <1> QED BY <1>1, BeliefHolds, ShownHolds, StopClocksHold, PTL
----------------------------------------------------------------------------
(* The exit floor.  A call of the engine's is for a channel its task still *)
(* has to do; a call that succeeded leaves the duty it carried; what is    *)
(* written to release a channel, or once the minima are latched, is at     *)
(* least the floor.                                                        *)
Flooring == stop.stage \in {"flooring", "floored"}
EngineCalls == op.step # "idle" /\ op.by = "engine"

CallInv ==
    EngineCalls => op.ch \in task.todo /\ task.step \in {"write", "put", "release", "give"}
LandedInv == op.step = "done" /\ op.ok => ctl[op.ch].last = op.pct
ReleaseInv == EngineCalls /\ task.step = "release" => op.pct >= ExitFloor
MinimaInv ==
    Flooring => /\ \A c \in Channels : ctl[c].exitMin >= ExitFloor
                /\ op.step # "idle" => op.pct >= ExitFloor

FloorInv == CallInv /\ LandedInv /\ ReleaseInv /\ MinimaInv

(* exit_duty never goes below the floor. *)
LEMMA ExitDutyFloor ==
    ASSUME NEW d \in Maybe PROVE exit_duty(d, ExitFloor) >= ExitFloor
  BY FanAssumption DEF exit_duty, AtLeast, Maybe, Duty, NoDuty

(* What a set_pwm carries, and that one which needs no exchange found its  *)
(* duty in place.                                                          *)
LEMMA SetPwmCarries ==
    ASSUME FanTypeOK, NEW by, NEW c \in Channels, NEW pct, set_pwm(by, c, pct)
    PROVE  /\ op'.pct = AtLeast(pct, ctl[c].exitMin)
           /\ op'.step = "done" /\ op'.ok => ctl'[c].last = op'.pct
  <1> DEFINE noted == Observed
             target == AtLeast(pct, noted[c].exitMin)
             call == [step |-> "done", by |-> by, ch |-> c, pct |-> target, ok |-> TRUE]
  <1>1. target = AtLeast(pct, ctl[c].exitMin)
    BY ObservedType
  <1> HIDE DEF noted, target
  <1>2. \/ noted[c].last = target /\ ctl' = noted /\ op' = call
        \/ op' = [call EXCEPT !.ok = FALSE]
        \/ op' = [call EXCEPT !.step = "send"]
    BY Zenon DEF set_pwm, noted, target
  <1>3. CASE noted[c].last = target /\ ctl' = noted /\ op' = call
    BY <1>1, <1>3
  <1>4. CASE op' = [call EXCEPT !.ok = FALSE]
    BY <1>1, <1>4
  <1>5. CASE op' = [call EXCEPT !.step = "send"]
    BY <1>1, <1>5
  <1> QED BY <1>2, <1>3, <1>4, <1>5

(* The minima that are latched. *)
LEMMA LatchedAtFloor ==
    ASSUME FanTypeOK, LatchExitFloor
    PROVE  \A d \in Channels : ctl'[d].exitMin >= ExitFloor
  <1> DEFINE noted == Observed
             min(d) == IF noted[d].written
                       THEN exit_duty(OrElse(noted[d].last, noted[d].before), ExitFloor)
                       ELSE ExitFloor
  <1>1. noted \in [Channels -> Control]
    BY ObservedType
  <1>2. ctl' = [d \in Channels |-> [noted[d] EXCEPT !.exitMin = min(d)]]
    BY Zenon DEF LatchExitFloor
  <1> HIDE DEF noted
  <1>3. \A d \in Channels : min(d) >= ExitFloor
    <2> SUFFICES ASSUME NEW d \in Channels PROVE min(d) >= ExitFloor
      OBVIOUS
    <2>1. OrElse(noted[d].last, noted[d].before) \in Maybe
      BY <1>1 DEF Control, OrElse, Maybe
    <2> QED BY <2>1, ExitDutyFloor, FanAssumption DEF Duty
  <1> HIDE DEF min
  <1> QED BY <1>1, <1>2, <1>3 DEF Control

(* Whoever but the engine's task makes a step: it keeps what the engine    *)
(* holds, and begins a call of its own, ends one, exchanges, latches the   *)
(* minima, or leaves controller and call alone.                            *)
Others == {"calibration", "update", "stop"}
Begins(by) == \E c \in Channels : \E pct : set_pwm(by, c, pct)
OthersCall ==
    \/ UNCHANGED <<op, ctl>>
    \/ op' = Idle /\ UNCHANGED ctl
    \/ apply_exit_floor
    \/ \E by \in Others : Begins(by)
    \/ Exchange
    \/ \E lands \in BOOLEAN : ExchangeFails(lands)
OthersTurn ==
    /\ engineHeld \subseteq engineHeld'
    /\ task' = task \/ task = NoTask
    /\ Flooring' => Flooring \/ apply_exit_floor
    /\ OthersCall

LEMMA ByOthers == ASSUME TypeInv, [Next]_vars PROVE TaskStep \/ OthersTurn
  <1>0. CalTypeOK /\ StopTypeOK /\ LinkTypeOK
    BY DEF TypeInv
  <1>1. ASSUME NoCall \/ UNCHANGED <<op, ctl>> PROVE OthersCall
    BY <1>1 DEF NoCall, fanVars, OthersCall
  <1>2. ASSUME EngineLeaves, stop' = stop, OthersCall PROVE OthersTurn
    BY <1>2 DEF EngineLeaves, OthersTurn, Flooring
  <1>3. CASE Tick \/ (\E r \in Rungs : Decide(r)) \/ (\E p \in Profiles : Activate(p))
             \/ (\E s \in SUBSET Skippable : Skip(s)) \/ Shutdown \/ UNCHANGED vars
    <2>1. OthersCall
      BY <1>1, <1>3 DEF Tick, StartApply, StartForce, Decide, Activate, Skip, Shutdown, NoCall,
         vars, fanVars
    <2>2. /\ engineHeld \subseteq engineHeld'
          /\ task' = task \/ task = NoTask
      BY <1>3 DEF Tick, StartApply, StartForce, Decide, Activate, Skip, Shutdown, EngineLeaves,
         vars, engineVars
    <2>3. Flooring' => Flooring
      BY <1>0, <1>3 DEF Tick, StartApply, StartForce, Decide, Activate, Skip, Shutdown, vars,
         othersVars, Flooring, StopTypeOK
    <2> QED BY <2>1, <2>2, <2>3 DEF OthersTurn
  <1>4. CASE CalStep \/ (\E c \in Channels : CalClaims(c))
             \/ (\E pct \in TestDuties : CalPassesGate(pct))
    <2>1. OthersCall
      <3>1. CASE CalWrites
        <4>1. cal.ch \in Channels /\ set_pwm("calibration", cal.ch, cal.pct)
          BY <1>0, <3>1 DEF CalWrites, CalTypeOK
        <4> QED BY <4>1, Zenon DEF OthersCall, Begins, Others
      <3>2. CASE CalReturned
        BY <3>2 DEF CalReturned, OthersCall
      <3>3. CASE ~CalWrites /\ ~CalReturned
        BY <1>1, <1>4, <3>3 DEF CalStep, CalReadsOriginal, CalEnds, CalRestores, CalClaims,
           CalPassesGate
      <3> QED BY <3>1, <3>2, <3>3
    <2>2. EngineLeaves /\ stop' = stop
      BY <1>4 DEF CalStep, CalReadsOriginal, CalEnds, CalRestores, CalWrites, CalReturned,
         CalClaims, CalPassesGate, CalLeaves
    <2> QED BY <1>2, <2>1, <2>2
  <1>5. CASE SerialStep \/ SerialFails
    <2>1. OthersCall
      BY <1>5 DEF SerialStep, SerialFails, OthersCall
    <2> QED BY <1>2, <1>5, <2>1 DEF SerialStep, SerialFails, othersVars
  <1>6. CASE PollStep \/ PortDies \/ HostSleeps
    <2>1. UNCHANGED <<op, ctl>> /\ PollLeaves
      BY <1>6 DEF PollStep, release_adopted_port, adopt_reconnected_transport, PollAdopts,
         PollTakesBack, set_resume_detected, InvalidationEnds, InvalidateEnd, PortDies, HostSleeps
    <2> QED BY <1>1, <1>2, <2>1 DEF PollLeaves
  <1>7. CASE UpdateStep \/ suspend_openfan_writes
    <2>1. OthersCall
      <3>1. CASE UpdateParks
        <4>1. Min(update.todo) \in Channels /\ set_pwm("update", Min(update.todo), 100)
          BY <1>0, <3>1, FirstChannel DEF UpdateParks, LinkTypeOK
        <4> QED BY <4>1, Zenon DEF OthersCall, Begins, Others
      <3>2. CASE UpdateReturned
        BY <3>2 DEF UpdateReturned, OthersCall
      <3>3. CASE UpdateGoesOn \/ PollLends \/ suspend_openfan_writes
        BY <1>1, <3>3 DEF UpdateGoesOn, PollLends, suspend_openfan_writes
      <3> QED BY <1>7, <3>1, <3>2, <3>3 DEF UpdateStep
    <2>2. EngineLeaves /\ stop' = stop
      BY <1>7 DEF UpdateStep, UpdateParks, UpdateReturned, UpdateGoesOn, PollLends,
         suspend_openfan_writes, UpdateLeaves, PollLeaves
    <2> QED BY <1>2, <2>1, <2>2
  <1>8. CASE StopStep
    <2>1. OthersCall
      <3>1. CASE FloorNext
        <4>1. Min(stop.todo) \in Channels
          BY <1>0, <3>1, FirstChannel DEF FloorNext, StopTypeOK
        <4>2. set_pwm("stop", Min(stop.todo), ctl[Min(stop.todo)].exitMin)
          BY <3>1, Zenon DEF FloorNext
        <4> QED BY <4>1, <4>2, Zenon DEF OthersCall, Begins, Others
      <3>2. CASE apply_exit_floor \/ FloorReturned \/ Floored
        BY <1>1, <3>2 DEF FloorReturned, Floored, OthersCall
      <3> QED BY <1>8, <3>1, <3>2 DEF StopStep
    <2>2. EngineLeaves
      BY <1>8 DEF StopStep, apply_exit_floor, FloorNext, FloorReturned, Floored, StopLeaves
    <2>3. Flooring' => Flooring \/ apply_exit_floor
      BY <1>0, <1>8 DEF StopStep, FloorNext, FloorReturned, Floored, Flooring, StopTypeOK
    <2> QED BY <2>1, <2>2, <2>3 DEF OthersTurn, EngineLeaves
  <1> QED BY <1>3, <1>4, <1>5, <1>6, <1>7, <1>8 DEF Next, Environment

(* A step of the task begins a call for a channel it has to do, ends one,  *)
(* or is none of a call's.                                                 *)
EngineTurn ==
    /\ UNCHANGED stop
    /\ \/ UNCHANGED <<op, ctl>> /\ (CallInv => ~EngineCalls)
       \/ op' = Idle /\ UNCHANGED ctl
       \/ /\ UNCHANGED task /\ task.step \in {"write", "put", "release", "give"}
          /\ \E c \in task.todo : \E pct :
                /\ set_pwm("engine", c, pct)
                /\ task.step = "release" => pct \in Duty /\ pct >= ExitFloor

LEMMA ByEngine == ASSUME TypeInv, TaskStep PROVE EngineTurn
  <1>0. FanTypeOK /\ task.todo \subseteq Channels
    BY DEF TypeInv, EngineTypeOK, Tasks
  <1>1. UNCHANGED stop
    BY DEF TaskStep, RecordPreEmergency, WriteNext, PutBackNext, NoteLost, release_unheld,
       GiveBackNext, EngineReturned, NextLeg, TaskLeaves
  <1>2. op = Idle => ~EngineCalls
    BY DEF Idle, EngineCalls
  <1>3. CASE WriteNext \/ PutBackNext \/ release_unheld \/ GiveBackNext
    <2> DEFINE c == Min(task.todo)
               to == exit_duty(last_known_duty(c), ExitFloor)
    <2>1. c \in task.todo
      BY <1>0, <1>3, FirstChannel DEF WriteNext, PutBackNext, release_unheld, GiveBackNext
    <2>2. to \in Duty /\ to >= ExitFloor
      BY <1>0, <2>1, KnownType, ExitDutyType, ExitDutyFloor, FanAssumption
    <2>3. op = Idle /\ task.step \in {"write", "put", "release", "give"}
      BY <1>3 DEF WriteNext, PutBackNext, release_unheld, GiveBackNext, Free
    <2>4. \/ UNCHANGED fanVars
          \/ UNCHANGED task /\ task.step # "release" /\ \E pct : set_pwm("engine", c, pct)
          \/ UNCHANGED task /\ set_pwm("engine", c, to)
      <3>1. CASE WriteNext
        BY <3>1, Zenon DEF WriteNext
      <3>2. CASE PutBackNext
        BY <3>2, Zenon DEF PutBackNext
      <3>3. CASE GiveBackNext
        BY <3>3, Zenon DEF GiveBackNext
      <3>4. CASE release_unheld
        BY <3>4, Zenon DEF release_unheld
      <3> QED BY <1>3, <3>1, <3>2, <3>3, <3>4
    <2> HIDE DEF c, to
    <2>5. CASE UNCHANGED fanVars
      BY <1>1, <1>2, <2>3, <2>5 DEF EngineTurn, fanVars
    <2>6. CASE UNCHANGED task /\ task.step # "release" /\ \E pct : set_pwm("engine", c, pct)
      BY <1>1, <2>1, <2>3, <2>6, Zenon DEF EngineTurn
    <2>7. CASE UNCHANGED task /\ set_pwm("engine", c, to)
      BY <1>1, <2>1, <2>2, <2>3, <2>7, Zenon DEF EngineTurn
    <2> QED BY <2>4, <2>5, <2>6, <2>7
  <1>4. CASE EngineReturned
    BY <1>1, <1>4 DEF EngineReturned, EngineTurn
  <1>5. CASE RecordPreEmergency \/ NoteLost \/ NextLeg
    <2>1. UNCHANGED <<op, ctl>>
      BY <1>5 DEF RecordPreEmergency, NoteLost, NextLeg, NoCall, fanVars
    <2>2. task.todo = {} \/ task.step \notin {"write", "put", "release", "give"}
      BY <1>5 DEF RecordPreEmergency, NoteLost, NextLeg
    <2> QED BY <1>1, <2>1, <2>2 DEF EngineTurn, CallInv
  <1> QED BY <1>3, <1>4, <1>5 DEF TaskStep

LEMMA FloorInit == Init => FloorInv
  BY DEF Init, FanInit, Idle, FloorInv, CallInv, LandedInv, ReleaseInv, MinimaInv, Flooring,
     EngineCalls

(* A call that begins carries at least the latched minimum. *)
LEMMA BeginsAtFloor ==
    ASSUME TypeInv, MinimaInv, NEW by, NEW c \in Channels, NEW pct, set_pwm(by, c, pct),
           FanTypeOK', Flooring' => Flooring
    PROVE  MinimaInv'
  <1>1. FanTypeOK /\ ctl[c] \in Control
    BY DEF TypeInv, FanTypeOK
  <1>2. op'.pct = AtLeast(pct, ctl[c].exitMin) /\ op'.pct \in Duty
    BY <1>1, SetPwmCarries DEF FanTypeOK
  <1>3. \A d \in Channels : ctl'[d].exitMin = ctl[d].exitMin
    BY <1>1, SetPwmKeeps
  <1>4. ctl[c].exitMin >= ExitFloor => op'.pct >= ExitFloor
    BY <1>1, <1>2, FanAssumption DEF AtLeast, Control, Duty, NoDuty
  <1> QED BY <1>3, <1>4 DEF MinimaInv

LEMMA FloorStep == ASSUME TypeInv, FloorInv, [Next]_vars PROVE FloorInv'
  <1>0. FanTypeOK /\ FanTypeOK' /\ op \in Calls
    BY NextTypes DEF TypeInv, FanTypeOK, Calls
  <1> USE DEF FloorInv
  <1>1. ASSUME UNCHANGED <<op, ctl>>, UNCHANGED task \/ ~EngineCalls, Flooring' => Flooring
        PROVE  FloorInv'
    BY <1>1 DEF CallInv, LandedInv, ReleaseInv, MinimaInv, EngineCalls
  <1>2. ASSUME op' = Idle, UNCHANGED ctl, Flooring' => Flooring PROVE FloorInv'
    BY <1>2 DEF CallInv, LandedInv, ReleaseInv, MinimaInv, EngineCalls, Idle
  <1>3. CASE TaskStep
    <2>1. EngineTurn /\ (Flooring' => Flooring)
      BY <1>3, ByEngine DEF EngineTurn, Flooring
    <2>2. ASSUME UNCHANGED task, task.step \in {"write", "put", "release", "give"},
                 NEW c \in task.todo, NEW pct, set_pwm("engine", c, pct),
                 task.step = "release" => pct \in Duty /\ pct >= ExitFloor
          PROVE  FloorInv'
      <3>1. c \in Channels
        BY DEF TypeInv, EngineTypeOK, Tasks
      <3>2. /\ op'.by = "engine" /\ op'.ch = c
            /\ op'.pct = AtLeast(pct, ctl[c].exitMin)
            /\ op'.step = "done" /\ op'.ok => ctl'[c].last = op'.pct
        <4>1. op'.by = "engine" /\ op'.ch = c
          BY <1>0, <2>2, <3>1, SetPwmKeeps
        <4>2. /\ op'.pct = AtLeast(pct, ctl[c].exitMin)
              /\ op'.step = "done" /\ op'.ok => ctl'[c].last = op'.pct
          BY <1>0, <2>2, <3>1, SetPwmCarries, Zenon
        <4> QED BY <4>1, <4>2
      <3>3. CallInv' /\ LandedInv'
        BY <2>2, <3>2 DEF CallInv, LandedInv
      <3>4. ReleaseInv'
        <4>1. ctl[c].exitMin \in Maybe /\ ExitFloor \in Duty
          BY <1>0, <3>1, FanAssumption DEF FanTypeOK, Control, Maybe
        <4>2. task.step = "release" => op'.pct >= ExitFloor
          BY SMTT(30), ZenonT(30), <2>2, <3>2, <4>1 DEF AtLeast, Maybe, Duty, NoDuty
        <4> QED BY <2>2, <4>2 DEF ReleaseInv
      <3>5. MinimaInv'
        BY <1>0, <2>1, <2>2, <3>1, BeginsAtFloor
      <3> QED BY <3>3, <3>4, <3>5
    <2> QED BY <1>1, <1>2, <2>1, <2>2 DEF EngineTurn
  <1>4. CASE apply_exit_floor
    <2>1. op' = op /\ op = Idle /\ \A c \in Channels : ctl'[c].exitMin >= ExitFloor
      BY <1>0, <1>4, LatchedAtFloor DEF apply_exit_floor, LatchExitFloor, Free
    <2> QED BY <2>1 DEF CallInv, LandedInv, ReleaseInv, MinimaInv, EngineCalls, Idle
  <1>5. CASE OthersTurn /\ ~apply_exit_floor
    <2>1. /\ UNCHANGED task \/ ~EngineCalls
          /\ Flooring' => Flooring
      BY <1>5 DEF OthersTurn, CallInv, NoTask
    <2>2. ASSUME NEW by \in Others, NEW c \in Channels, NEW pct, set_pwm(by, c, pct)
          PROVE  FloorInv'
      <3>0. op'.by = by /\ op'.ch = c
        BY <1>0, <2>2, SetPwmKeeps
      <3>1. op'.step = "done" /\ op'.ok => ctl'[c].last = op'.pct
        BY <1>0, <2>2, SetPwmCarries, Zenon
      <3>2. CallInv' /\ LandedInv' /\ ReleaseInv'
        BY <3>0, <3>1 DEF CallInv, LandedInv, ReleaseInv, EngineCalls, Others
      <3>3. MinimaInv'
        BY <1>0, <2>1, <2>2, BeginsAtFloor
      <3> QED BY <3>2, <3>3
    <2>3. ASSUME Exchange \/ \E lands \in BOOLEAN : ExchangeFails(lands) PROVE FloorInv'
      <3>1. /\ op.step # "idle" /\ op'.by = op.by /\ op'.ch = op.ch /\ op'.pct = op.pct
            /\ \A c \in Channels : ctl'[c].exitMin = ctl[c].exitMin
            /\ op'.ok => ctl'[op.ch].last = op.pct
        <4>1. CASE Exchange
          BY <1>0, <4>1, ExchangeEffect DEF Exchange, Calls
        <4>2. ASSUME NEW lands \in BOOLEAN, ExchangeFails(lands)
              PROVE  /\ op.step # "idle" /\ op'.by = op.by /\ op'.ch = op.ch
                     /\ op'.pct = op.pct /\ ~op'.ok
                     /\ \A c \in Channels : ctl'[c].exitMin = ctl[c].exitMin
          BY <1>0, <4>2, ExchangeFailsEffect DEF ExchangeFails, Calls
        <4> QED BY <2>3, <4>1, <4>2
      <3> QED BY <2>1, <3>1 DEF CallInv, LandedInv, ReleaseInv, MinimaInv, EngineCalls
    <2> QED BY <1>1, <1>2, <1>5, <2>1, <2>2, <2>3 DEF OthersTurn, OthersCall, Begins
  <1> QED BY <1>3, <1>4, <1>5, ByOthers

LEMMA FloorAlways == Spec => [](TypeInv /\ FloorInv)
  BY Typed, FloorInit, FloorStep, PTL DEF Spec

(* A channel leaves the engine's hands only at a duty of the exit floor at *)
(* least, whether it was written now or found there.                       *)
LEMMA Releases ==
    ASSUME TypeInv, FloorInv, [Next]_vars, NEW c \in engineHeld \ engineHeld', ExitFloor > 0
    PROVE  ctl[c].last >= ExitFloor
  <1>0. FanTypeOK /\ task.todo \subseteq Channels /\ op \in Calls
    BY DEF TypeInv, FanTypeOK, Calls, EngineTypeOK, Tasks
  <1>1. TaskStep
    BY ByOthers DEF OthersTurn
  <1>2. CASE release_unheld
    <2> DEFINE d == Min(task.todo)
               to == exit_duty(last_known_duty(d), ExitFloor)
    <2>1. d \in Channels
      BY <1>0, <1>2, FirstChannel DEF release_unheld
    <2>2. to \in Duty /\ to >= ExitFloor
      BY <1>0, <2>1, KnownType, ExitDutyType, ExitDutyFloor, FanAssumption
    <2>3. \/ engineHeld' = engineHeld
          \/ engineHeld' = engineHeld \ {d} /\ (ExitFloor = 0 \/ to = last_commanded_pct(d))
      BY <1>2, Zenon DEF release_unheld
    <2> HIDE DEF d, to
    <2>4. to # NoDuty
      BY <2>2 DEF Duty, NoDuty
    <2>5. c = d /\ to = last_commanded_pct(d)
      BY <2>3
    <2> QED BY <2>2, <2>4, <2>5 DEF last_commanded_pct
  <1>3. CASE EngineReturned
    <2>1. c = op.ch /\ task.step = "release" /\ op.ok /\ op.step = "done" /\ op.by = "engine"
      BY <1>3 DEF EngineReturned, Returned
    <2> QED BY <2>1 DEF FloorInv, LandedInv, ReleaseInv, EngineCalls
  <1>4. CASE RecordPreEmergency \/ WriteNext \/ PutBackNext \/ NoteLost \/ GiveBackNext \/ NextLeg
    BY <1>4 DEF RecordPreEmergency, WriteNext, PutBackNext, NoteLost, GiveBackNext, NextLeg
  <1> QED BY <1>1, <1>2, <1>3, <1>4 DEF TaskStep

(* An exchange leaves its channel at the duty it carries, or as it was,    *)
(* and every other channel alone.                                          *)
LEMMA Survives ==
    ASSUME TypeInv, FloorInv, [Next]_vars, stop.stage = "floored",
           op.step = "send", op'.step = "done", NEW c \in Channels
    PROVE  board'[c] >= board[c] \/ board'[c] >= ExitFloor
  <1>0. /\ op \in Calls /\ board \in [Channels -> Duty] /\ op.pct >= ExitFloor
        /\ board[c] >= board[c]
    BY DEF TypeInv, FanTypeOK, Calls, FloorInv, MinimaInv, Flooring, Duty
  <1>1. CASE Exchange \/ \E lands \in BOOLEAN : ExchangeFails(lands)
    <2>1. board' = board \/ board' = [board EXCEPT ![op.ch] = op.pct]
      BY <1>1 DEF Exchange, ExchangeFails
    <2>2. board'[c] = board[c] \/ board'[c] = op.pct
      BY <1>0, <2>1 DEF Calls
    <2> QED BY <1>0, <2>2
  <1>2. CASE UNCHANGED op
    BY <1>2
  <1>3. op' # Idle /\ op # Idle
    BY DEF Idle
  <1>4. ~TaskStep
    BY <1>2, <1>3, ByEngine DEF EngineTurn, set_pwm
  <1>5. OthersCall /\ ~apply_exit_floor
    BY <1>3, <1>4, ByOthers DEF OthersTurn, apply_exit_floor, Free
  <1> QED BY <1>1, <1>2, <1>3, <1>5 DEF OthersCall, Begins, set_pwm

(* The daemon leaves no channel below the exit floor: not one its engine   *)
(* lets go of (release_unheld_openfan), and none that a write queued       *)
(* behind the exit floor's own reaches after it (apply_exit_floor,         *)
(* exit_min).                                                              *)
THEOREM NoneBelowExitFloor == Spec => ExitFloorHolds
  <1>1. TypeInv /\ FloorInv /\ [Next]_vars =>
          [\A c \in engineHeld \ engineHeld' :
              ExitFloor > 0 => ctl[c].last >= ExitFloor]_vars
    BY Releases
  <1>2. TypeInv /\ FloorInv /\ [Next]_vars =>
          [stop.stage = "floored" /\ op.step = "send" /\ op'.step = "done" =>
              \A c \in Channels : board'[c] >= board[c] \/ board'[c] >= ExitFloor]_vars
    BY Survives
  <1> QED BY <1>1, <1>2, FloorAlways, PTL
          DEF Spec, ExitFloorHolds, ReleasedAtExitDuty, ExitFloorSurvives
=============================================================================
