------------------------------ MODULE PmfwHandBack ------------------------------
(***************************************************************************)
(* The AMD cards as their PMFW fan_curve files show them, and the list of  *)
(* the ones the daemon has written a curve to (hwmon/gpu_fan.rs), with the *)
(* record of that list that ExecStopPost replays.                          *)
(*                                                                         *)
(* A curve is a flat duty, or FirmwareAuto (the firmware's own), or        *)
(* Foreign (one that another tool put there).  A write that fails leaves   *)
(* the curve alone: points take effect only with the commit that ends it.  *)
(***************************************************************************)
EXTENDS Integers, FiniteSets

CONSTANTS
    Fans,        \* the fan ids of the cards with a PMFW fan_curve
    Env,         \* the kinds of event a run explores
    EnvBudget    \* how many of them happen

ASSUME CardsAssumption == IsFiniteSet(Fans) /\ EnvBudget \in Nat

VARIABLES
    curve,       \* card -> its fan curve
    taken,       \* PmfwState::taken
    record,      \* the cards named in the file gpu-pmfw-handback
    recordBad,   \* PmfwState::record_error_logged
    wedged,      \* the cards do not answer a write
    budget       \* events the environment has left

cardVars == <<curve, taken, record, recordBad, wedged, budget>>

FirmwareAuto == -1
Foreign == -2
None == -3       \* no duty
Driven(f) == curve[f] >= 0

Event(e) == e \in Env /\ budget > 0 /\ budget' = budget - 1
NoEvent == UNCHANGED budget

(* A write to a card returns, with its outcome, unless the card is wedged. *)
Lands == ~wedged /\ NoEvent
Fails == ~wedged /\ Event("fail")

----------------------------------------------------------------------------
persist_pmfw(now) ==
    \/ record' = now /\ recordBad' = FALSE /\ NoEvent
    \/ recordBad' = TRUE /\ UNCHANGED record /\ Event("disk")

(* Mutant of note_take: the record is left for later. *)
note_take_unrecorded(f) ==
    taken' = taken \cup {f} /\ UNCHANGED <<record, recordBad, budget>>

note_take(f) ==
    /\ taken' = taken \cup {f}
    /\ IF f \in taken /\ ~recordBad
       THEN UNCHANGED <<record, recordBad, budget>>
       ELSE persist_pmfw(taken')

note_handed_back(f) ==
    /\ taken' = taken \ {f}
    /\ IF f \in taken THEN persist_pmfw(taken')
       ELSE UNCHANGED <<record, recordBad, budget>>

CardsInit ==
    /\ curve \in [Fans -> {FirmwareAuto}]
    /\ taken = {} /\ record = {} /\ recordBad = FALSE
    /\ wedged = FALSE /\ budget = EnvBudget
=============================================================================
