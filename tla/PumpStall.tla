------------------------------- MODULE PumpStall -------------------------------
(***************************************************************************)
(* The pump stall watch (profile_engine/pump_stall.rs) in the engine tick  *)
(* that feeds it and carries its response out: what a pump does, what its  *)
(* tach tells, the profile's pump members and its activations, and the     *)
(* write pause of a diagnostic.  Time is counted in ticks.                 *)
(***************************************************************************)
EXTENDS Integers

CONSTANTS
    Headers,       \* pump headers
    Detect, Kick,  \* PUMP_STALL_DETECT and PUMP_STALL_KICK
    Curve,         \* duties a pump's curve commands
    Env, EnvBudget

ASSUME StallAssumption ==
    /\ Detect \in Nat \ {0} /\ Kick \in Nat \ {0} /\ Curve \subseteq 0..100
    /\ EnvBudget \in Nat

VARIABLES
    watch,       \* PumpStallWatch::headers
    members,     \* the pump members of the active profile
    activated,   \* the activation epoch has moved since the last tick
    paused,      \* verify_active
    commanded,   \* HwmonFanState::pwm_commanded_pct, None when there is none
    turning,     \* history: the pumps that turn
    silent,      \* the headers whose tach is stale
    skipped,     \* the headers whose control is skipped: it commands nothing
    zeros,       \* history: ticks the engine has seen a pump at rest without a
                 \* break, from 0 for the first; None when the last was no such
    budget

envVars == <<members, activated, paused, turning, silent, skipped>>
vars == <<watch, commanded, zeros, envVars, budget>>

None == -1
PumpFloor == 30     \* HARD_PUMP_CPU_FLOOR_PCT
Full == 100         \* PUMP_STALL_RESPONSE_PCT
Stale == -1         \* no fresh reading

Event(e) == e \in Env /\ budget > 0 /\ budget' = budget - 1
UpTo(n, k) == IF n < k THEN n + 1 ELSE k

Monitoring == [name |-> "monitoring", age |-> None, turning |-> FALSE]
Phase(name, age, on) == [name |-> name, age |-> age, turning |-> on]
Raised(h) == watch[h].phase.name # "monitoring"

----------------------------------------------------------------------------
(* What a tick reads of a header: 0 or some RPM, or nothing fresh. *)
Tach(h) == IF h \in silent THEN Stale ELSE IF h \in turning THEN 1 ELSE 0
Seen(h) == watch[h].seen \/ Tach(h) = 1
Stalls(h) == Tach(h) = 0 /\ Seen(h) /\ commanded[h] # None /\ commanded[h] >= PumpFloor

release_holds ==
    [h \in Headers |->
        IF watch[h].phase.name = "held" THEN [watch[h] EXCEPT !.phase = Monitoring]
        ELSE watch[h]]

(* The phase a watched header goes to; age is the ticks since the first    *)
(* zero or since the response began.                                       *)
Watching(w, h) ==
    LET since == IF w.phase.age = None THEN 0 ELSE UpTo(w.phase.age, Detect)
    IN  IF ~Stalls(h) THEN [w EXCEPT !.seen = Seen(h), !.phase = Monitoring]
        ELSE IF since < Detect THEN [w EXCEPT !.phase = Phase("monitoring", since, FALSE)]
        ELSE [w EXCEPT !.stalls = UpTo(@, 2),
                       !.phase = Phase(IF w.stalls > 0 THEN "held" ELSE "kick", 0, FALSE)]

Turns(w, h) == IF Tach(h) = Stale THEN w.phase.turning ELSE Tach(h) = 1

(* Mutant of Kicked: a response ends when its time does. *)
Kicked_timed(w, h) ==
    LET since == UpTo(w.phase.age, Kick)
    IN  IF since < Kick THEN Phase("kick", since, Turns(w, h)) ELSE Monitoring

Kicked(w, h) ==
    LET since == UpTo(w.phase.age, Kick)
    IN  IF since < Kick THEN Phase("kick", since, Turns(w, h))
        ELSE IF Turns(w, h) THEN Monitoring ELSE Phase("not_turning", 0, FALSE)

Advanced(w, h) ==
    IF w.phase.name = "monitoring" THEN Watching(w, h)
    ELSE [w EXCEPT
            !.seen = Seen(h),
            !.phase = IF w.phase.name = "kick" THEN Kicked(w, h)
                      ELSE IF w.phase.name = "held" THEN Phase("held", 0, Turns(w, h))
                      ELSE IF Tach(h) = 1 THEN Monitoring ELSE w.phase]

(* Mutant of advance: a pause leaves the windows alone. *)
advance_through_pause(ws) ==
    [h \in Headers |->
        IF h \notin members THEN [ws[h] EXCEPT !.phase = Monitoring]
        ELSE IF paused THEN ws[h] ELSE Advanced(ws[h], h)]

(* PumpStallWatch::tick. *)
advance(ws) ==
    [h \in Headers |->
        IF h \notin members \/ (paused /\ ws[h].phase.name = "monitoring")
        THEN [ws[h] EXCEPT !.phase = Monitoring]
        ELSE IF paused THEN ws[h] ELSE Advanced(ws[h], h)]

(* Mutant of apply_stall_response: a control that is skipped stays skipped. *)
apply_stall_response_named(h, d) == IF d # None /\ Raised(h)' THEN Full ELSE d

(* apply_stall_response: what is written of a command, None when the       *)
(* control is skipped.                                                     *)
apply_stall_response(h, d) == IF Raised(h)' THEN Full ELSE d

(* The engine's tick: the response is written with the commands, unless a  *)
(* diagnostic holds the pause; a header nothing names is given back.       *)
Tick ==
    /\ watch' = advance(IF activated THEN release_holds ELSE watch)
    /\ activated' = FALSE
    /\ \E curve \in [Headers -> Curve] :
         LET out(h) == apply_stall_response(h, IF h \in skipped THEN None ELSE curve[h])
         IN  commanded' = [h \in Headers |->
                 IF paused THEN commanded[h]
                 ELSE IF h \notin members THEN None
                 ELSE IF out(h) = None THEN commanded[h] ELSE out(h)]
    /\ zeros' = [h \in Headers |->
             IF ~paused /\ h \in members /\ Stalls(h)
             THEN IF zeros[h] = None THEN 0 ELSE UpTo(zeros[h], Detect)
             ELSE None]
    /\ UNCHANGED <<members, paused, turning, silent, skipped, budget>>

----------------------------------------------------------------------------
(* A profile is activated or deactivated, or a header's role changes.  A   *)
(* header that is no pump of the profile's is taken as given back.         *)
Activates ==
    /\ Event("activate")
    /\ members' \in SUBSET Headers /\ activated' = TRUE
    /\ UNCHANGED <<watch, commanded, zeros, paused, turning, silent, skipped>>

RoleChanges ==
    /\ Event("role")
    /\ members' \in SUBSET Headers /\ members' # members
    /\ UNCHANGED <<watch, commanded, zeros, activated, paused, turning, silent, skipped>>

(* A diagnostic takes the write pause, commands a header, and ends. *)
Pauses ==
    /\ ~paused /\ Event("pause")
    /\ paused' = TRUE
    /\ commanded' \in [Headers -> Curve \cup {0}]
    /\ UNCHANGED <<watch, zeros, members, activated, turning, silent, skipped>>

PauseEnds ==
    /\ paused /\ paused' = FALSE
    /\ UNCHANGED <<watch, commanded, zeros, members, activated, turning, silent, skipped, budget>>

(* A pump stops or starts, and a tach goes silent or speaks again. *)
PumpChanges ==
    /\ Event("pump")
    /\ \E h \in Headers :
         turning' = IF h \in turning THEN turning \ {h} ELSE turning \cup {h}
    /\ UNCHANGED <<watch, commanded, zeros, members, activated, paused, silent, skipped>>

TachChanges ==
    /\ Event("tach")
    /\ \E h \in Headers :
         silent' = IF h \in silent THEN silent \ {h} ELSE silent \cup {h}
    /\ UNCHANGED <<watch, commanded, zeros, members, activated, paused, turning, skipped>>

(* A control loses the sensor its curve needs, or gets it back. *)
SkipChanges ==
    /\ Event("skip")
    /\ \E h \in Headers :
         skipped' = IF h \in skipped THEN skipped \ {h} ELSE skipped \cup {h}
    /\ UNCHANGED <<watch, commanded, zeros, members, activated, paused, turning, silent>>

Init ==
    /\ watch = [h \in Headers |-> [seen |-> FALSE, stalls |-> 0, phase |-> Monitoring]]
    /\ members \in SUBSET Headers /\ turning \in SUBSET Headers
    /\ activated = FALSE /\ paused = FALSE /\ silent = {} /\ skipped = {}
    /\ commanded = [h \in Headers |-> None] /\ zeros = [h \in Headers |-> None]
    /\ budget = EnvBudget

Next ==
    \/ Tick \/ Activates \/ RoleChanges \/ Pauses \/ PauseEnds
    \/ PumpChanges \/ TachChanges \/ SkipChanges

Spec == Init /\ [][Next]_vars
FairSpec == Spec /\ WF_vars(Tick) /\ WF_vars(PauseEnds)

----------------------------------------------------------------------------
Phases == {"monitoring", "kick", "not_turning", "held"}

(* The types of the watch and of the commands. *)
TypeOK ==
    /\ \A h \in Headers :
         /\ watch[h].seen \in BOOLEAN /\ watch[h].stalls \in 0..2
         /\ watch[h].phase.name \in Phases
         /\ watch[h].phase.age \in 0..(Detect + Kick) \cup {None}
    /\ commanded \in [Headers -> 0..100 \cup {None}]

(* A stall is confirmed only of a pump that has turned in this run and     *)
(* that the engine has then seen at rest, commanded to turn, in every tick *)
(* of the window: no pause, stale tach or absence from the profile between *)
(* two zeros.  The window is counted by itself; that the pump has turned   *)
(* is what the watch keeps of it.                                          *)
StallIsSeen ==
    [][\A h \in Headers :
          watch'[h].phase.name \in {"kick", "held"}
              /\ watch[h].phase.name \notin {"kick", "held"} =>
          zeros'[h] = Detect /\ watch'[h].seen]_vars

(* Once a stall is confirmed the response ends on evidence only: the tach  *)
(* reads that the pump turns, or the header leaves the profile's pumps; a  *)
(* pump held after its second stall, at an activation or with the latter.  *)
ResponseLasts ==
    [][\A h \in Headers :
          Raised(h) /\ ~Raised(h)' =>
              \/ h \notin members
              \/ watch[h].phase.name = "held" /\ activated
              \/ watch[h].phase.name # "held"
                    /\ (Tach(h) = 1 \/ (Tach(h) = Stale /\ watch[h].phase.turning))]_vars

(* A pump that turned once and stands still is driven at 100 %, a skipped  *)
(* control and diagnostics in between notwithstanding.                     *)
DeadPumpIsDriven ==
    \A h \in Headers :
        []<>(\/ h \notin members \/ h \in turning \cup silent
             \/ ~watch[h].seen \/ commanded[h] = None \/ commanded[h] < PumpFloor
             \/ commanded[h] = Full)

(* A pump that turns again goes back to its curve, unless it is held. *)
RecoveredIsReleased ==
    \A h \in Headers :
        []<>(h \notin turning \/ h \in silent \/ ~Raised(h) \/ watch[h].phase.name = "held")

(* The response is to the pump: it comes to one that stands still, and     *)
(* leaves one that turns again.                                            *)
ResponseFollowsPump == DeadPumpIsDriven /\ RecoveredIsReleased
=============================================================================
