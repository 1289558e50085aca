---------------------------- MODULE ThermalLadder ----------------------------
(***************************************************************************)
(* The sensor feed and the thermal safety leg of the engine tick, composed *)
(* through the StateCache: the poll loop and the 1 Hz engine interleave    *)
(* freely, a read may take arbitrarily long, sensors fail, vanish and come *)
(* back.                                                                   *)
(***************************************************************************)
EXTENDS SensorFeed, ThermalSafety

CONSTANTS
    Crit,     \* Crit[s]: the `crit_c` an authoritative CPU chip reports
    NoCrit    \* ... or this, for a sensor without one

ASSUME CritAssumption == \A s \in CpuSensors : Crit[s] = NoCrit \/ Crit[s] \in Nat

ASSUME ValuesAssumption == \A s \in Sensors : Values[s] \subseteq Temps

(* A design ceiling plus the margin, capped: one candidate for the trigger. *)
Candidate(c) ==
    IF c + TriggerMargin < TriggerCap THEN c + TriggerMargin ELSE TriggerCap

Triggers == {BaseTrigger} \cup
            {Candidate(Crit[s]) : s \in {q \in CpuSensors : Crit[q] # NoCrit}}

(* A non-empty set of readings, or of triggers, has a largest: both finite. *)
ASSUME HottestAssumption ==
    /\ \A S \in SUBSET Temps : S # {} => \E m \in S : \A x \in S : x <= m
    /\ \A S \in SUBSET Triggers : S # {} => \E m \in S : \A x \in S : x <= m

vars == <<feedVars, safetyVars>>

Hottest(S) == CHOOSE m \in S : \A x \in S : x <= m

IsFresh(s) == reading[s].age <= cpu_temp_stale_after

(* hottest_reading_where: fresh readings win outright over stale ones. *)
hottest_reading_where(keep) ==
    LET all   == cached \cap keep
        fresh == {s \in all : IsFresh(s)}
    IN  IF fresh # {} THEN Fresh(Hottest({reading[s].v : s \in fresh}))
        ELSE IF all # {} THEN Stale(Hottest({reading[s].v : s \in all}))
        ELSE Absent

(* effective_trigger_c: raise-only over the base, from every cached CPU    *)
(* reading that carries a design ceiling, however old the reading.         *)
effective_trigger_c ==
    Hottest({BaseTrigger} \cup
            {Candidate(Crit[s]) : s \in {q \in cached \cap CpuSensors : Crit[q] # NoCrit}})

Init == FeedInit /\ SafetyInit

EngineTick ==
    /\ SafetyTick(hottest_reading_where(CpuSensors),
                  hottest_reading_where(CoolantSensors),
                  effective_trigger_c)
    /\ UNCHANGED feedVars

Feed == (PollSpawn \/ PollHarvest \/ PollError \/ RequestRescan
            \/ HwChange \/ TimePasses) /\ UNCHANGED safetyVars

Next == Feed \/ EngineTick \/ (SetCoolantLimit /\ UNCHANGED feedVars)

Spec == Init /\ [][Next]_vars

(* The poll loop keeps ticking; a read that can return does, and discovery *)
(* does not fail for ever.                                                 *)
Fairness ==
    /\ WF_vars(PollSpawn /\ UNCHANGED safetyVars)
    /\ SF_vars(PollHarvest /\ UNCHANGED safetyVars)

FairSpec == Spec /\ Fairness

----------------------------------------------------------------------------
TypeOK == FeedTypeOK /\ SafetyTypeOK

(* A latched rule, CPU or coolant, forces every fan to 100 % and reports   *)
(* the emergency after EVERY tick, with its sensor fresh, stale or gone    *)
(* (safety_tick.rs: "going blind never LOWERS a latched emergency").       *)
LatchedForcesFullSpeed ==
    cpuActive \/ coolantActive =>
        decision.forced = Full /\ decision.state = "emergency"

(* An emergency ends only when every rule behind it saw a fresh reading    *)
(* and NO fresh sensor of its kind above its release point: a stale        *)
(* sibling, a vanished sensor or a moved limit alone never ends it.        *)
CooledBy(sensors, release) ==
    /\ \E s \in cached \cap sensors : IsFresh(s)
    /\ \A s \in cached \cap sensors : IsFresh(s) => reading[s].v <= release

EmergencyEndsOnlyCool ==
    [][decision.state = "emergency" /\ decision'.state # "emergency" =>
          /\ cpuActive => CooledBy(CpuSensors, Release)
          /\ coolantActive => CooledBy(CoolantSensors, coolantLimit - CoolantMargin)]_vars

(* The no-sensor floor is never forced over a stale reading at or above    *)
(* release, nor while any CPU sensor is fresh (DEC-269 round 2: it would   *)
(* lower the cooling a curve on that value commands).                      *)
NoFloorOverHotOrFresh ==
    [][decision'.state = "no_sensor_fallback" /\ decision' # decision =>
          \A s \in cached \cap CpuSensors : ~IsFresh(s) /\ reading[s].v < Release]_vars

(* A quarantined sensor has no reading the engine could act on, and every  *)
(* cached reading belongs to a listed sensor or to a protected chip.       *)
CacheHoldsOnlyLiveSensors ==
    /\ cached \cap quarantined = {}
    /\ cached \subseteq descriptors \cup protected

(* A sensor that is gone for good, and neither quarantined nor protected   *)
(* from eviction, leaves the cache: its failing reads earn the one         *)
(* re-discovery that drops it, instead of a quarantine.                    *)
GoneSensorLeaves ==
    \A s \in Sensors :
        [](  (hw[s] = "gone" /\ s \notin quarantined /\ s \notin protected)
           => <>(hw[s] # "gone" \/ s \in protected
                 \/ s \notin cached \cup descriptors \cup quarantined))

(* The cache follows the sensors: it holds none that is quarantined or     *)
(* unlisted, and loses one that is gone.                                   *)
CacheFollowsSensors == []CacheHoldsOnlyLiveSensors /\ GoneSensorLeaves

(* polling.rs:405-410: a chip that cannot be read keeps its cached reading *)
(* "until a pass reads [it] again".                                        *)
UnreadableChipKeepsReading ==
    [][\A s \in Sensors : s \in protected /\ hw[s] = "chip_unreadable" /\ s \in cached
          => s \in cached']_vars
=============================================================================
