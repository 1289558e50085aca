------------------------- MODULE ThermalLadderProofs -------------------------
(***************************************************************************)
(* For every set of sensors, every threshold the constants allow and every *)
(* interleaving of the poll loop with the engine: the type invariant, that *)
(* a latched emergency always forces full speed, what may end one, when    *)
(* the no-sensor floor may be forced, and which readings are cached.       *)
(***************************************************************************)
EXTENDS ThermalLadder, TLAPS

(* A sensor whose streak has passed the threshold is quarantined: what     *)
(* keeps the streak bounded (SensorFailureTracker::record_tick).           *)
StreakInv == \A s \in Sensors : streak[s] > FailThreshold => s \in quarantined

(* A cached reading is a temperature its sensor can report. *)
ValueInv == \A s \in cached : reading[s].v \in Values[s]

LadderInv == TypeOK /\ StreakInv /\ ValueInv

(* The freshness budget of StateCache::cpu_temp_stale_after is a natural. *)
LEMMA StaleAfterNat == cpu_temp_stale_after \in Nat /\ AgeCap \in Nat
  <1>1. /\ PollInterval \in Nat /\ StaleIntervals \in Nat /\ StaleCeiling \in Nat
    BY FeedAssumption
  <1>2. PollInterval * StaleIntervals \in Nat
    BY <1>1
  <1> QED BY <1>1, <1>2 DEF cpu_temp_stale_after, AgeCap

(* An age that grows stays within its cap. *)
LEMMA OlderType == \A a \in 0..AgeCap : Older(a) \in 0..AgeCap
  BY StaleAfterNat DEF Older

(* Whatever two rules decide, the combination is a decision. *)
LEMMA CombineType ==
    ASSUME NEW b \in BOOLEAN, NEW r, NEW l, NEW n
    PROVE  combine(CpuDecision(r, l, n), CoolantDecision(b)) \in
              [state  : {"normal", "emergency", "no_sensor_fallback"},
               forced : {NoForce, NoSensorPct, Full},
               causes : SUBSET {"cpu", "coolant"}]
  BY FloorAssumption
     DEF combine, CpuDecision, CoolantDecision, NORMAL, EMERGENCY,
         NO_SENSOR_FALLBACK, NoForce, Full

(* CpuReading *)
Readings == [kind : {"fresh", "stale", "absent"}, t : Int]

(* The hottest of a non-empty set of values is one of them, and bounds     *)
(* them all.                                                               *)
LEMMA HottestIsMax ==
    ASSUME NEW S, S # {}, S \subseteq Temps \/ S \subseteq Triggers
    PROVE  Hottest(S) \in S /\ \A x \in S : x <= Hottest(S)
  BY HottestAssumption DEF Hottest

(* What the engine reads of a kind of sensor: a reading; if fresh, then no *)
(* fresh sensor of that kind is hotter.                                    *)
LEMMA HottestReading ==
    ASSUME FeedTypeOK, ValueInv, NEW keep
    PROVE  LET r == hottest_reading_where(keep) IN
           /\ r \in Readings
           /\ r.kind = "fresh" =>
                 /\ \E s \in cached \cap keep : IsFresh(s)
                 /\ \A s \in cached \cap keep : IsFresh(s) => reading[s].v <= r.t
  <1> DEFINE all == cached \cap keep
             fresh == {s \in all : IsFresh(s)}
             r == hottest_reading_where(keep)
  <1>1. \A s \in all : reading[s].v \in Temps
    BY ValuesAssumption DEF ValueInv, FeedTypeOK
  <1>2. CASE fresh # {}
    <2> DEFINE V == {reading[s].v : s \in fresh}
    <2>1. V # {} /\ V \subseteq Temps
      BY <1>1, <1>2
    <2>2. Hottest(V) \in V /\ \A x \in V : x <= Hottest(V)
      BY <2>1, HottestIsMax
    <2>3. r = Fresh(Hottest(V))
      BY <1>2 DEF hottest_reading_where
    <2>4. Hottest(V) \in Int
      BY <2>1, <2>2, ThresholdAssumption
    <2> QED BY <1>2, <2>2, <2>3, <2>4 DEF Fresh, Readings
  <1>3. CASE fresh = {} /\ all # {}
    <2> DEFINE V == {reading[s].v : s \in all}
    <2>1. V # {} /\ V \subseteq Temps
      BY <1>1, <1>3
    <2>2. Hottest(V) \in Int
      BY <2>1, HottestIsMax, ThresholdAssumption
    <2>3. r = Stale(Hottest(V))
      BY <1>3 DEF hottest_reading_where
    <2> QED BY <2>2, <2>3 DEF Stale, Readings
  <1>4. CASE fresh = {} /\ all = {}
    BY <1>4 DEF hottest_reading_where, Absent, Readings
  <1> QED BY <1>2, <1>3, <1>4

(* The trigger of a tick is never below the base one. *)
LEMMA TriggerRaiseOnly == effective_trigger_c \in Int /\ effective_trigger_c >= BaseTrigger
  <1> DEFINE T == {BaseTrigger} \cup
         {Candidate(Crit[s]) : s \in {q \in cached \cap CpuSensors : Crit[q] # NoCrit}}
  <1>1. T # {} /\ T \subseteq Triggers /\ BaseTrigger \in T
    BY DEF Triggers
  <1>2. T \subseteq Int
    BY CritAssumption, ThresholdAssumption DEF Candidate
  <1>3. Hottest(T) \in T /\ \A x \in T : x <= Hottest(T)
    BY <1>1, HottestIsMax
  <1> QED BY <1>1, <1>2, <1>3 DEF effective_trigger_c

(* ThermalSafetyRule::evaluate behind the tables' first row: the latch is  *)
(* a Boolean, and only a fresh reading at or below release opens it.       *)
LEMMA LatchMoves ==
    ASSUME NEW r \in Readings, NEW active \in BOOLEAN, NEW trig \in Int, NEW rel \in Int
    PROVE  /\ LatchAfter(r, active, trig, rel) \in BOOLEAN
           /\ active /\ ~LatchAfter(r, active, trig, rel)
                 => r.kind = "fresh" /\ r.t <= rel
  <1>0. r.t \in Int
    BY DEF Readings
  <1>1. CASE r.kind = "fresh" /\ active
    <2>1. LatchAfter(r, active, trig, rel) = (r.t > rel)
      BY <1>1, Zenon DEF LatchAfter, evaluate
    <2>2. (r.t > rel) \in BOOLEAN /\ (~(r.t > rel) => r.t <= rel)
      BY <1>0
    <2> QED BY <1>1, <2>1, <2>2, Zenon
  <1>2. CASE r.kind = "fresh" /\ ~active
    <2>1. LatchAfter(r, active, trig, rel) = (r.t >= trig)
      BY <1>2, Zenon DEF LatchAfter, evaluate
    <2>2. (r.t >= trig) \in BOOLEAN
      BY <1>0
    <2> QED BY <1>2, <2>1, <2>2, Zenon
  <1>3. CASE r.kind # "fresh"
    <2>1. LatchAfter(r, active, trig, rel) = active
      BY <1>3, Zenon DEF LatchAfter
    <2> QED BY <1>3, <2>1, Zenon
  <1> QED BY <1>1, <1>2, <1>3

LEMMA InitInv == Init => LadderInv
  <1> SUFFICES ASSUME Init PROVE LadderInv
    OBVIOUS
  <1> USE DEF Init, FeedInit, SafetyInit
  <1>1. FeedTypeOK
    <2>1. 0 \in 0..AgeCap /\ 0 \in 0..(FailThreshold + 1)
      BY FeedAssumption, StaleAfterNat
    <2>2. read \in [active : BOOLEAN, discovery : BOOLEAN, age : 0..AgeCap]
      BY <2>1 DEF NoRead
    <2>3. /\ streak \in [Sensors -> 0..(FailThreshold + 1)]
          /\ reading \in [Sensors -> [v : Int, age : 0..AgeCap]]
      BY <2>1
    <2> QED BY <2>2, <2>3 DEF FeedTypeOK
  <1>2. SafetyTypeOK
    <2>1. decision = combine(CpuDecision(Fresh(0), FALSE, 0), CoolantDecision(FALSE))
      BY DEF CpuDecision, CoolantDecision, Fresh
    <2>2. decision \in [state  : {"normal", "emergency", "no_sensor_fallback"},
                        forced : {NoForce, NoSensorPct, Full},
                        causes : SUBSET {"cpu", "coolant"}]
      <3>1. combine(CpuDecision(Fresh(0), FALSE, 0), CoolantDecision(FALSE)) \in
              [state  : {"normal", "emergency", "no_sensor_fallback"},
               forced : {NoForce, NoSensorPct, Full},
               causes : SUBSET {"cpu", "coolant"}]
        BY CombineType, Zenon
      <3> QED BY <2>1, <3>1, Zenon
    <2>3. coolantLimit \in CoolantMin..CoolantMax /\ blind \in 0..NoSensorThreshold
      BY ThresholdAssumption, FloorAssumption
    <2> QED BY <2>2, <2>3 DEF SafetyTypeOK
  <1>3. StreakInv /\ ValueInv
    BY FeedAssumption DEF StreakInv, ValueInv
  <1> QED BY <1>1, <1>2, <1>3 DEF LadderInv, TypeOK

(* A harvested read keeps the feed well formed. *)
LEMMA HarvestInv ==
    ASSUME FeedTypeOK, StreakInv, ValueInv, PollHarvest
    PROVE  FeedTypeOK' /\ StreakInv' /\ ValueInv'
  <1>1. descriptors' \subseteq Sensors /\ protected' \subseteq Sensors
    BY DEF PollHarvest, FeedTypeOK, DescriptorsAfter, ProtectedAfter
  <1>2a. PICK ok \in ReadsOf(descriptors') : \E val \in ValuesOf(ok) :
          ApplyRead(descriptors', ok \ implausibly_low_cpu_readings(ok, val), val)
    BY DEF PollHarvest
  <1>2. PICK val \in ValuesOf(ok) :
          ApplyRead(descriptors', ok \ implausibly_low_cpu_readings(ok, val), val)
    BY <1>2a
  <1> DEFINE fresh == ok \ implausibly_low_cpu_readings(ok, val)
  <1>3. fresh \subseteq Sensors /\ \A s \in fresh : val[s] \in Values[s]
    BY <1>1 DEF ReadsOf, ValuesOf
  <1>4. ApplyRead(descriptors', fresh, val)
    BY <1>2
  <1> HIDE DEF fresh
  <1>5. quarantined' \subseteq Sensors
    BY <1>1, <1>4 DEF ApplyRead, QuarantinedAfter
  <1>6. /\ streak' \in [Sensors -> 0..(FailThreshold + 1)]
        /\ StreakInv'
    <2> DEFINE failing == descriptors' \ fresh
    <2>1. /\ streak' = [s \in Sensors |-> StreakAfter(descriptors', failing, s)]
          /\ quarantined' = QuarantinedAfter(descriptors', failing)
      BY <1>4 DEF ApplyRead
    <2> HIDE DEF failing
    <2>2. ASSUME NEW s \in Sensors
          PROVE  /\ StreakAfter(descriptors', failing, s) \in 0..(FailThreshold + 1)
                 /\ StreakAfter(descriptors', failing, s) > FailThreshold
                       => s \in QuarantinedAfter(descriptors', failing)
      <3>1. FailThreshold \in Nat /\ streak[s] \in 0..(FailThreshold + 1)
            /\ (streak[s] > FailThreshold => s \in quarantined)
        BY FeedAssumption DEF FeedTypeOK, StreakInv
      <3> QED BY <3>1 DEF StreakAfter, QuarantinedAfter
    <2> QED BY <2>1, <2>2 DEF StreakInv
  <1>7. cached' \subseteq Sensors /\ cached' \subseteq cached \cup fresh
    BY <1>1, <1>4 DEF ApplyRead
  <1>8. reading' \in [Sensors -> [v : Int, age : 0..AgeCap]]
    <2> SUFFICES ASSUME NEW s \in Sensors PROVE reading'[s] \in [v : Int, age : 0..AgeCap]
      BY <1>4 DEF ApplyRead
    <2>1. CASE s \in fresh
      <3>1. val[s] \in Int
        BY <2>1, <1>3, FeedAssumption
      <3> QED BY <3>1, <2>1, <1>4, StaleAfterNat DEF ApplyRead
    <2>2. CASE s \notin fresh
      BY <2>2, <1>4, StaleAfterNat DEF ApplyRead, FeedTypeOK
    <2> QED BY <2>1, <2>2
  <1>9. ValueInv'
    <2> SUFFICES ASSUME NEW s \in cached' PROVE reading'[s].v \in Values[s]
      BY DEF ValueInv
    <2>1. CASE s \in fresh
      BY <2>1, <1>3, <1>4, <1>7 DEF ApplyRead
    <2>2. CASE s \notin fresh
      BY <2>2, <1>4, <1>7 DEF ApplyRead, ValueInv
    <2> QED BY <2>1, <2>2
  <1>10. FeedTypeOK'
    BY <1>1, <1>5, <1>6, <1>7, <1>8, StaleAfterNat DEF PollHarvest, FeedTypeOK, NoRead
  <1> QED BY <1>6, <1>9, <1>10

(* Every other step of the feed keeps it well formed. *)
LEMMA FeedInv ==
    ASSUME FeedTypeOK, StreakInv, ValueInv,
           PollSpawn \/ PollHarvest \/ PollError \/ RequestRescan
              \/ HwChange \/ TimePasses
    PROVE  FeedTypeOK' /\ StreakInv' /\ ValueInv'
  <1>1. CASE PollSpawn
    <2>1. (~discovered \/ rescan \/ wants_rediscovery
             \/ descriptors \cap CpuSensors = {}) \in BOOLEAN
      OBVIOUS
    <2>2. read' \in [active : BOOLEAN, discovery : BOOLEAN, age : 0..AgeCap]
      BY <1>1, <2>1, StaleAfterNat DEF PollSpawn
    <2> QED BY <1>1, <2>2 DEF PollSpawn, FeedTypeOK, StreakInv, ValueInv
  <1>2. CASE PollHarvest
    BY <1>2, HarvestInv
  <1>3. CASE PollError
    BY <1>3, StaleAfterNat DEF PollError, FeedTypeOK, StreakInv, ValueInv, NoRead
  <1>4. CASE RequestRescan
    BY <1>4 DEF RequestRescan, FeedTypeOK, StreakInv, ValueInv
  <1>5. CASE HwChange
    <2>1. hw' \in [Sensors -> HwStates]
      BY <1>5 DEF HwChange, FeedTypeOK
    <2> QED BY <2>1, <1>5 DEF HwChange, FeedTypeOK, StreakInv, ValueInv
  <1>6. CASE TimePasses
    <2>1. reading' \in [Sensors -> [v : Int, age : 0..AgeCap]]
          /\ \A s \in Sensors : reading'[s].v = reading[s].v
      BY <1>6, OlderType DEF TimePasses, FeedTypeOK
    <2>2. read' \in [active : BOOLEAN, discovery : BOOLEAN, age : 0..AgeCap]
      BY <1>6, OlderType DEF TimePasses, FeedTypeOK
    <2>3. cached' = cached /\ cached \subseteq Sensors
      BY <1>6 DEF TimePasses, FeedTypeOK
    <2>4. ValueInv'
      BY <2>1, <2>3 DEF ValueInv
    <2>5. FeedTypeOK' /\ StreakInv'
      BY <1>6, <2>1, <2>2 DEF TimePasses, FeedTypeOK, StreakInv
    <2> QED BY <2>4, <2>5
  <1> QED BY <1>1, <1>2, <1>3, <1>4, <1>5, <1>6

(* The safety leg of a tick keeps the ladder's own state well formed. *)
LEMMA SafetyInv ==
    ASSUME SafetyTypeOK, NEW c \in Readings, NEW l \in Readings, NEW trig \in Int,
           SafetyTick(c, l, trig) \/ SetCoolantLimit
    PROVE  SafetyTypeOK'
  <1>1. CASE SafetyTick(c, l, trig)
    <2>0. /\ cpuActive \in BOOLEAN /\ coolantActive \in BOOLEAN /\ Release \in Int
          /\ coolantLimit \in Int /\ coolantLimit - CoolantMargin \in Int
      BY ThresholdAssumption DEF SafetyTypeOK
    <2>1. cpuActive' \in BOOLEAN /\ coolantActive' \in BOOLEAN
      BY <1>1, <2>0, LatchMoves DEF SafetyTick
    <2>2. blind' \in 0..NoSensorThreshold
      BY <1>1, FloorAssumption DEF SafetyTick, SafetyTypeOK, BlindAfter
    <2>3. decision' \in [state  : {"normal", "emergency", "no_sensor_fallback"},
                         forced : {NoForce, NoSensorPct, Full},
                         causes : SUBSET {"cpu", "coolant"}]
      BY <1>1, <2>1, CombineType DEF SafetyTick
    <2> QED BY <1>1, <2>1, <2>2, <2>3 DEF SafetyTick, SafetyTypeOK
  <1>2. CASE SetCoolantLimit
    BY <1>2, ThresholdAssumption DEF SetCoolantLimit, SafetyTypeOK, clamp_coolant_limit_c
  <1> QED BY <1>1, <1>2

LEMMA NextInv == LadderInv /\ [Next]_vars => LadderInv'
  <1> SUFFICES ASSUME LadderInv, [Next]_vars PROVE LadderInv'
    OBVIOUS
  <1>0. FeedTypeOK /\ SafetyTypeOK /\ StreakInv /\ ValueInv
    BY DEF LadderInv, TypeOK
  <1>1. CASE Feed
    <2>1. FeedTypeOK' /\ StreakInv' /\ ValueInv'
      BY <1>0, <1>1, FeedInv DEF Feed
    <2>2. SafetyTypeOK'
      BY <1>0, <1>1 DEF Feed, safetyVars, SafetyTypeOK
    <2> QED BY <2>1, <2>2 DEF LadderInv, TypeOK
  <1>2. ASSUME UNCHANGED feedVars PROVE FeedTypeOK' /\ StreakInv' /\ ValueInv'
    BY <1>0, <1>2 DEF feedVars, FeedTypeOK, StreakInv, ValueInv
  <1>3. CASE EngineTick
    <2>1. /\ hottest_reading_where(CpuSensors) \in Readings
          /\ hottest_reading_where(CoolantSensors) \in Readings
          /\ effective_trigger_c \in Int
      BY <1>0, HottestReading, TriggerRaiseOnly
    <2>2. SafetyTypeOK'
      BY <1>0, <1>3, <2>1, SafetyInv DEF EngineTick
    <2> QED BY <1>2, <1>3, <2>2 DEF EngineTick, LadderInv, TypeOK
  <1>4. CASE SetCoolantLimit /\ UNCHANGED feedVars
    <2>1. Fresh(0) \in Readings /\ 0 \in Int
      BY DEF Fresh, Readings
    <2>2. SafetyTypeOK'
      BY <1>0, <1>4, <2>1, SafetyInv
    <2> QED BY <1>2, <1>4, <2>2 DEF LadderInv, TypeOK
  <1>5. CASE UNCHANGED vars
    <2>1. SafetyTypeOK'
      BY <1>0, <1>5 DEF vars, safetyVars, SafetyTypeOK
    <2> QED BY <2>1, <1>2, <1>5 DEF vars, LadderInv, TypeOK
  <1> QED BY <1>1, <1>3, <1>4, <1>5 DEF Next

(* The poll loop, the tracker, the cache and the safety rules keep their   *)
(* types, with any sensors and thresholds.                                 *)
THEOREM TypeCorrect == Spec => []TypeOK
  <1>1. LadderInv => TypeOK
    BY DEF LadderInv
  <1> QED BY <1>1, InitInv, NextInv, PTL DEF Spec

(* A latched CPU or coolant rule forces 100 % and reports the emergency    *)
(* whatever its sensor does (safety_tick.rs, the second row of each        *)
(* table).                                                                 *)
THEOREM LatchedAlwaysForces == Spec => []LatchedForcesFullSpeed
  <1>1. Init => LatchedForcesFullSpeed
    BY DEF Init, SafetyInit, LatchedForcesFullSpeed
  <1>2. LadderInv /\ LatchedForcesFullSpeed /\ [Next]_vars => LatchedForcesFullSpeed'
    <2> SUFFICES ASSUME LadderInv, LatchedForcesFullSpeed, [Next]_vars
                 PROVE  LatchedForcesFullSpeed'
      OBVIOUS
    <2>1. CASE EngineTick
      <3>1. decision' = combine(CpuDecision(hottest_reading_where(CpuSensors), cpuActive', blind'),
                                CoolantDecision(coolantActive'))
        BY <2>1 DEF EngineTick, SafetyTick
      <3>2. ASSUME cpuActive' PROVE decision'.forced = Full /\ decision'.state = "emergency"
        BY <3>1, <3>2 DEF combine, CpuDecision, CoolantDecision, EMERGENCY, NORMAL, Full, NoForce
      <3>3. ASSUME coolantActive' PROVE decision'.forced = Full /\ decision'.state = "emergency"
        BY <3>1, <3>3, FloorAssumption
           DEF combine, CpuDecision, CoolantDecision, EMERGENCY, NORMAL,
               NO_SENSOR_FALLBACK, Full, NoForce
      <3> QED BY <3>2, <3>3 DEF LatchedForcesFullSpeed
    <2>2. CASE Feed \/ UNCHANGED vars
      BY <2>2 DEF Feed, vars, safetyVars, LatchedForcesFullSpeed
    <2>3. CASE SetCoolantLimit /\ UNCHANGED feedVars
      BY <2>3 DEF SetCoolantLimit, LatchedForcesFullSpeed
    <2> QED BY <2>1, <2>2, <2>3 DEF Next
  <1> QED BY <1>1, <1>2, InitInv, NextInv, PTL DEF Spec

(* No step ends an emergency unless every rule behind it had a fresh       *)
(* reading and no fresh sensor of its kind above its release point.        *)
THEOREM OnlyCoolEndsEmergency == Spec => EmergencyEndsOnlyCool
  <1> DEFINE A == decision.state = "emergency" /\ decision'.state # "emergency" =>
                    /\ cpuActive => CooledBy(CpuSensors, Release)
                    /\ coolantActive => CooledBy(CoolantSensors, coolantLimit - CoolantMargin)
  <1>1. LadderInv /\ [Next]_vars => [A]_vars
    <2> SUFFICES ASSUME LadderInv, EngineTick,
                        decision.state = "emergency", decision'.state # "emergency"
                 PROVE  /\ cpuActive => CooledBy(CpuSensors, Release)
                        /\ coolantActive => CooledBy(CoolantSensors, coolantLimit - CoolantMargin)
      BY DEF Next, Feed, SetCoolantLimit, safetyVars
    <2> DEFINE cpu == hottest_reading_where(CpuSensors)
               coolant == hottest_reading_where(CoolantSensors)
    <2>1. FeedTypeOK /\ ValueInv /\ SafetyTypeOK
      BY DEF LadderInv, TypeOK
    <2>2. /\ cpuActive' = LatchAfter(cpu, cpuActive, effective_trigger_c, Release)
          /\ coolantActive' = LatchAfter(coolant, coolantActive, coolantLimit,
                                         coolantLimit - CoolantMargin)
          /\ decision' = combine(CpuDecision(cpu, cpuActive', blind'),
                                 CoolantDecision(coolantActive'))
      BY DEF EngineTick, SafetyTick
    <2>3. /\ cpu \in Readings /\ coolant \in Readings
          /\ cpu.kind = "fresh" =>
                /\ \E s \in cached \cap CpuSensors : IsFresh(s)
                /\ \A s \in cached \cap CpuSensors : IsFresh(s) => reading[s].v <= cpu.t
          /\ coolant.kind = "fresh" =>
                /\ \E s \in cached \cap CoolantSensors : IsFresh(s)
                /\ \A s \in cached \cap CoolantSensors : IsFresh(s) => reading[s].v <= coolant.t
      BY <2>1, HottestReading
    <2> HIDE DEF cpu, coolant
    <2>4. ~cpuActive' /\ ~coolantActive'
      BY <2>2 DEF combine, CpuDecision, CoolantDecision, EMERGENCY
    <2>5. \A s \in cached : reading[s].v \in Int
      BY <2>1 DEF FeedTypeOK
    <2>6. Release \in Int /\ coolantLimit - CoolantMargin \in Int /\ cpu.t \in Int /\ coolant.t \in Int
      BY <2>1, <2>3, ThresholdAssumption DEF SafetyTypeOK, Readings
    <2>9. cpuActive \in BOOLEAN /\ coolantActive \in BOOLEAN
          /\ effective_trigger_c \in Int /\ coolantLimit \in Int
      BY <2>1, ThresholdAssumption, TriggerRaiseOnly DEF SafetyTypeOK
    <2>7. ASSUME cpuActive PROVE CooledBy(CpuSensors, Release)
      <3>1. cpu.kind = "fresh" /\ cpu.t <= Release
        BY <2>2, <2>3, <2>4, <2>6, <2>7, <2>9, LatchMoves
      <3> QED BY <3>1, <2>3, <2>5, <2>6 DEF CooledBy
    <2>8. ASSUME coolantActive PROVE CooledBy(CoolantSensors, coolantLimit - CoolantMargin)
      <3>1. coolant.kind = "fresh" /\ coolant.t <= coolantLimit - CoolantMargin
        BY <2>2, <2>3, <2>4, <2>6, <2>8, <2>9, LatchMoves
      <3> QED BY <3>1, <2>3, <2>5, <2>6 DEF CooledBy
    <2> QED BY <2>7, <2>8
  <1> QED BY <1>1, InitInv, NextInv, PTL DEF Spec, EmergencyEndsOnlyCool

(* A reading that is not fresh: no sensor of its kind is, and none has a   *)
(* hotter stale one.                                                       *)
LEMMA BlindReading ==
    ASSUME FeedTypeOK, ValueInv, NEW keep
    PROVE  LET r == hottest_reading_where(keep) IN
           r.kind # "fresh" =>
              \A s \in cached \cap keep :
                 ~IsFresh(s) /\ r.kind = "stale" /\ reading[s].v <= r.t
  <1> DEFINE all == cached \cap keep
             fresh == {s \in all : IsFresh(s)}
             r == hottest_reading_where(keep)
             V == {reading[s].v : s \in all}
  <1>1. CASE fresh # {}
    BY <1>1 DEF hottest_reading_where, Fresh
  <1>2. CASE fresh = {} /\ all # {}
    <2>1. V # {} /\ V \subseteq Temps
      BY <1>2, ValuesAssumption DEF ValueInv, FeedTypeOK
    <2>2. \A x \in V : x <= Hottest(V)
      BY <2>1, HottestIsMax
    <2>3. r = Stale(Hottest(V))
      BY <1>2 DEF hottest_reading_where
    <2>4. r.kind = "stale" /\ r.t = Hottest(V)
      BY <2>3 DEF Stale
    <2> QED BY <1>2, <2>2, <2>4
  <1>3. CASE all = {}
    BY <1>3
  <1> QED BY <1>1, <1>2, <1>3

(* The no-sensor floor is forced only when no CPU sensor is fresh and no   *)
(* stale CPU reading is at or above release: it never lowers what a curve  *)
(* on a reading still in the cache would command (evaluate_safety_tick,    *)
(* hottest_reading_where).                                                 *)
THEOREM FloorOnlyWhenBlind == Spec => NoFloorOverHotOrFresh
  <1> DEFINE A == decision'.state = "no_sensor_fallback" /\ decision' # decision =>
                     \A s \in cached \cap CpuSensors : ~IsFresh(s) /\ reading[s].v < Release
  <1>1. LadderInv /\ [Next]_vars => [A]_vars
    <2> SUFFICES ASSUME LadderInv, EngineTick, decision'.state = "no_sensor_fallback",
                        NEW s \in cached \cap CpuSensors
                 PROVE  ~IsFresh(s) /\ reading[s].v < Release
      BY DEF Next, Feed, SetCoolantLimit, safetyVars
    <2> DEFINE cpu == hottest_reading_where(CpuSensors)
    <2>1. FeedTypeOK /\ ValueInv
      BY DEF LadderInv, TypeOK
    <2>2. decision' = combine(CpuDecision(cpu, cpuActive', blind'),
                              CoolantDecision(coolantActive'))
      BY DEF EngineTick, SafetyTick
    <2>3. cpu \in Readings
      BY <2>1, HottestReading
    <2>4. cpu.kind # "fresh" => ~IsFresh(s) /\ cpu.kind = "stale" /\ reading[s].v <= cpu.t
      BY <2>1, BlindReading
    <2> HIDE DEF cpu
    <2>5. CpuDecision(cpu, cpuActive', blind').state = "no_sensor_fallback"
      BY <2>2 DEF combine
    <2>6. cpu.kind # "fresh" /\ ~(cpu.kind = "stale" /\ cpu.t >= Release)
      BY <2>5 DEF CpuDecision, NORMAL, EMERGENCY
    <2>7. cpu.t \in Int /\ Release \in Int /\ reading[s].v \in Int
      BY <2>1, <2>3, ThresholdAssumption DEF Readings, FeedTypeOK
    <2> QED BY <2>4, <2>6, <2>7
  <1> QED BY <1>1, InitInv, NextInv, PTL DEF Spec, NoFloorOverHotOrFresh

(* Whatever reads are late, fail or go through a discovery: no quarantined *)
(* sensor has a cached reading, and every cached reading is of a listed    *)
(* sensor or of a chip that is protected from eviction (retain_sensors,    *)
(* update_unavailable_sensors).                                            *)
THEOREM CacheIsLive == Spec => []CacheHoldsOnlyLiveSensors
  <1>1. Init => CacheHoldsOnlyLiveSensors
    BY DEF Init, FeedInit, CacheHoldsOnlyLiveSensors
  <1>2. CacheHoldsOnlyLiveSensors /\ [Next]_vars => CacheHoldsOnlyLiveSensors'
    <2> SUFFICES ASSUME CacheHoldsOnlyLiveSensors, [Next]_vars
                 PROVE  CacheHoldsOnlyLiveSensors'
      OBVIOUS
    <2>1. CASE PollHarvest
      <3>1. PICK fresh, val : ApplyRead(DescriptorsAfter, fresh, val)
        BY <2>1 DEF PollHarvest
      <3> QED BY <2>1, <3>1 DEF PollHarvest, ApplyRead, CacheHoldsOnlyLiveSensors
    <2>2. CASE UNCHANGED <<cached, quarantined, descriptors, protected>>
      BY <2>2 DEF CacheHoldsOnlyLiveSensors
    <2> QED BY <2>1, <2>2 DEF Next, Feed, EngineTick, PollSpawn, PollError, RequestRescan,
           HwChange, TimePasses, feedVars, vars
  <1> QED BY <1>1, <1>2, PTL DEF Spec
=============================================================================
