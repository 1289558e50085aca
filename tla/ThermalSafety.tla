---------------------------- MODULE ThermalSafety ----------------------------
(***************************************************************************)
(* The thermal emergency ladder: the latched rule of safety.rs, the two    *)
(* decision tables and their combination in profile_engine/safety_tick.rs, *)
(* and the part of one engine tick that feeds them                         *)
(* (profile_engine/mod.rs, `profile_engine_loop`).                         *)
(*                                                                         *)
(* Temperatures are whole degrees.  A reading is what                      *)
(* `hottest_reading_where` returns: fresh, stale, or absent.               *)
(***************************************************************************)
EXTENDS Integers

CONSTANTS
    Temps,             \* the temperatures a sensor can report
    BaseTrigger,       \* constants::THERMAL_EMERGENCY_TRIGGER_C
    TriggerCap,        \* constants::THERMAL_TRIGGER_MAX_C
    TriggerMargin,     \* constants::THERMAL_TRIGGER_MARGIN_C
    Release,           \* constants::THERMAL_EMERGENCY_RELEASE_C
    NoSensorThreshold, \* constants::NO_SENSOR_CYCLE_THRESHOLD
    NoSensorPct,       \* constants::NO_SENSOR_SAFE_PCT
    CoolantMin,        \* constants::COOLANT_LIMIT_MIN_C
    CoolantMax,        \* constants::COOLANT_LIMIT_MAX_C
    CoolantDefault,    \* constants::DEFAULT_COOLANT_LIMIT_C
    CoolantMargin,     \* constants::COOLANT_RELEASE_MARGIN_C
    CoolantRequests    \* the limits POST /config/coolant-limit may be sent

\* constants.rs:819-825 asserts the same ordering at compile time.
ASSUME ThresholdAssumption ==
    /\ Temps \subseteq Int
    /\ {BaseTrigger, TriggerCap, TriggerMargin, Release,
        CoolantMin, CoolantMax, CoolantDefault, CoolantMargin} \subseteq Nat
    /\ CoolantRequests \subseteq Nat
    /\ Release < BaseTrigger /\ BaseTrigger <= TriggerCap /\ TriggerMargin > 0
    /\ CoolantMin <= CoolantDefault /\ CoolantDefault <= CoolantMax
    /\ CoolantMargin > 0

ASSUME FloorAssumption ==
    /\ NoSensorThreshold \in Nat \ {0}
    /\ NoSensorPct \in 1..99

VARIABLES
    cpuActive,      \* ThermalSafetyRule::active of the CPU rule
    coolantActive,  \* ThermalSafetyRule::active of the coolant rule
    blind,          \* no_cpu_sensor_cycles, saturated at NoSensorThreshold
    coolantLimit,   \* StateCache::coolant_limit_c
    decision        \* the tick's TickSafety: state, forced duty and causes

safetyVars == <<cpuActive, coolantActive, blind, coolantLimit, decision>>

----------------------------------------------------------------------------
(* CpuReading *)

Fresh(t) == [kind |-> "fresh", t |-> t]
Stale(t) == [kind |-> "stale", t |-> t]
Absent   == [kind |-> "absent", t |-> 0]

NoForce == -1       \* forced_pct = None
Full    == 100      \* ThermalSafetyRule::forced_output_pct

(* ThermalSafetyRule::evaluate: the latch after a FRESH reading t. *)
evaluate(active, t, trigger, release) ==
    IF active THEN t > release ELSE t >= trigger

(* Mutant of LatchAfter: losing the sensor drops the latch. *)
LatchAfterForgetsBlind(reading, active, trigger, release) ==
    /\ reading.kind # "absent"
    /\ IF reading.kind = "fresh"
       THEN evaluate(active, reading.t, trigger, release)
       ELSE active

(* The latch after any reading: only a fresh one may move it. *)
LatchAfter(reading, active, trigger, release) ==
    IF reading.kind = "fresh"
    THEN evaluate(active, reading.t, trigger, release)
    ELSE active

(* SafetyDecision *)
NORMAL             == [state |-> "normal", forced |-> NoForce]
EMERGENCY          == [state |-> "emergency", forced |-> Full]
NO_SENSOR_FALLBACK == [state |-> "no_sensor_fallback", forced |-> NoSensorPct]

(* Cycles without a FRESH CPU reading, this one included. *)
BlindAfter(reading, b) ==
    IF reading.kind = "fresh" THEN 0
    ELSE IF b < NoSensorThreshold THEN b + 1 ELSE b

(* Mutants of CpuDecision: the floor is tested before the latch; the floor *)
(* is forced over a hot stale reading too.                                 *)
CpuDecisionFloorFirst(reading, latched, blindCycles) ==
    IF blindCycles >= NoSensorThreshold THEN NO_SENSOR_FALLBACK
    ELSE IF latched THEN EMERGENCY ELSE NORMAL
CpuDecisionFloorOverHot(reading, latched, blindCycles) ==
    IF latched THEN EMERGENCY
    ELSE IF blindCycles >= NoSensorThreshold THEN NO_SENSOR_FALLBACK
    ELSE NORMAL

(* evaluate_safety_tick: the CPU table, `latched` being the rule AFTER a   *)
(* fresh reading moved it and BEFORE anything else, which is the same for  *)
(* a stale or absent one.                                                  *)
CpuDecision(reading, latched, blindCycles) ==
    IF latched THEN EMERGENCY
    ELSE IF reading.kind = "fresh" THEN NORMAL
    ELSE IF reading.kind = "stale" /\ reading.t >= Release THEN NORMAL
    ELSE IF blindCycles >= NoSensorThreshold THEN NO_SENSOR_FALLBACK
    ELSE NORMAL

(* evaluate_coolant_tick: the same table without the blind floor. *)
CoolantDecision(latched) == IF latched THEN EMERGENCY ELSE NORMAL

(* combine: the larger forced duty, and emergency if either rule says so. *)
combine(cpu, coolant) ==
    [state  |-> IF "emergency" \in {cpu.state, coolant.state}
                THEN "emergency" ELSE cpu.state,
     forced |-> IF cpu.forced >= coolant.forced THEN cpu.forced ELSE coolant.forced,
     causes |-> (IF cpu.state = "emergency" THEN {"cpu"} ELSE {})
                \cup (IF coolant.state = "emergency" THEN {"coolant"} ELSE {})]

(* StateCache::set_coolant_limit_c clamps what the API or a reload sends. *)
clamp_coolant_limit_c(l) ==
    IF l < CoolantMin THEN CoolantMin ELSE IF l > CoolantMax THEN CoolantMax ELSE l

----------------------------------------------------------------------------
SafetyInit ==
    /\ cpuActive = FALSE
    /\ coolantActive = FALSE
    /\ blind = 0
    /\ coolantLimit = CoolantDefault
    /\ decision = combine(NORMAL, NORMAL)

(* The safety leg of one engine tick, on one snapshot of the sensors:      *)
(* `trigger` is effective_trigger_c of that snapshot.                      *)
SafetyTick(cpu, coolant, trigger) ==
    /\ cpuActive' = LatchAfter(cpu, cpuActive, trigger, Release)
    /\ coolantActive' = LatchAfter(coolant, coolantActive, coolantLimit,
                                   coolantLimit - CoolantMargin)
    /\ blind' = BlindAfter(cpu, blind)
    /\ decision' = combine(CpuDecision(cpu, cpuActive', blind'),
                           CoolantDecision(coolantActive'))
    /\ UNCHANGED coolantLimit

(* POST /config/coolant-limit and a SIGHUP reload: takes effect next tick. *)
SetCoolantLimit ==
    /\ \E l \in CoolantRequests : coolantLimit' = clamp_coolant_limit_c(l)
    /\ UNCHANGED <<cpuActive, coolantActive, blind, decision>>

SafetyTypeOK ==
    /\ cpuActive \in BOOLEAN
    /\ coolantActive \in BOOLEAN
    /\ blind \in 0..NoSensorThreshold
    /\ coolantLimit \in CoolantMin..CoolantMax
    /\ decision \in [state  : {"normal", "emergency", "no_sensor_fallback"},
                     forced : {NoForce, NoSensorPct, Full},
                     causes : SUBSET {"cpu", "coolant"}]
=============================================================================
