------------------------------ MODULE SensorFeed ------------------------------
(***************************************************************************)
(* The hwmon poll loop (polling.rs, `hwmon_poll_loop`) with its            *)
(* SensorFailureTracker (health/sensor_failure.rs), the CPU plausibility   *)
(* filter (hwmon/plausibility.rs) and the sensor half of the StateCache    *)
(* (health/cache.rs).                                                      *)
(*                                                                         *)
(* The blocking read is single-flight: it is spawned, and harvested when   *)
(* it returns, any time later; a read that outlives the freshness budget   *)
(* is kept and awaited again, so it is simply one that has not been        *)
(* harvested yet.  Ages count time units and saturate at AgeCap.           *)
(***************************************************************************)
EXTENDS Integers, FiniteSets

CONSTANTS
    CpuSensors, CoolantSensors, BoardSensors, \* sensor ids by SensorKind
    Values,           \* Values[s]: the temperatures sensor s can report
    FailThreshold,    \* constants::SENSOR_READ_FAIL_REDISCOVER_STREAK
    PollInterval,     \* the configured poll interval, in time units
    StaleIntervals,   \* CPU_TEMP_STALE_INTERVALS
    StaleCeiling,     \* CPU_TEMP_STALE_CEILING_MS
    BelowBoardMargin, \* CPU_BELOW_MB_MARGIN_C
    CpuAbsoluteMin    \* CPU_ABSOLUTE_MIN_C

Sensors == CpuSensors \cup CoolantSensors \cup BoardSensors

ASSUME FeedAssumption ==
    /\ \A s \in Sensors : Values[s] \subseteq Int
    /\ CpuSensors \cap (CoolantSensors \cup BoardSensors) = {}
    /\ CoolantSensors \cap BoardSensors = {}
    /\ {FailThreshold, PollInterval, StaleIntervals, StaleCeiling} \subseteq Nat \ {0}
    /\ {BelowBoardMargin, CpuAbsoluteMin} \subseteq Nat

(* StateCache::cpu_temp_stale_after; one time unit is the default interval. *)
cpu_temp_stale_after ==
    LET budget == PollInterval * StaleIntervals
        capped == IF budget < StaleCeiling THEN budget ELSE StaleCeiling
    IN  IF capped < PollInterval THEN PollInterval ELSE capped

AgeCap == cpu_temp_stale_after + 1
Older(a) == IF a < AgeCap THEN a + 1 ELSE a

VARIABLES
    hw,          \* environment: how each sensor answers sysfs
    descriptors, \* the cached descriptor set
    protected,   \* ids of chips the last discovery could not read
    discovered,  \* discovered_once
    rescan,      \* the flag POST /hwmon/rescan sets
    read,        \* the read in flight (`pending`)
    streak,      \* SensorFailureTracker::streak
    quarantined, \* SensorFailureTracker::quarantined, and the cache's copy
    cached,      \* ids with a reading in StateCache::sensors
    reading      \* that reading: its value and the age of its `updated_at`

feedVars == <<hw, descriptors, protected, discovered, rescan, read,
              streak, quarantined, cached, reading>>

NoRead == [active |-> FALSE, discovery |-> FALSE, age |-> 0]

(* "ok", an attribute that does not read, a chip whose own metadata does   *)
(* not read, and a chip that is not there.                                 *)
HwStates == {"ok", "unreadable", "chip_unreadable", "gone"}

----------------------------------------------------------------------------
(* hwmon/plausibility.rs *)

is_implausibly_low_cpu(cpu, board) ==
    /\ cpu < board - BelowBoardMargin
    /\ cpu < CpuAbsoluteMin

(* The CPU sensors of one pass that are absurd beside the hottest board    *)
(* sensor read in the same pass; with no board reading, none.              *)
implausibly_low_cpu_readings(ok, val) ==
    {s \in ok \cap CpuSensors :
        \E b \in ok \cap BoardSensors :
            /\ \A c \in ok \cap BoardSensors : val[c] <= val[b]
            /\ is_implausibly_low_cpu(val[s], val[b])}

----------------------------------------------------------------------------
(* SensorFailureTracker *)

(* Mutant of wants_rediscovery: one failing tick too late. *)
wants_rediscovery_late ==
    \E s \in Sensors : streak[s] > FailThreshold /\ s \notin quarantined

wants_rediscovery ==
    \E s \in Sensors : streak[s] >= FailThreshold /\ s \notin quarantined

(* record_tick against the descriptor set `present`: the streaks and the   *)
(* quarantine after it.  A quarantined sensor's streak no longer grows.    *)
StreakAfter(present, failing, s) ==
    IF s \notin present \/ s \notin failing THEN 0
    ELSE IF s \in quarantined THEN streak[s]
    ELSE streak[s] + 1

QuarantinedAfter(present, failing) ==
    {s \in present \cap failing :
        s \in quarantined \/ streak[s] + 1 > FailThreshold}

----------------------------------------------------------------------------
FeedInit ==
    /\ hw \in [Sensors -> HwStates]
    /\ descriptors = {} /\ protected = {} /\ discovered = FALSE
    /\ rescan = FALSE
    /\ read = NoRead
    /\ streak = [s \in Sensors |-> 0]
    /\ quarantined = {}
    /\ cached = {}
    /\ reading = [s \in Sensors |-> [v |-> 0, age |-> 0]]

(* A poll tick with no read in flight: decide on discovery, start one. *)
PollSpawn ==
    /\ ~read.active
    /\ read' = [active |-> TRUE, age |-> 0,
                discovery |-> \/ ~discovered
                              \/ rescan
                              \/ wants_rediscovery
                              \/ descriptors \cap CpuSensors = {}]
    /\ rescan' = FALSE
    /\ UNCHANGED <<hw, descriptors, protected, discovered, streak,
                   quarantined, cached, reading>>

(* The descriptor set and the protected ids a successful read leaves. *)
DescriptorsAfter ==
    IF read.discovery THEN {s \in Sensors : hw[s] \in {"ok", "unreadable"}}
    ELSE descriptors
ProtectedAfter ==
    IF read.discovery THEN {s \in descriptors : hw[s] = "chip_unreadable"}
    ELSE protected

(* Which of the descriptors' value files may read: a chip whose metadata   *)
(* fails may still answer for its values, or not.                          *)
ReadsOf(present) ==
    {r \in SUBSET {s \in present : hw[s] \in {"ok", "chip_unreadable"}} :
        \A s \in present : hw[s] = "ok" => s \in r}

ValuesOf(ok) ==
    {f \in [ok -> UNION {Values[s] : s \in ok}] : \A s \in ok : f[s] \in Values[s]}

(* The tracker and the cache after a read that got `fresh` out of the      *)
(* descriptors `present`: record_tick, update_sensors,                     *)
(* update_unavailable_sensors and retain_sensors.  `to_cached` stamps each *)
(* reading with the moment it is PROCESSED, however long ago it was taken. *)
ApplyRead(present, fresh, val) ==
    /\ streak' = [s \in Sensors |-> StreakAfter(present, present \ fresh, s)]
    /\ quarantined' = QuarantinedAfter(present, present \ fresh)
    /\ cached' = ((cached \cup fresh) \ quarantined') \cap (present \cup protected')
    /\ reading' = [s \in Sensors |->
          IF s \in fresh THEN [v |-> val[s], age |-> 0]
          ELSE IF s \in cached' THEN reading[s]
          ELSE [v |-> 0, age |-> 0]]

(* The read returned: adopt its descriptors, drop absurd CPU readings. *)
PollHarvest ==
    /\ read.active
    /\ descriptors' = DescriptorsAfter
    /\ protected' = ProtectedAfter
    /\ discovered' = (discovered \/ read.discovery)
    /\ \E ok \in ReadsOf(DescriptorsAfter) :
       \E val \in ValuesOf(ok) :
          ApplyRead(DescriptorsAfter, ok \ implausibly_low_cpu_readings(ok, val), val)
    /\ read' = NoRead
    /\ UNCHANGED <<hw, rescan>>

(* Discovery itself failed, or the read task panicked: nothing is applied. *)
PollError ==
    /\ read.active
    /\ read' = NoRead
    /\ UNCHANGED <<hw, descriptors, protected, discovered, rescan, streak,
                   quarantined, cached, reading>>

(* POST /hwmon/rescan *)
RequestRescan ==
    /\ ~rescan
    /\ rescan' = TRUE
    /\ UNCHANGED <<hw, descriptors, protected, discovered, read, streak,
                   quarantined, cached, reading>>

(* A chip or an attribute changes how it answers. *)
HwChange ==
    /\ \E s \in Sensors, h \in HwStates : hw' = [hw EXCEPT ![s] = h]
    /\ UNCHANGED <<descriptors, protected, discovered, rescan, read, streak,
                   quarantined, cached, reading>>

(* One time unit passes. *)
TimePasses ==
    /\ reading' = [s \in Sensors |->
         IF s \in cached
         THEN [reading[s] EXCEPT !.age = Older(@)]
         ELSE reading[s]]
    /\ read' = IF read.active THEN [read EXCEPT !.age = Older(@)] ELSE read
    /\ UNCHANGED <<hw, descriptors, protected, discovered, rescan, streak,
                   quarantined, cached>>

FeedTypeOK ==
    /\ hw \in [Sensors -> HwStates]
    /\ descriptors \subseteq Sensors /\ protected \subseteq Sensors
    /\ discovered \in BOOLEAN /\ rescan \in BOOLEAN
    /\ read \in [active : BOOLEAN, discovery : BOOLEAN, age : 0..AgeCap]
    /\ streak \in [Sensors -> 0..(FailThreshold + 1)]
    /\ quarantined \subseteq Sensors /\ cached \subseteq Sensors
    /\ reading \in [Sensors -> [v : Int, age : 0..AgeCap]]
=============================================================================
