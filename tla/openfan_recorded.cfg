SPECIFICATION Spec
CONSTANTS
    NUM_CHANNELS = 1
    ExitFloor = 0
    PowerOn = 10
    Profiles <- MCProfiles
    Persisted <- MCPersisted
    Skippable = {}
    NoSensorPct = 40
    TestDuties <- MCTestDuties
    MaxEvents = 3
INVARIANT NoTestDutyRecorded
CHECK_DEADLOCK FALSE
