SPECIFICATION Spec
CONSTANTS
    NUM_CHANNELS = 2
    ExitFloor = 30
    PowerOn = 10
    Profiles <- MCProfiles
    Persisted <- MCPersisted
    Skippable = {1}
    NoSensorPct = 40
    TestDuties <- MCTestDuties
    MaxEvents = 3
INVARIANTS
    BooksAreTrue
PROPERTIES
    ExitFloorHolds
    CommandsReach
    HeldPutBack
    TakenIsGivenBack
CHECK_DEADLOCK FALSE
