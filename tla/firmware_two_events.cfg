SPECIFICATION Spec
CONSTANTS
    RunIds <- TwoRuns
    Channels <- OneChannel
    Kinds = {"connected", "silent"}
    Sectors = 2
    MaxReturns = 2
    MaxEvents = 2
INVARIANTS
    TypeOK
    ParkedIsKept
    CancelStops
    ExactIsExact
    NoProbeWhileRunHolds
PROPERTIES
    KeepsCustody
    LoanNotWasted
CHECK_DEADLOCK FALSE
