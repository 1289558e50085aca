SPECIFICATION FairSpec
CONSTANTS
    RunIds <- TwoRuns
    Channels <- OneChannel
    Kinds = {"connected", "silent"}
    Sectors = 2
    MaxReturns = 2
    MaxEvents = 1
INVARIANTS
    ParkedIsKept
    CancelStops
    ExactIsExact
PROPERTIES
    KeepsCustody
    LoanNotWasted
    RunEnds
CHECK_DEADLOCK FALSE
