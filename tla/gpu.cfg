SPECIFICATION FairSpec
CONSTANTS
    Fans = {g1}
    Duties <- MCDuties
    Env <- MCWorld
    EnvBudget = 3
INVARIANTS
    CurveIsListed
    StoppedIsAuto
    ResetIsDurable
    TestHolds
PROPERTIES
    CardSettles
    StallVerdictIsRight
CHECK_DEADLOCK FALSE
