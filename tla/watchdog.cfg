SPECIFICATION FairSpec
CONSTANTS
    Configured = 2
    Wide = 4
    Freeze = 3
    ResetAfter = 2
    Env <- MCWorld
    EnvBudget = 5
INVARIANTS
    NotKilled
    DisarmLasts
PROPERTIES
    LostIsSentAgain
CHECK_DEADLOCK FALSE
