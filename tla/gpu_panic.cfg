SPECIFICATION Spec
CONSTANTS
    Fans = {g1}
    Duties <- MCDuties
    Env <- MCPanics
    EnvBudget = 2
PROPERTY
    PanicIsOldBatch
CHECK_DEADLOCK FALSE
