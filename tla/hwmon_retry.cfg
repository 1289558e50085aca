SPECIFICATION Spec
CONSTANTS
    LeaseIds = {1, 2, 3, 4}
    ModeHeaders = {"m1"}
    NoModeHeaders = {}
    Driver <- Plain
    SharedReport = {}
    Stores <- Exact
    Tolerance = 2
    Attempts = 1
    ExitFloor = 30
    Diags = {}
    Callers <- AllCallers
    Commands <- Forty
    FoundModes = {"auto"}
    FoundDuty = {70}
    SafePct = 40
    Env = {"stop", "profile"}
    EnvBudget = 1
INVARIANTS FailedStaysRecorded
