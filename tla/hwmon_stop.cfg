SPECIFICATION Spec
CONSTANTS
    LeaseIds = {1, 2, 3, 4}
    ModeHeaders = {"m1"}
    NoModeHeaders = {}
    Driver <- Plain
    SharedReport = {}
    Stores <- Exact
    Tolerance = 2
    Attempts = 1
    ExitFloor = 30
    Diags = {}
    Callers <- AllCallers
    Commands <- Forty
    FoundModes = {"auto", "manual", "full"}
    FoundDuty = {70}
    SafePct = 40
    Env = {"stop", "panic", "crash", "restart", "reclaim", "chip", "disk", "profile", "expire"}
    EnvBudget = 3
INVARIANTS
    WriteAhead
    GivenBackAtStop
    LeftAsFound
