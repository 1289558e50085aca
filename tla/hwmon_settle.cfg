SPECIFICATION FairSpec
CONSTANTS
    LeaseIds = {1, 2, 3, 4}
    ModeHeaders = {"m1"}
    NoModeHeaders = {}
    Driver <- Plain
    SharedReport = {}
    Stores <- Coarse
    Tolerance = 2
    Attempts = 1
    ExitFloor = 30
    Diags = {"d1"}
    Callers <- AllCallers
    Commands <- Forty
    FoundModes = {"auto"}
    FoundDuty = {10}
    SafePct = 40
    Env = {"force", "reclaim", "meddle", "resume", "chip"}
    EnvBudget = 3
PROPERTIES
    SettlesOrIsReported
    ForceHolds
