SPECIFICATION Spec
CONSTANTS
    LeaseIds = {1, 2, 3, 4, 5}
    ModeHeaders = {"m1"}
    NoModeHeaders = {}
    Driver <- Plain
    SharedReport = {}
    Stores <- Exact
    Tolerance = 2
    Attempts = 1
    ExitFloor = 30
    Diags = {"d1", "d2"}
    Callers <- AllCallers
    Commands <- Forty
    FoundModes = {"auto"}
    FoundDuty = {70}
    SafePct = 40
    Env = {"deadman", "expire", "force"}
    EnvBudget = 2
INVARIANTS
    DiagnosticsKeptApart
