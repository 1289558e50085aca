SPECIFICATION Spec
CONSTANTS
    LeaseIds = {1, 2, 3, 4}
    ModeHeaders = {}
    NoModeHeaders = {"s1", "s2"}
    Driver <- Plain
    SharedReport = {"s1", "s2"}
    Stores <- Exact
    Tolerance = 2
    Attempts = 1
    ExitFloor = 30
    Diags = {}
    Callers <- AllCallers
    Commands <- ZeroOrForty
    FoundModes = {"auto"}
    FoundDuty = {0}
    SafePct = 40
    Env = {"resume", "chip", "stop"}
    EnvBudget = 2
PROPERTIES PrimedWithWrite
