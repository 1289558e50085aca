SPECIFICATION FairSpec
CONSTANTS
    LeaseIds = {1, 2, 3, 4}
    ModeHeaders = {}
    NoModeHeaders = {"n1"}
    Driver <- Plain
    SharedReport = {}
    Stores <- Exact
    Tolerance = 2
    Attempts = 1
    ExitFloor = 30
    Diags = {"d1"}
    Callers <- AllCallers
    Commands <- TwentyOrNothing
    FoundModes = {"auto"}
    FoundDuty = {70}
    SafePct = 40
    Env = {"stop", "chip", "profile", "abandon"}
    EnvBudget = 3
INVARIANTS
    FloorSurvives
PROPERTIES
    NoModeLetGo
