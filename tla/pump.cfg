SPECIFICATION FairSpec
CONSTANTS
    Headers = {p1}
    Detect = 3
    Kick = 3
    Curve <- MCCurve
    Env <- MCWorld
    EnvBudget = 8
PROPERTIES
    StallIsSeen
    ResponseLasts
    ResponseFollowsPump
