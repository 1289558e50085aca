SPECIFICATION Spec
CONSTANTS
    Docs <- TwoProfiles
    Ids <- TwoProfiles
    IdOf <- ProfileIds
    Presets <- TwoProfiles
    NoDoc = "nodoc"
    NoId = "noid"
    Controls <- TheControls
    Fans <- TheFans
    ControlsOf <- TheControlsOf
    PumpsOf <- ThePumpsOf
    MembersOf <- TheMembersOf
    OpenFans <- TheOpenFans
    InferredPumps <- Nobody
    RunIds <- Runs
    Clients = {k1, k2}
    MaxStored = 1
    MaxActivations = 2
    MaxTakes = 2
    MaxBoots = 1
PROPERTIES
    Reanchors
SYMMETRY EitherClient
