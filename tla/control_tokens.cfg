SPECIFICATION Spec
CONSTANTS
    Docs <- StoreDocs
    Ids <- StoreIds
    IdOf <- StoreIdOf
    Presets <- OnePreset
    NoDoc = "nodoc"
    NoId = "noid"
    Controls <- TheControls
    Fans <- Nobody
    ControlsOf <- TheControlsOf
    PumpsOf <- NoPumps
    MembersOf <- NoMembers
    OpenFans <- Nobody
    InferredPumps <- Nobody
    RunIds <- Nobody
    Clients = {k1, k2}
    MaxStored = 1
    MaxActivations = 3
    MaxTakes = 2
    MaxBoots = 2

    
    
PROPERTIES
    Fenced
SYMMETRY EitherClient
