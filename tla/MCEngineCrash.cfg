SPECIFICATION Spec
CONSTANTS
    chat = chat
    code = code
    c1 = c1
    c2 = c2
    c3 = c3
    d1 = d1
    None = None
    Models <- TwoModels
    Rank <- TwoRanks
    Priority <- TwoPriorities
    LoadCost <- TwoCosts
    AgeWeight = 1
    DepthWeight = 1
    SwitchWeight = 1
    MaxWait = 3
    MinResidency = 2
    Requests <- Three
    ModelOf <- ThreeModelOf
    Cancellable = {c1, c2, d1}
    Capacity = 2
    Retry = 1
    AgeCap = 3
    MaxFaults = 2
INVARIANTS
    OneModelOnGpu
    IncumbentIsSound
PROPERTIES
    ImplementsResidency
    WindowIsHonoured
    ImplementsRequestLife
