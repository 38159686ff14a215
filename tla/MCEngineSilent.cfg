SPECIFICATION Spec
CONSTANTS
    chat = chat
    code = code
    c1 = c1
    c2 = c2
    c3 = c3
    d1 = d1
    None = None
    Models <- OneModel
    Rank <- OneRank
    Priority <- OnePriority
    LoadCost <- OneCost
    AgeWeight = 1
    DepthWeight = 1
    SwitchWeight = 1
    MaxWait = 2
    MinResidency = 1
    Requests <- TwoTogether
    ModelOf <- TwoTogetherModelOf
    Cancellable = {}
    Capacity = 2
    Retry = 1
    AgeCap = 2
    MaxFaults = 1
INVARIANTS
    EveryEndIsAnnounced
