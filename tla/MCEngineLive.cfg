SPECIFICATION FairSpec
CONSTANTS
    chat = chat
    code = code
    c1 = c1
    c2 = c2
    c3 = c3
    d1 = d1
    None = None
    Models <- TwoModels
    Rank <- TwoRanks
    Priority <- TwoPriorities
    LoadCost <- TwoCosts
    AgeWeight = 1
    DepthWeight = 1
    SwitchWeight = 1
    MaxWait = 2
    MinResidency = 1
    Requests <- Three
    ModelOf <- ThreeModelOf
    Cancellable = {c1}
    Capacity = 1
    Retry = 1
    AgeCap = 2
    MaxFaults = 2
PROPERTIES
    OverdueGetsTheGpu
    LoopNeverHangs
    DepartedIsForgotten
    EveryRequestEnds
