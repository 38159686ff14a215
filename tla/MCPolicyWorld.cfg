SPECIFICATION Spec
CONSTANTS
    chat = chat
    code = code
    embed = embed
    None = None
    Models <- ThreeModels
    Rank <- ThreeRanks
    Priority <- ThreePriorities
    LoadCost <- ThreeCosts
    AgeWeight = 1
    DepthWeight = 1
    SwitchWeight = 1
    MaxWait = 2
    MinResidency = 1
    MaxDepth = 2
    MaxAge = 3
    MaxBackoff = 1
    MaxLoad = 1
    Slots = 2
    Mean <- ThreeMeans
    MinRetryAfter = 1
    MaxRetryAfter = 5
INVARIANTS
    CeilingOutranksAll
    DecisionIsSound
    PatienceIsNeverPunished
PROPERTIES
    NoBounce
    EstimateCountsDown
