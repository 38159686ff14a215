SPECIFICATION FairSpec
CONSTANTS
    j1 = j1
    j2 = j2
    j3 = j3
    key = key
    NoKey = NoKey
    Ids <- Two
    KeyOf <- NoKeys
    Obedient = {j1}
    MaxJobs = 2
    Lease = 2
    ReadTtl = 1
    ResultTtl = 2
    SweepInterval = 1
    LongestAdvice = 3
    AgeCap = 4
    MaxChunks <- Silence
    MaxContained = 1
INVARIANTS
    AbandonedIsCancelled
    ObedientIsServed
PROPERTIES
    FinishedIsFinal
    FinishedExpires
