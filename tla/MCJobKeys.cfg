SPECIFICATION Spec
CONSTANTS
    j1 = j1
    j2 = j2
    j3 = j3
    key = key
    NoKey = NoKey
    Ids <- Three
    KeyOf <- SharedKey
    Obedient = {}
    MaxJobs = 1
    Lease = 2
    ReadTtl = 1
    ResultTtl = 1
    SweepInterval = 1
    LongestAdvice = 1
    AgeCap = 4
    MaxChunks <- FirstSpeaks
    MaxContained = 0
INVARIANTS
    StoreIsSound
    OneGenerationPerKey
PROPERTIES
    ImplementsJobService
