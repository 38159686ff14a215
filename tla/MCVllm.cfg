SPECIFICATION FairSpec
CONSTANTS
    chat = chat
    code = code
    shared = shared
    None = None
    Models = {chat, code, shared}
    Owned = {chat, code}
    StartTimeout = 2
    StopTimeout = 1
    ReadyPoll = 1
    HealthTime = 2
INVARIANTS
    GpuFollowsTheEngine
    EndIsComplete
PROPERTIES
    StartedServes
    CallsReturnInTime
