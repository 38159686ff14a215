SPECIFICATION FairSpec
CONSTANTS
    a = a
    b = b
    j1 = j1
    j2 = j2
    j3 = j3
    j4 = j4
    key = key
    chat = chat
    code = code
    sir = sir
    vllm = vllm
    NoKey = NoKey
    NoJob = NoJob
    NoHost = NoHost
    Ids = {j1, j2, j3, j4}
    KeyOf <- KeyOfEach
    Callers = {a, b}
    KeyGiven <- KeyOfRun
    Resubmits = {a, b}
    Timed = {a}
    Defaulted = {a}
    Tags = {chat, code}
    Hosts = {sir, vllm}
    Serves <- Listed
    Router = sir
    Default = NoHost
    MaxAttempts = 2
    MaxRestarts = 1
INVARIANTS
    NothingIsReplayedUnasked
    GivenUpIsCancelled
    RunsAreSound
PROPERTIES
    RunsEnd
