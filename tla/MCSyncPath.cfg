SPECIFICATION FairSpec
CONSTANTS
    m1 = m1
    r1 = r1
    r2 = r2
    Models = {m1}
    Requests = {r1, r2}
    ModelOf <- OneModel
    Streams = {r1}
    MaxChunks = 1
INVARIANTS
    AnswerIsComplete
    HandlersAreSound
PROPERTIES
    QueuesAreSound
    HandlersLetGo
