SPECIFICATION FairSpec
CONSTANTS
    MaxSize = 3
    Consumers = {"server", "emu"}
    Values <- OneClient
    NoValue = NoValue
    MaxPushes = 1
    KeepHistory = TRUE
    CallbackHooks = TRUE
    MaxTimings = 1
PROPERTY AnsweredEventually
