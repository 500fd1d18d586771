SPECIFICATION FairSpec
CONSTANTS
    MaxSize = 3
    Consumers = {"server", "emu"}
    Values <- OneClient
    NoValue = NoValue
    MaxPushes = 2
    KeepHistory = TRUE
    CallbackHooks = TRUE
    MaxTimings = 1
INVARIANT PoppedAccounted
PROPERTIES NoUseAfterFree EmulatorResumes
