SPECIFICATION Spec
CONSTANTS
    MaxSize = 3
    Consumers = {"server", "emu"}
    Values <- OneClient
    NoValue = NoValue
    MaxPushes = 2
    KeepHistory = TRUE
    CallbackHooks = FALSE
    MaxTimings = 1
INVARIANT OnceMeansOnce
