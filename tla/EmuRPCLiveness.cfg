SPECIFICATION FairSpec
CONSTANTS
    MaxSize = 3
    Consumers = {"server"}
    Values <- SomeTooLong
    NoValue = NoValue
    MaxPushes = 1
    KeepHistory = FALSE
    CallbackHooks = TRUE
    MaxTimings = 1
INVARIANT RingInv
PROPERTIES ImplementsBoundedQueue RequestTaken ShutdownWhenQuiet DrainsWhenQuiet
