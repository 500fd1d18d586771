SPECIFICATION FairSpec
CONSTANTS
    MaxSize = 3
    Consumers = {"server"}
    Values <- TwoClients
    NoValue = NoValue
    MaxPushes = 3
    KeepHistory = TRUE
    CallbackHooks = TRUE
    MaxTimings = 0
INVARIANTS TypeOK ServedInOrder Accounted FlowControl
PROPERTIES SettledEventually ImplementsDispatcher
