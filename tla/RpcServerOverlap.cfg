SPECIFICATION Spec
CONSTANTS
    MaxConnections = 1
    IdModulus = 2
    Slots = 3
    Kinds <- OnlyRequests
    Window = 1
    MaxMessages <- TwoEach
    NoSession = NoSession
INVARIANT OneWriteAtATime
CHECK_DEADLOCK FALSE
