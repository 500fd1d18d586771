SPECIFICATION FairSpec
CONSTANTS
    MaxConnections = 3
    IdModulus = 2
    Slots = 2
    Kinds <- FirstAnything
    Window = 2
    MaxMessages <- Fewer
    NoSession = NoSession
INVARIANTS TypeOK Routed Intact UndefinedHasCause AnsweredInOrder
PROPERTY ReadEventually
CHECK_DEADLOCK FALSE
