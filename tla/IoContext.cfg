SPECIFICATION FairSpec
CONSTANTS
    Acceptor = acceptor
    Sockets = {s1}
    MaxUnits <- Units
INVARIANTS TypeOK WorkAccounted RunsUntilStopped NotOverslept DequeuedBeforePoll EventsNoticed
PROPERTIES ReadyOpCompletes StopReturns
