SPECIFICATION FairSpec
CONSTANTS
    Scripts <- MCScripts
    MaxReceived = 5
    ConstructorFirst = TRUE
INVARIANTS
    TypeOK
    GracefulExit
    HandledInOrder
    AcceptedMeansServed
    NoLostWakeup
    JoinedIsAwake
PROPERTIES
    ReceivedIsHandled
    ShutdownCompletes
CHECK_DEADLOCK FALSE
