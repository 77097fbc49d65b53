SPECIFICATION Spec
CONSTANTS
    Scripts <- MCShortScripts
    MaxReceived = 5
    ConstructorFirst = FALSE
INVARIANT
    GracefulExit
CHECK_DEADLOCK FALSE
