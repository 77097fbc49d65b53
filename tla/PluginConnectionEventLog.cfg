SPECIFICATION Spec
CONSTANTS
    Scripts <- MCEventLogScripts
    MaxReceived = 5
    ConstructorFirst = TRUE
INVARIANT
    SlowOrderDoesNotMatter
CHECK_DEADLOCK FALSE
