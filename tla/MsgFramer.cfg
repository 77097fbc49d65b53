CONSTANTS
    BufSize = 7
    STX = STX
    ETX = ETX
    NUL = NUL
    Data <- MCData
    Streams <- MCStreams
    Lengths = {1, 5, 6, 13}
    MaxMessages = 3
SPECIFICATION Spec
INVARIANTS
    TypeOK
    RoomToRead
    Terminated
    DeliveredExactly
    Genuine
CHECK_DEADLOCK FALSE
