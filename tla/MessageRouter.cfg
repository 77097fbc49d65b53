SPECIFICATION FairSpec
CONSTANTS
    Clients = {c1, c2, c3}
    Messages <- MCMessages
    FilterLists <- MCFilterLists
    Nobody = Nobody
    NULL = NULL
INVARIANTS
    TypeOK
    NoDanglingCallback
PROPERTIES
    MapStableWhileLooping
    ReturnsIfCallbacksDo
    ImplementsMulticast
