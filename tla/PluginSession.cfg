SPECIFICATION FairSpec
CONSTANTS
    Keys = {k1}
    v0 = v0
    v1 = v1
    Values = {v0, v1}
    Default <- MCDefault
    Filters = {f1, f2}
    NoFilter = NoFilter
    Freed = Freed
    NoRow = NoRow
    None = None
    MaxConns = 2
    MaxInputs = 2
INVARIANTS
    TypeOK
    RegisteredMeansServedIfCalm
    ToldIfCalm
PROPERTIES
    AnsweredIfUsable
    ValuesCatchUp
    ConfigArrivesIfCalm
    SubscriptionFollows
CHECK_DEADLOCK FALSE
