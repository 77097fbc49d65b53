SPECIFICATION Spec
CONSTANTS
    Plugins = {p1, p2, p3}
    Names = {n1, n2}
    NoName = NoName
SYMMETRY Symmetry
INVARIANTS
    TypeOK
    HeldByOne
    GoneMeansStopped
    GoneMeansNoItems
