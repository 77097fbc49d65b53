SPECIFICATION Spec
CONSTANTS
    Plugins = {p1, p2}
    Names = {n1}
    NoName = NoName
SYMMETRY Symmetry
INVARIANT
    OneRegisteredPerName
