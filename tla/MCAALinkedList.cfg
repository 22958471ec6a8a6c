CONSTANTS
    Key <- Keys
    Node = {x1, x2, x3, x4, x5}
    NULL = NULL
    MaxCount = 4
    MaxPort = 2
    NextIsStrict = TRUE
SYMMETRY NodeSymmetry
SPECIFICATION Spec
INVARIANTS
    TypeOK
    NoLeakNoDangling
    LinksMatch
    QueriesAgree
    WalkAdvances
PROPERTIES
    ImplementsSet
    WalkIsComplete
