CONSTANTS
    Key <- Keys
    Node = {x1, x2, x3}
    NULL = NULL
    MaxCount = 2
    MaxPort = 2
    NextIsStrict = TRUE
SYMMETRY NodeSymmetry
SPECIFICATION Spec
INVARIANTS
    CountIsOfInterface
