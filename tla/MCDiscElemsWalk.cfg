CONSTANTS
    Key <- Interfaces
    Node = {x1, x2, x3}
    NULL = NULL
    MaxCount = 3
    MaxPort = 2
    NextIsStrict = FALSE
SPECIFICATION Spec
INVARIANTS
    WalkAdvances
