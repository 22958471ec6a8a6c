CONSTANTS
    NSECS_PER_SEC = 2
    Tick <- HalfSeconds
    Interval = {1, 2}
    Hold = {2}
    Port = {1, 2, 3}
    Followed = {}
    Node = {x1, x2, x3}
    NULL = NULL
    ClockWrap = 1
SPECIFICATION Spec
PROPERTIES
    NoPortLeftOut
