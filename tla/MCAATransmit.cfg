CONSTANTS
    NSECS_PER_SEC = 2
    Tick <- HalfSeconds
    Interval = {0, 1, 2}
    Hold = {1, 2}
    Port = {1, 2}
    Followed = {2}
    Node = {x1, x2, x3}
    NULL = NULL
    ClockWrap = 1
SPECIFICATION FairSpec
INVARIANTS
    TypeOK
    SumIsElapsed
    NeighboursKeepUs
PROPERTIES
    WalkReachesAll
    AdvertisedForever
