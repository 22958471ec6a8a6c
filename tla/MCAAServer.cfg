CONSTANTS
    p1 = p1
    p2 = p2
    b1 = b1
    b2 = b2
    b3 = b3
    W = 6
    Port = {p1, p2}
    Binding = {b1, b2, b3}
    PortOf <- MCPortOf
    MaxRemote = 2
    DefaultExpiration = 3
    ImmediateDel = 2
    Expirations = {0, 3, 5}
    Requested = {"PENDING", "ACTIVE", "APP_INTERACTION"}
    TickSteps = {1}
SPECIFICATION FairSpec
INVARIANTS
    TypeOK
    CapacityRespected
    NoFutureEntry
PROPERTIES
    TickLeavesNoExpired
    AdvertisedIsKept
    OneInterfaceAtATime
    ActiveUntilDeleted
    ImplementsLease
    SilentEntriesLeave
