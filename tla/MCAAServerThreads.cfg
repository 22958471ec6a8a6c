CONSTANTS
    W = 5
    Binding = {1, 2, 3}
    PortOf <- MCPortOf
    ActualIfc = {"actual"}
    VirtualIfc = {"virtual"}
    Service = {"s", "t"}
    ServiceOf <- MCServiceOf
    Trunk <- MCTrunk
    MaxRemote = 2
    Expiration = 3
    ImmediateDel = 2
SPECIFICATION RemovalsFairSpec
INVARIANTS
    RemovalsTypeOK
    LoopsReadCopies
    OneSecondDrift
PROPERTIES
    SyncLeavesNoMirror
    OwnBindingSurvives
    UndisturbedRunExact
    MaintenanceEnds
