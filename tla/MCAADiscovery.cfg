CONSTANTS
    Port = {1, 2}
    SysId = {"s"}
    MaxHardware = 1
    Orderly = TRUE
    Neighbour <- Neighbours
    MgmtVlan = {}
SPECIFICATION DiscoveryFairSpec
INVARIANTS
    DiscoveryTypeOK
    NoNeighbourMissed
PROPERTIES
    NeighbourBecomesKnown
