CONSTANTS
    p1 = p1
    p2 = p2
    b1 = b1
    b2 = b2
    b3 = b3
    n1 = n1
    n2 = n2
    W = 11
    Port = {p1, p2}
    Binding = {b1, b2, b3}
    PortOf <- MCPortOf
    Neighbour = {n1, n2}
    IfcOf <- OneEach
    MaxRemote = 2
    DefaultExpiration = 5
    ImmediateDel = 2
    Expirations = {5}
    Requested = {"PENDING"}
    TickSteps = {1}
SPECIFICATION SystemSpec
PROPERTIES
    DeletedFromLldpToo
