CONSTANTS
    Port = {1, 2}
    SysId = {"s1", "s2"}
    MgmtVlan = {10, 4117}
    MaxHardware = 3
    Orderly = FALSE
SPECIFICATION Spec
INVARIANTS
    EnabledIsEnabled
