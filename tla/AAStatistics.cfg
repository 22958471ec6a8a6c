CONSTANTS
    Port = {1, 2}
    SysId = {"s1", "s2"}
    MgmtVlan = {10, 4117}
    CounterWrap = 2
    MaxHardware = 3
    Orderly = TRUE
SPECIFICATION StatsSpec
INVARIANTS
    StatsTypeOK
    GlobalIsSum
    ViewsAgree
    AnswerIsTrue
    AnnouncedIsConfigured
