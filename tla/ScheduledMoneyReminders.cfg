CONSTANTS
    Workers = {w1}
    Clients = {c1}
    Schedules = {s1, s2}
    Horizon = 1
    PostLimit = 2
    RemindLimit = 1
    MaxDay = 2
    MaxRequests = 3
    MaxFaults = 0
    Definitions <- ByHandDefs
    NoDef = NoDef
SPECIFICATION FairSpec
PROPERTIES DueIsReminded
