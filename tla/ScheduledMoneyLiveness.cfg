CONSTANTS
    Workers = {w1}
    Clients = {c1}
    Schedules = {s1, s2}
    Horizon = 1
    PostLimit = 1
    RemindLimit = 8
    MaxDay = 2
    MaxRequests = 3
    MaxFaults = 1
    Definitions <- LiveDefs
    NoDef = NoDef
SPECIFICATION FairSpec
PROPERTIES DueIsPosted DueIsReminded HorizonKept
