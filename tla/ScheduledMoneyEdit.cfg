CONSTANTS
    Workers = {w1, w2}
    Clients = {c1}
    Schedules = {s1}
    Horizon = 1
    PostLimit = 2
    RemindLimit = 2
    MaxDay = 2
    MaxRequests = 3
    MaxFaults = 1
    Definitions <- EditDefs
    NoDef = NoDef
SYMMETRY Replicas
SPECIFICATION Spec
INVARIANTS NoDateLostByEdit
