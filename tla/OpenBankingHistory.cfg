CONSTANTS
    Workers = {w1, w2}
    Clients = {c1}
    Accounts = {a1}
    Items = {old, new}
    Old = {old}
    Overlap = 1
    History = 3
    Batch = 1
    Interval = 3
    ClaimTTL = 2
    RunTime = 1
    ImportTime = 1
    MaxVersion = 2
    MaxRequests = 1
    MaxFaults = 0
SPECIFICATION Spec
INVARIANTS HistoryIsSilent
SYMMETRY Replicas
