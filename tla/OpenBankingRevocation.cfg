CONSTANTS
    Auths = {a1, a2}
    Callbacks = {h1, h2}
    Clients = {c1}
    MaxRequests = 1
    MaxFaults = 0
SPECIFICATION Spec
INVARIANTS RevokedFirst
SYMMETRY Exchangeable
CHECK_DEADLOCK FALSE
