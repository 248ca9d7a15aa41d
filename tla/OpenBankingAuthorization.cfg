CONSTANTS
    Auths = {a1, a2}
    Callbacks = {h1, h2}
    Clients = {c1, c2}
    MaxRequests = 2
    MaxFaults = 1
SPECIFICATION FairSpec
INVARIANTS TypeOK ExchangedOnce StatusTrue NoForgottenSession
PROPERTIES EventuallyOver
CHECK_DEADLOCK FALSE
