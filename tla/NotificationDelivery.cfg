CONSTANTS
    Workers = {w1, w2}
    Users = {u1}
    Devices = {d1, d2}
    Notifications = {n1}
    u1 = u1
    u2 = u2
    n1 = n1
    n2 = n2
    Owner <- OneEach
    NoUser = NoUser
    Batch = 2
    MaxAttempts = 2
    LockTTL = 1
    TTL = 3
    RunTime = 1
    MaxTime = 6
    MaxRequests = 1
    MaxFaults = 1
SPECIFICATION FairSpec
INVARIANTS TypeOK HeldByOne TwiceOnlyIfUnrecorded SentIsTrue
PROPERTIES SettledStays EveryNotificationSettles
