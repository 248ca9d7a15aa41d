CONSTANTS
    Clients = {c1, c2}
    Workers = {w1, w2}
    Schedules = {1}
    Definitions <- Plans
    Quantities = {1}
    BatchSize = 1
    MaxDay = 1
    MaxEvents = 3
SPECIFICATION FairSpec
INVARIANTS TypeOK NeverOversold BoughtOnce NoDateLost
PROPERTIES DueIsBought
