SPECIFICATION PartsSpec
CONSTANTS
    Replicas = {"r1", "r2"}
    Budgets = {1}
    Categories = {"food"}
    Amounts = {2}
    Thresholds = {50, 100}
    MaxSpent = 2
    MaxPeriod = 1
    MaxChanges = 3
    Calls = {"c1", "c2", "c3"}
    Keys = {"btc", "eth"}
    KeyOf <- AskedKey
    Interval = 2
    TTL = 1
    Timeout = 5
    QueueSize = 1
    Readers = {"q1", "q2"}
    Writers = {"w1"}
    Views = {"portfolio", "history"}
    AnswerTTL = 1
    ComputeTime = 1
    MaxWrites = 1
    Clients = {"c1", "c2"}
    Chains <- Behind
    Earlier <- Headers
    Accounts = {"login"}
    Limit = 2
    Window = 2
    SweepEvery = 3
    Servers = {"s1", "s2"}
    Workers = {"notifications"}
    LastVersion = 2
    MaxStarts = 3
    Requests = {"q1", "q2"}
    Firsts = {1, 3}
    Ranges = {0, 1}
    Overlap = 1
    StaleAfter = 2
    LastDay = 5
    Markets = {{0, 1, 2, 4, 5}}
    FirstOf <- MonthStarts
    FirstWeekday = 1
    Starts = {1, 15, 30, 31, 59, 60}
    Ends = {0, 60, 91}
    Intervals = {0, 2, 3}
    Weekdays = {0, 1, 3, 7}
    MonthDays = {0, 1, 15, 29, 30, 31}
    Windows <- AskedWindows
    Positions <- Holdable
    Stocks = {"stock", "twin", "other"}
    Unlisted = {"other"}
    SymbolOf <- Symbols
    Quantities = {1}
    Today = 3
    TradeDays = {1, 3}
    UnitPrice <- Priced
    Fees = 6
    ChartDays = {0, 1}
    SampleLimit = 2
    Scenarios <- Providers
    MaxTrades = 3
INVARIANTS
    EachLevelOnce
    NoSlotWasted
    AnswersCatchUp
    AttemptsBounded
    OrderlyLife
    ChartComplete
    DatesFollowRule
    LedgersAgree
PROPERTIES
    WorkIsDone
    ServedFresh
CHECK_DEADLOCK FALSE
