SPECIFICATION Spec
CONSTANTS
    s1 = s1
    s2 = s2
    US = US
    Market = {US}
    Symbol = {s1, s2}
    SymbolsOf <- TwoSymbols
    MaxTime = 5
    DayLength = 24
    Interval = 2
    Offset <- OneMarketOffset
    FirstWeekday = 0
    Timeout = 1
    Markets <- OneMarket
    Delay = 1
    Feed <- OneMarketFeed
    MaxCrashes = 1
    MaxFaults = 1
SYMMETRY Symmetric
INVARIANTS
    TypeOK
    SuccessSurvives
    DeliveriesExplained
PROPERTIES
    RetryOnlyAfterTimeout
    KeepsPromise
