SPECIFICATION LiveSpec
CONSTANTS
    sym = sym
    US = US
    HK = HK
    CN = CN
    Market = {US, HK, CN}
    Symbol = {sym}
    SymbolsOf <- LiveSymbols
    MaxTime = 4
    DayLength = 24
    Interval = 2
    Offset <- LiveOffset
    FirstWeekday = 0
    Timeout = 1
    Markets <- ThreeMarkets
    Delay = 1
    Feed <- LiveFeed
    MaxCrashes = 1
    MaxFaults = 1
PROPERTY EveryMarketServed
