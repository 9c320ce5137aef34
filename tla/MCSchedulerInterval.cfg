SPECIFICATION BriefSpec
CONSTANTS
    sym = sym
    US = US
    Market = {US}
    Symbol = {sym}
    SymbolsOf <- OneSymbol
    MaxTime = 4
    DayLength = 24
    Interval = 2
    Offset <- NoOffset
    FirstWeekday = 0
    Timeout = 1
    Markets <- OpenMarket
    Delay = 1
    Feed <- AlwaysRegular
    MaxCrashes = 1
    MaxFaults = 0
PROPERTY BriefsAreSpaced
