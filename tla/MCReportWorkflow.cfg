SPECIFICATION Spec
CONSTANTS
    s1 = s1
    s2 = s2
    Symbol = {s1, s2}
    Type = "daily_close_report"
    Channels <- AllChannels
    Retries = 2
    MaxRuns = 3
    MaxFaults = 2
CHECK_DEADLOCK FALSE
INVARIANTS
    TypeOK
    CopiesExplained
    LogTellsAnswer
    EveryChannelTried
PROPERTIES
    SentIsSavedAndComplete
    ImplementsHandler
