SPECIFICATION Live
CONSTANTS
    Symbol = {s1}
    Recipient = {r1, r2}
    Windows = 2
    WindowSlots = 2
    PeriodSlots = 2
    Interval = 2
    CollectTries = 2
    SmtpTries = 1
    MaxFaults = 1
    MaxCrashes = 1
\* The loop turns to the next day.
CHECK_DEADLOCK FALSE
INVARIANTS
    TypeOK
    LossIsTold
    MailsAreAccounted
    DayIsReported
PROPERTIES
    DailyComesOut
