SPECIFICATION Spec
CONSTANTS
    First = 3
    Moment <- Moments
    Change = 158
    Shift <- Shifts
    MaxLines = 2
    MaxRegular = 1
    MaxReports = 1
    None = None
\* The days come to an end.
CHECK_DEADLOCK FALSE
INVARIANTS
    TypeOK
    OneMarketAtATime
    LinesAreFiledOnce
    ReportIsWhole
