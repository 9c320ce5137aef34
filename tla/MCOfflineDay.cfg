SPECIFICATION Spec
CONSTANTS
    open = open
    noon = noon
    close = close
    Window = {open, noon, close}
    MaxRaw = 3
    MaxJobs = 4
    MaxDeaths = 2
\* The jobs and collections are bounded, so that the day comes to an end.
CHECK_DEADLOCK FALSE
SYMMETRY Symmetric
INVARIANTS
    TypeOK
    DayIsOneBuild
    PostMarketIsDone
