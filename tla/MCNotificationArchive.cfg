SPECIFICATION Spec
CONSTANTS
    Call = {c1, c2, c3}
    Id = {i1, i2}
    MaxFaults = 2
\* Each call is made once.
CHECK_DEADLOCK FALSE
SYMMETRY Symmetric
INVARIANTS
    TypeOK
    QuietArchiveIsWhole
    ResultsAreItsOwn
