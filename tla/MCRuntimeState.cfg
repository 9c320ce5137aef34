SPECIFICATION StateSpec
CONSTANTS
    collect = collect
    b1 = b1
    b2 = b2
    b3 = b3
    i1 = i1
    i2 = i2
    i3 = i3
    i4 = i4
    i5 = i5
    i6 = i6
    Torn = Torn
    None = None
    Writer = {collect, b1, b2, b3}
    Marks <- MCMarks
    Payload <- MCStates
    Inode = {i1, i2, i3, i4, i5, i6}
\* Each request is made once, so that all of them come to an end.
CHECK_DEADLOCK FALSE
SYMMETRY Symmetric
INVARIANTS
    StateTypeOK
    MarksKept
    LossIsAnnounced
PROPERTIES
    SerialWritesAreAtomic
