\* Two calls over two paths they may share; one operation fails or a call dies.
CONSTANTS
    Publishers = {p, q}
    Destinations = {1, 2}
    Companion <- MCCompanion
    Absent = Absent
    Original = Original
    Directory = Directory
    Empty = Empty
    MaxFaults = 1
    Subject = p
SPECIFICATION Spec
INVARIANT NeverPartiallyWritten
CHECK_DEADLOCK FALSE
