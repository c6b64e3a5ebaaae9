\* Two calls over two paths they may share, nothing fails.
CONSTANTS
    Publishers = {p, q}
    Destinations = {1, 2}
    Companion <- MCCompanion
    Absent = Absent
    Original = Original
    Directory = Directory
    Empty = Empty
    MaxFaults = 0
    Subject = p
SPECIFICATION Spec
INVARIANT NeverOverwritten
CHECK_DEADLOCK FALSE
