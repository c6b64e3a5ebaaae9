\* One call over three paths, any two operations failing or the process dying.
CONSTANTS
    Publishers = {p}
    Destinations = {1, 2, 3}
    Companion <- MCCompanion
    Absent = Absent
    Original = Original
    Directory = Directory
    Empty = Empty
    MaxFaults = 2
    Subject = p
SPECIFICATION ExclusiveSpec
INVARIANTS TypeOK AllOrNothing OriginalRecoverable StagedBeforeTouched NothingLeftBehind
PROPERTY ImplementsAtomic
CHECK_DEADLOCK FALSE
