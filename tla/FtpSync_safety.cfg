SPECIFICATION Spec
CONSTANTS
  Paths <- TwoDirectories
  Globbed <- LastGlobbed
  MaxTime = 2
  Size <- OwnSizes
  InitialStamp = 1
  MaxFiles = 1
  MaxRetries = 3
  Modes <- Either
  Faults = 3
  Aborts = 2
  Tears = TRUE
INVARIANT RecordedWasDownloaded
INVARIANT OwedIsQueued
INVARIANT QueuedOnce
INVARIANT CapKept
INVARIANT Reported
CHECK_DEADLOCK FALSE
