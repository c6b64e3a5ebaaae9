SPECIFICATION FairSpec
CONSTANTS
  Paths <- TwoDirectories
  Globbed <- LastGlobbed
  MaxTime = 2
  Size <- NoSizes
  InitialStamp = 0
  MaxFiles = 1
  MaxRetries = 4
  Modes <- Resync
  Faults = 2
  Aborts = 1
  Tears = FALSE
PROPERTY EverythingArrives
