SPECIFICATION Spec
CONSTANTS
  Paths <- OneFile
  Globbed <- NoGlobs
  MaxTime = 2
  Size <- OwnSizes
  InitialStamp = 0
  MaxFiles = 9
  MaxRetries = 3
  Modes <- Resync
  Faults = 0
  Aborts = 0
  Tears = FALSE
INVARIANT HeldOrFetched
