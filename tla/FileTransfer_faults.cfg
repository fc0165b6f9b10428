\* A transport that reorders, drops and may stop for good, channels that close,
\* workers that stop, files that fail, every time limit, payloads longer than the
\* index can number; fair to the program only.
SPECIFICATION StalledSpec
CONSTANTS
  HighWater = 1
  LowWater = 0
  Reliable = FALSE
  LinkFaults = TRUE
  MaxTotal = 3
  MaxChunks = 2
  FileFaults = TRUE
  Timeouts = TRUE
  None = None
CHECK_DEADLOCK FALSE
INVARIANTS
  TypeOK
  SavedIsWhole
PROPERTIES
  ImplementsDelivery
  NobodyWaitsForever
  CloseReleasesSender
