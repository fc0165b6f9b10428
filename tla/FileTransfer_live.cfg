\* A network that works: flow control, and completion.
SPECIFICATION FairSpec
CONSTANTS
  HighWater = 2
  LowWater = 1
  Reliable = TRUE
  LinkFaults = FALSE
  MaxTotal = 6
  MaxChunks = 5
  FileFaults = FALSE
  Timeouts = FALSE
  None = None
CHECK_DEADLOCK FALSE
INVARIANTS
  BackpressureHolds
PROPERTIES
  Completes
