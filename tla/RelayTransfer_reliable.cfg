\* Two workers, one relay of three that takes and serves every chunk, two control
\* messages underway each way: nothing is blamed or lost, and it completes.
SPECIFICATION FairSpec
CONSTANTS
  Total = 2
  RingSize = 3
  Workers <- MCTwoWorkers
  Reliable <- MCLastReliable
  MinRetransmits = 1
  DemoteMisses = 2
  DemoteGiveUps = 2
  MaxInFlight = 2
  ControlFaults = FALSE
  Timeouts = FALSE
  w1 = w1
  w2 = w2
  None = None
INVARIANTS
  MissesAreResends
  ReliableNeverBlamed
  AlwaysDeliverable
PROPERTIES
  Completes
CHECK_DEADLOCK FALSE
