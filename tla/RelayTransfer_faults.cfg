\* Relays that refuse and forget, control messages lost and refused, either
\* side giving up.
SPECIFICATION Spec
CONSTANTS
  Total = 2
  RingSize = 2
  Workers <- MCOneWorker
  Reliable <- MCNoneReliable
  MinRetransmits = 1
  DemoteMisses = 2
  DemoteGiveUps = 2
  MaxInFlight = 1
  ControlFaults = TRUE
  Timeouts = TRUE
  w1 = w1
  w2 = w2
  None = None
INVARIANTS
  AnnouncedIsStored
PROPERTIES
  ImplementsDelivery
CHECK_DEADLOCK FALSE
