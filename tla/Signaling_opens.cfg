\* A relay whose sockets open at any time, one signal lost, host and
\* server-reflexive candidates, every error and time limit.
SPECIFICATION FairSpec
CONSTANTS
  Relays = {r1}
  Addresses = {a1}
  Loopback = Loopback
  MaxLost = 1
  MaxSent = 2
  None = None
INVARIANTS
  RepeatsAreHarmless
  FirstMessagesArrive
PROPERTIES
  Connects
CHECK_DEADLOCK FALSE
