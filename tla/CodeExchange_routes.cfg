SPECIFICATION Spec
CONSTANTS
  Clients = {a, b, s}
  Receivers = {a, b}
  MaxFailed = 2
  MaxDials = 2
  MaxCuts = 1
  None = None
INVARIANTS
  OnlyTheAccepted
  ReleasesFallback
PROPERTIES
  ImplementsDelivery
  EveryoneReturns
CHECK_DEADLOCK FALSE
