\* One sender whose PINs collide, two receivers, relays that lose publishes,
\* every time limit.
SPECIFICATION Spec
CONSTANTS
  p1 = p1  p2 = p2  r1 = r1  r2 = r2  s1 = s1  s2 = s2
  None = None
  Senders = {s1}
  Receivers = {r1, r2}
  Pins = {p1, p2}
  HintOf <- MCOneHint
  VerifyLimit = 2
  MaxClaimCandidates = 1
  MaxClaimAttempts = 2
  MaxBucket = 3
  RelayFaults = TRUE
  Timeouts = TRUE
SYMMETRY PinAndReceiverSymmetry
CHECK_DEADLOCK FALSE
INVARIANTS
  TypeOK
  SingleUse
  GuessBudget
  Agreement
  RefreshRetires
PROPERTIES
  LocksOnlyActivePins
  ImplementsPairing
