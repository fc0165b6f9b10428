\* Reliable relays and patient waits: who converges.
SPECIFICATION FairSpec
CONSTANTS
  p1 = p1  p2 = p2  r1 = r1  r2 = r2  s1 = s1  s2 = s2
  None = None
  Senders = {s1}
  Receivers = {r1, r2}
  Pins = {p1, p2}
  HintOf <- MCOneHint
  VerifyLimit = 2
  MaxClaimCandidates = 1
  MaxClaimAttempts = 3
  MaxBucket = 2
  RelayFaults = FALSE
  Timeouts = FALSE
CHECK_DEADLOCK FALSE
PROPERTIES
  Converges
  LockIsConfirmed
