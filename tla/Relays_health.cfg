\* s2, s3, o2 and o3 may fail at any time. Three probes at once and a ring of one
\* leave relays over for the reserve.
SPECIFICATION Spec
CONSTANTS
  Seeds = {s1, s2, s3}
  Others = {o1, o2, o3}
  Reliable = {s1, o1}
  Elsewhere = {o3}
  MaxFailures = 1
  MaxForeign = 1
  ControlCount = 2
  MinControl = 1
  RingCount = 1
  MinRing = 1
  ReserveCount = 1
  ProbeWorkers = 3
  SweepWorkers = 2
  SaveBatch = 2
  Uploaders = {w1, w2}
INVARIANTS
  TeardownBlamesOnlyOrphans
  CarriersStayOpen
  RingApartFromSignals
PROPERTIES
  UpdatesCompose
  EveryDemotionAnswered
CHECK_DEADLOCK FALSE
