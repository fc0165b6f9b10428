\* As many relays are probed at once as a ring has, as in the source.
SPECIFICATION Spec
CONSTANTS
  Seeds = {s1, s2}
  Others = {o1, o2, o3}
  Reliable = {s1, o1, o2, o3}
  Elsewhere = {}
  MaxFailures = 1
  MaxForeign = 0
  ControlCount = 2
  MinControl = 1
  RingCount = 2
  MinRing = 1
  ReserveCount = 1
  ProbeWorkers = 2
  SweepWorkers = 1
  SaveBatch = 1
  Uploaders = {w1}
PROPERTY
  SparesAreHeldBack
CHECK_DEADLOCK FALSE
