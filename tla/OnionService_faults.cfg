SPECIFICATION ServiceSpec
CONSTANTS
  Authorities = 2
  Life = 1
  Margin = 1
  Tolerance = 0
  MaxTime = 2
  MaxFaults = 1
  NoDirectory = NoDirectory
  Relays = {r1, r2}
  HsDirs = {h1, h2}
  RolloverDirs = {h1}
  Clients = {c1}
  IntroPoints = 2
  Permits = 1
  QueueDepth = 1
  SeenCapacity = 1
  MaxTries = 1
  None = None
INVARIANTS
  TrustedDirectory
  NobodyTurnedAway
PROPERTIES
  WatchersSurvive
  StaysReachable
CHECK_DEADLOCK FALSE
