SPECIFICATION ReaperSpec
CONSTANTS
  p1 = p1
  s1 = s1
  c1 = c1
  c2 = c2
  n1 = n1
  None = None
  Servers <- OneServer
  Sids <- OneSession
  Cids <- TwoContainers
  Snaps <- OneSnapshot
  Restricted = {}
  NSetup = 1
  NVerify = 1
  Flaky = TRUE
  MaxEvents = 4
  MaxCrashes = 1
  MaxReaps = 1
SYMMETRY Symmetry
INVARIANTS
  CleansUp
  SparesIdleSessions
CHECK_DEADLOCK FALSE
