SPECIFICATION Spec
CONSTANTS
  p1 = p1
  s1 = s1
  s2 = s2
  c1 = c1
  c2 = c2
  c3 = c3
  n1 = n1
  None = None
  Servers <- OneServer
  Sids <- TwoSessions
  Cids <- ThreeContainers
  Snaps <- OneSnapshot
  Restricted <- SecondRestricted
  NSetup = 1
  NVerify = 1
  Flaky = FALSE
  MaxEvents = 4
  MaxCrashes = 2
SYMMETRY Symmetry
INVARIANTS
  ProxyWhileLive
  SessionsApart
  NothingLeaks
  NoactMeansUntouched
CHECK_DEADLOCK FALSE
