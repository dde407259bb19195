SPECIFICATION FairSpec
CONSTANTS
  p1 = p1
  s1 = s1
  s2 = s2
  c1 = c1
  c2 = c2
  c3 = c3
  n1 = n1
  None = None
  Servers <- OneServer
  Sids <- OneSession
  Cids <- TwoContainers
  Snaps <- OneSnapshot
  Restricted = {}
  NSetup = 1
  NVerify = 2
  Flaky = TRUE
  MaxEvents = 4
  MaxCrashes = 1
INVARIANTS
  CountAgrees
  PinnedIsCurrent
  BoxExists
  VerdictEarned
  PersistedAfterSetup
  JudgedOncePerLife
PROPERTIES
  OverForGood
  ImplementsRunLog
  HandlerReturns
  TearsDown
CHECK_DEADLOCK FALSE
