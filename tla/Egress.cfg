SPECIFICATION FairSpec
CONSTANTS
  k1 = k1
  k2 = k2
  Conns <- TwoConns
  Hosts <- SomeHosts
  Allow <- SomeAllowed
INVARIANTS
  AnsweredIsLogged
  StoppedForGood
PROPERTIES
  StopReturns
  NoHandlerLeft
CHECK_DEADLOCK FALSE
