SPECIFICATION FairSpec
CONSTANTS
  NSetup = 2
  NVerify = 3
  MaxCommands = 3
  MaxAttempts = 2
INVARIANTS
  ResultIsLogged
  NoContainerLeft
PROPERTIES
  ImplementsRunLog
  Ends
CHECK_DEADLOCK FALSE
