SPECIFICATION FairSpec
CONSTANTS
  Tasks <- OneTask
  PerTask = 1
  Window = 1
  Verdicts <- Judgements
  MaxAge = 3
  MaxRuns = 2
INVARIANTS
  ExitZeroIsEarned
  CompareHonest
PROPERTIES
  OwnWhenAlone
  BatchEnds
CHECK_DEADLOCK FALSE
