SPECIFICATION Spec
CONSTANTS
  a1 = a1
  a2 = a2
  Callers <- TwoCallers
  Texts <- SomeTexts
  MaxBytes = 3
  Chunks = 2
  MaxCalls = 3
  MaxFaults = 1
SYMMETRY Symmetry
INVARIANTS
  RefsWhole
  HeadIsLongest
PROPERTIES
  SettledStays
CHECK_DEADLOCK FALSE
