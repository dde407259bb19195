SPECIFICATION Spec
CONSTANTS
  w1 = w1
  w2 = w2
  w3 = w3
  t1 = t1
  t2 = t2
  Writers <- ThreeWriters
  Threads <- TwoThreads
  NoThread = NoThread
  MaxLines = 2
SYMMETRY Symmetry
INVARIANTS
  Numbered
  AckedOnDisk
  WriterInv
  KillCostsOneLine
PROPERTIES
  ImplementsLog
  NoLateLines
CHECK_DEADLOCK FALSE
