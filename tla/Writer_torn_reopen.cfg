SPECIFICATION Spec
CONSTANTS
  w1 = w1
  w2 = w2
  w3 = w3
  t1 = t1
  t2 = t2
  Writers <- TwoWriters
  Threads <- TwoThreads
  NoThread = NoThread
  MaxLines = 3
SYMMETRY Symmetry
PROPERTIES
  NoSeqRestart
CHECK_DEADLOCK FALSE
