SPECIFICATION Spec
CONSTANTS
  k1 = k1
  k2 = k2
  Conns <- TwoConns
  Hosts <- TwoHosts
  Allow <- SomeAllowed
SYMMETRY Symmetry
INVARIANTS
  VerdictLast
CHECK_DEADLOCK FALSE
