SPECIFICATION Spec
CONSTANTS
  n1 = n1
  n2 = n2
  n3 = n3
  None = None
  Snaps <- ThreeSnapshots
  MaxEvents = 8
SYMMETRY Symmetry
INVARIANTS
  NothingRolledBack
  AllOfTimeline
PROPERTIES
  AbandonedIsShown
CHECK_DEADLOCK FALSE
