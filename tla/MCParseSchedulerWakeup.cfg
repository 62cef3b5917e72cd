CONSTANTS
  l1 = l1
  l2 = l2
  Loop <- TwoLoops
  MaxOpens = 2
  MaxVersion = 2
  MaxReloads = 0
  MaxPanics = 0
SPECIFICATION Safety
SYMMETRY AnyLoop
INVARIANTS
  NoLostWakeup
CHECK_DEADLOCK FALSE
