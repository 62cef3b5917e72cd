CONSTANTS
  l1 = l1
  l2 = l2
  Loop <- TwoLoops
  MaxOpens = 1
  MaxVersion = 4
  MaxReloads = 1
  MaxPanics = 1
SPECIFICATION Spec
INVARIANTS
  TypeOK
  LoopAndEntryAgree
  NoLostWakeup
  WatermarkHonest
PROPERTIES
  EveryVersionIsParsed
CHECK_DEADLOCK FALSE
