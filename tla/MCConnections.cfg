CONSTANTS
  d = d  c = c
  Doc <- Docs
  Command <- Commands1
  MaxHandles = 2
  MaxBarriers = 3
  MaxFaults = 2
SPECIFICATION FairSpec
CHECK_DEADLOCK FALSE
INVARIANTS
  TypeOK
  DebtIsKept
PROPERTIES
  CommandFollowsReopen
  RepairedMeansHeld
  NoSpawnAfterSnapshot
  ShutdownEnds
  WaitersAreReleased
