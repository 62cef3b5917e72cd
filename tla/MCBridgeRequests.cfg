CONSTANTS
  a = a  p = p  r = r  u = u  none = none
  User <- OneUser
  Peer <- OnePeer
  Routing <- None
  Upstream <- OneUpstream
  NoUpstream = none
  QueueCapacity = 1
  MayShutDown = TRUE
SPECIFICATION Spec
CHECK_DEADLOCK FALSE
ACTION_CONSTRAINT Apart
INVARIANTS
  TypeOK
  RouterIsConsistent
  AnsweredOrPending
  NoFailureLeak
  CancelsAreExact
  TimerArmed
  FrameIsOwned
PROPERTY EntriesAreRetired
