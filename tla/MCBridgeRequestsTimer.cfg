CONSTANTS
  a = a  p = p  r = r  u = u  none = none
  User <- OneUser
  Peer <- None
  Routing <- OneRouting
  Upstream <- OneUpstream
  NoUpstream = none
  QueueCapacity = 2
  MayShutDown = FALSE
SPECIFICATION Safety
CHECK_DEADLOCK FALSE
INVARIANT TimerArmed
