SPECIFICATION Spec
SYMMETRY AnyNames
CHECK_DEADLOCK FALSE
ACTION_CONSTRAINT OnlyForwards
CONSTANTS
  Doc = {d1}
  Text = {a, b}
  NoText = NoText
  Request = {q1}
  Eager = {e1, e2}
  Repair = {}
  Pass = {p1, p2, p3}
  HostClose = {}
  Acquirer = Acquirer
  NoTask = NoTask
  NoEntry = NoEntry
  MaxVersion = 3
  MaxProcesses = 2
  MaxEdits = 3
  MaxLifetimes = 1
  MaxDrops = 0
  MaxAborts = 0
PROPERTIES
  NoStaleSkip
