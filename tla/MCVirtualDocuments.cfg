SPECIFICATION Spec
CONSTANTS
  Doc = {d1}
  Text = {a, b}
  NoText = NoText
  Request = {q1}
  Eager = {e1}
  Repair = {r1}
  Pass = {p1}
  HostClose = {c1}
  Acquirer = Acquirer
  NoTask = NoTask
  NoEntry = NoEntry
  MaxVersion = 5
  MaxProcesses = 2
  MaxEdits = 1
  MaxLifetimes = 2
  MaxDrops = 1
  MaxAborts = 1
INVARIANTS
  TypeOK
  TrackerAgrees
  NeverWedged
  ContentConverges
PROPERTIES
  ImplementsTextSync
