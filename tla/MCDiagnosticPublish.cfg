SPECIFICATION Spec
CONSTANTS
  t1 = t1
  t2 = t2
  t3 = t3
  t4 = t4
  t5 = t5
  Trail <- MCTrail
  MaxOpens = 2
  MaxEvents = 2
INVARIANTS TypeOK NothingOutlivesClose
PROPERTIES SendsInOrder EditorConverges
CHECK_DEADLOCK FALSE
