CONSTANTS
  u1 = u1
  Uri <- OneDocument
  MaxRequests = 4
SPECIFICATION Spec
CHECK_DEADLOCK FALSE
INVARIANTS
  TypeOK
  NoOvertaking
  EntriesAreExact
PROPERTIES
  ImplementsWireOrder
  EveryRequestIsOver
