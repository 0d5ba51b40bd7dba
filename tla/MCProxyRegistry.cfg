SPECIFICATION Spec
CONSTANTS
  Labctls = {a, b}
  Ports = {80, 65536}
  MaxCalls = 3
  MaxPanics = 1
INVARIANTS
  EntryIsServed
  ListenerIsReachable
  StopFreesPort
  QuietRequestDecides
PROPERTIES
  RequestsEnd
  ImplementsTable
CHECK_DEADLOCK FALSE
