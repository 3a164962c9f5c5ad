SPECIFICATION FairSpec
CONSTANTS
  Requests = {r1}
  Setters = {s1}
  None = None
  Finder = Finder
  Capacity = 1
  Scenarios <- Cases
  MaxConns = 3
  MaxLosses = 1
  MaxInvalidations = 1
CHECK_DEADLOCK FALSE
INVARIANTS
  NoStrays
  HandlerIsRegistered
PROPERTIES
  InvalidationRecycles
  ClientComesBack
  RequestsSettle
