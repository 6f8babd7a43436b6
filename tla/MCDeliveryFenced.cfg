CONSTANTS
  pump = pump  block = block
  Pumps = {pump, block}
  Blocking = {}
  NoClient = NoClient
  Capacity = 3
  History = 0
  PendingCapacity = 0
  Attempts = 1
  EventCounts = {}
  MaxConnections = 3
  MaxWork = 3
  Joins <- MCTakers
SPECIFICATION Spec
INVARIANTS
  OldDriverIsFenced
SYMMETRY MCSymmetry
CHECK_DEADLOCK FALSE
