CONSTANTS
  pump = pump  block = block
  Pumps = {pump}
  Blocking = {block}
  NoClient = NoClient
  Capacity = 3
  History = 1
  PendingCapacity = 2
  Attempts = 1
  EventCounts = {2}
  MaxConnections = 3
  MaxWork = 2
  Joins <- MCRivals
SPECIFICATION FairSpec
INVARIANTS
  LeaseSeenIsHeld
  AppliedOnce
PROPERTIES
  CatchesUp
  ImplementsFeed
CHECK_DEADLOCK FALSE
