CONSTANTS
  old = old
  new = new
  stopper = stopper
  Clients = {old, new, stopper}
  Stoppers = {stopper}
  VersionOf <- MCVersions
  MaxLeaders = 4
  MaxFaults = 2
SPECIFICATION FairSpec
INVARIANTS
  OneLeader
  Reachable
PROPERTIES
  EveryoneServed
CHECK_DEADLOCK FALSE
