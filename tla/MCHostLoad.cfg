CONSTANTS
  c1 = c1
  a = a
  a1 = a1  a2 = a2  a3 = a3
  s1 = s1  s2 = s2
  n1 = n1  n2 = n2  n3 = n3  blank = blank
  Connections = {c1}
  Instances = {a}
  Sessions = {s1, s2}
  RawNames = {n1, n2, n3, blank}
  Names = {n1, n2, n3}
  Requests = {a1, a2, a3}
  ClientOf <- MCClientOf
  Normal <- MCNormal
  Window = 2
  NoInstance = NoInstance
  NoSession = NoSession
  NoName = NoName
  NoRequest = NoRequest
  NoCheckpoint = NoCheckpoint
  EventCounts = {0, 1, 2}
  MaxEpoch <- MCMaxEpoch
  MaxSequence <- MCMaxSequence
SPECIFICATION HostSpec
CONSTRAINT MCOnlyNamed
INVARIANTS
  NextLeaderLoads
CHECK_DEADLOCK FALSE
