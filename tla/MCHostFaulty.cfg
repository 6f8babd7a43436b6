CONSTANTS
  c1 = c1
  a = a
  a1 = a1  a2 = a2  a3 = a3
  s1 = s1  s2 = s2
  n1 = n1  n2 = n2  n3 = n3  blank = blank
  Connections = {c1}
  Instances = {a}
  Sessions = {s1}
  RawNames = {n1}
  Names = {n1}
  Requests = {a1, a2}
  ClientOf <- MCClientOf
  Normal <- MCNormal
  Window = 1
  NoInstance = NoInstance
  NoSession = NoSession
  NoName = NoName
  NoRequest = NoRequest
  NoCheckpoint = NoCheckpoint
  EventCounts = {0, 1, 2}
  MaxEpoch <- MCMaxEpoch
  MaxSequence <- MCMaxSequence
SPECIFICATION FaultySpec
INVARIANTS
  AcceptedIsJournaled
CHECK_DEADLOCK FALSE
