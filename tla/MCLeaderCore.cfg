CONSTANTS
  c1 = c1  c2 = c2  c3 = c3
  a = a  b = b
  a1 = a1  a2 = a2  b1 = b1
  s1 = s1  s2 = s2
  Connections = {c1, c2, c3}
  Instances = {a, b}
  Sessions = {s1, s2}
  RawNames <- MCRawNames
  Names = {"build", "logs"}
  Requests = {a1, a2, b1}
  ClientOf <- MCClientOf
  Normal <- MCNormal
  Window = 1
  NoInstance = NoInstance
  NoSession = NoSession
  NoName = NoName
  MaxEpoch <- MCMaxEpoch
  MaxSequence <- MCMaxSequence
SPECIFICATION Spec
SYMMETRY MCSymmetry
INVARIANTS
  TypeOK
  DriverIsAttached
  WritesFenced
  OnceWithinWindow
PROPERTIES
  ImplementsDriverLease
CHECK_DEADLOCK FALSE
