CONSTANTS
  s1 = s1  s2 = s2
  e1 = e1  e2 = e2  f1 = f1
  Sessions = {s1, s2}
  Effects = {e1, e2, f1}
  SessionOf <- MCSessionOf
  AtMostOnce = {e1}
  Timed = {e1, f1}
  Limit = 1
  NoEffect = NoEffect
  MaxBatch = 2
  MaxFaults = 0
SPECIFICATION QuietSpec
PROPERTIES
  RedrivenUntilComplete
CHECK_DEADLOCK FALSE
