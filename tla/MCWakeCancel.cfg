SPECIFICATION CleanSpec

CONSTANTS
  Readers = {r1, r2}
  Waiters = {w1, w2}
  Capacity = 2
  MaxLines = 0
  r1 = r1
  r2 = r2
  w1 = w1
  w2 = w2

INVARIANTS
  CancellationIsTold

CHECK_DEADLOCK FALSE
