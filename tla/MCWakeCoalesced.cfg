SPECIFICATION CleanSpec

CONSTANTS
  Readers = {r1, r2}
  Waiters = {w1}
  Capacity = 2
  MaxLines = 1
  r1 = r1
  r2 = r2
  w1 = w1

INVARIANTS
  NeverStuckCoalesced

CHECK_DEADLOCK FALSE
