SPECIFICATION CleanSpec

CONSTANTS
  Readers = {r1, r2}
  Waiters = {w1, w2}
  Capacity = 2
  MaxLines = 2
  r1 = r1
  r2 = r2
  w1 = w1
  w2 = w2

INVARIANTS
  WakeTypeOK
  NoWakeLost
  NoEndLost
  FullIsUnreachable
  LastIsTold

CHECK_DEADLOCK FALSE
