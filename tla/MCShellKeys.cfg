\* 16 and 2^64 have the same remainders by all numbers up to 16.
SPECIFICATION Spec
CONSTANTS
  Keys = {k}
  NoKey = NoKey
  IsAsync = TRUE
  Coalesces = FALSE
  WordSize = 16
  ShellItems <- MCShellItems
  MaxSurfaces = 3
  MaxAsking = 1
  Waiting = {2}
INVARIANTS
  PreviousCycles
  EnterRunsHighlighted
CHECK_DEADLOCK FALSE
