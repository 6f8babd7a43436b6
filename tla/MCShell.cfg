\* 16 and 2^64 have the same remainders by all numbers up to 16.
SPECIFICATION FairSpec
CONSTANTS
  Keys = {k}
  NoKey = NoKey
  IsAsync = TRUE
  Coalesces = TRUE
  WordSize = 16
  ShellItems <- MCShellItems
  MaxSurfaces = 3
  MaxAsking = 1
  Waiting = {2}
INVARIANTS
  FocusIsShown
PROPERTIES
  BackgroundServed
  ClosingKeepsFocus
CHECK_DEADLOCK FALSE
