CONSTANTS
  make = make  cd = cd
  Lines = {make, cd}
  Builtins = {cd}
  NoStream = NoStream
  MaxSubmit = 1
  MaxFaults = 0
SPECIFICATION Spec
INVARIANTS
  CancelledNeverRuns
