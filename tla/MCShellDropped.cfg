CONSTANTS
  make = make  cd = cd
  Lines = {make, cd}
  Builtins = {cd}
  NoStream = NoStream
  MaxSubmit = 2
  MaxFaults = 0
SPECIFICATION Spec
INVARIANTS
  NothingDropped
