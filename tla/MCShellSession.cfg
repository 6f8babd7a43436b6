CONSTANTS
  make = make  cd = cd
  Lines = {make, cd}
  Builtins = {cd}
  NoStream = NoStream
  MaxSubmit = 2
  MaxFaults = 2
SPECIFICATION FairSpec
INVARIANTS
  CommandsRunInOrder
  RequestsAgree
PROPERTIES
  QueueDrains
