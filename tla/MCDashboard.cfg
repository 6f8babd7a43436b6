SPECIFICATION FairSpec
CONSTANTS
  Sessions = {s1, s2}
  Names = {1, 2}
  OperationCapacity = 1
  EventCapacity = 1
  MaxInputs = 3
INVARIANTS
  OneOfEach
  TakesWhatWasAsked
PROPERTIES
  DashboardSettles
CHECK_DEADLOCK FALSE
