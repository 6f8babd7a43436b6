CONSTANTS
  MaxCommands = 2
  MaxOutputs <- MCOutputs
  QueueCapacity = 1
  SpoolCapacity = 1
  MaxFaults = 2
SPECIFICATION FairSpec
INVARIANTS
  RunsOnce
  StoppedForGood
  NoSilentLoss
  OutcomesAreTrue
PROPERTIES
  CommandsEnd
CHECK_DEADLOCK FALSE
