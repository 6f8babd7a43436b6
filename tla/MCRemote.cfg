SPECIFICATION FairSpec
CONSTANTS
  Texts = {"a", "b"}
  MaxTranscript = 3
  Heights = {1, 2}
  OperationCapacity = 1
  ReconnectAttempts = 1
  MaxNotes = 1
  MaxEvents = 1
  MaxInputs = 3
INVARIANTS
  QuestionIsOpen
PROPERTIES
  PlaceKept
  ScreenCatchesUp
CHECK_DEADLOCK FALSE
