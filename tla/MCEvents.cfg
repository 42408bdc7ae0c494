CONSTANTS
  MaxSteps = 2
  MaxDeltas = 2
  Window = 6
  Retries = 1
  MaxFaults = 1
  None = None
SPECIFICATION FairSpec
CHECK_DEADLOCK FALSE
INVARIANTS
  ConfirmedIsFinal
  RestStatusIsTrue
  AnswerIsLastAndWhole
PROPERTIES
  EndIsFound
