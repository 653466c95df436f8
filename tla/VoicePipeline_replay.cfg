CONSTANTS
  Requests = {r1}
  None = None
  MaxSteps = 2
  AmbiguityFallback = TRUE
  FailureResponse = TRUE

SPECIFICATION Spec
CHECK_DEADLOCK FALSE

INVARIANT UtteranceOnce
