CONSTANTS
  Requests = {r1, r2, r3}
  None = None
  MaxSteps = 2
  AmbiguityFallback = TRUE
  FailureResponse = TRUE

SPECIFICATION Spec
SYMMETRY Symmetry
CHECK_DEADLOCK FALSE

INVARIANT TypeOK
INVARIANT UnknownIsFinal
INVARIANT LockIsRunning
PROPERTY NoReplay
PROPERTY NewerQuestionKept
