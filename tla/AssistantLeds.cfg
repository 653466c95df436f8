CONSTANTS
  Jobs = {j1, j2, j3}
  Stop = Stop
  None = None
  Pulse = TRUE
  MaxFailures = 1
  MaxBlinks = 1
  MaxBehind = 2

SPECIFICATION Spec
SYMMETRY Symmetry
CHECK_DEADLOCK FALSE

INVARIANT TypeOK
INVARIANT NoSessionLeft
INVARIANT RestoreIsLast
INVARIANT LightGivenBack
