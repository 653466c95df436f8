CONSTANTS
  Requests = {r1, r2, r3}
  None = None

SPECIFICATION FairSpec
CHECK_DEADLOCK FALSE

INVARIANT TypeOK
INVARIANT OneInFlight
INVARIANT NoLateContinuation
PROPERTY DedupeReleased
