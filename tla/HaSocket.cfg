CONSTANTS
  Commands = {c1}
  Pipelines = {p1}
  Sup = Sup
  None = None
  InitCalls = 2
  MaxConn = 2

SPECIFICATION FairSpec
CHECK_DEADLOCK FALSE

INVARIANT TypeOK
INVARIANT NobodyStranded
INVARIANT ReadyIsAccurate
INVARIANT RepliesMatch
PROPERTY KeepsContract
PROPERTY CallsEnd
PROPERTY Recovers
