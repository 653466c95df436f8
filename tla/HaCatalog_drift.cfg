CONSTANTS
  Sup = Sup
  Pub = Pub
  Others = {}
  None = None
  MaxState = 2
  MaxRegistry = 2
  MaxConn = 2

SPECIFICATION FairSpec
CHECK_DEADLOCK FALSE

PROPERTY NoDrift
