CONSTANTS
  Sup = Sup
  Pub = Pub
  Others = {o1}
  None = None
  MaxState = 2
  MaxRegistry = 2
  MaxConn = 2

SPECIFICATION Spec
CHECK_DEADLOCK FALSE

INVARIANT TypeOK
INVARIANT WakeUpKept
INVARIANT RegistryDebtKept
PROPERTY NeverGoesBack
