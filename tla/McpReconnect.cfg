CONSTANTS
  Listings = {l1, l2}
  ToolCalls = {t1}
  Servers = {s1, s2}
  None = None
  InitialBackoff = 1
  MaxBackoff = 2
  MaxTime = 3
  MaxSession = 4

SPECIFICATION FairSpec
CHECK_DEADLOCK FALSE

INVARIANT TypeOK
PROPERTY RebuildsSpaced
PROPERTY CallsEnd
