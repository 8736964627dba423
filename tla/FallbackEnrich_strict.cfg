SPECIFICATION Spec
CONSTANTS
  Callers = {c1, c2}
  Resources <- MCResources
  CriticalAttributes <- MCCritical
  AttributesToFetch <- MCFetch
  StrictMode = TRUE
  LastProcess = 2
  UidOf <- MCUidOf
  CacheTTL = 1
  Minute = 1
  Given = Given
  Nil = Nil
  u1 = u1
  u2 = u2
INVARIANT StrictDrops
