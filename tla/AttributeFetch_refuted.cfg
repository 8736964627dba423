\* TLC refutes each of these; leave the others out to see a counterexample of one.
SPECIFICATION Spec
CONSTANTS
  c1 = c1
  c2 = c2
  c3 = c3
  x1 = x1
  x2 = x2
  Callers = {c1, c2}
  Keys = {x1}
  CacheTTL = 1
  CooldownPeriod = 2
  MaxCount = 4
INVARIANT ClosedAfterCooldown
PROPERTIES OpenForTheCooldown BadRunIsDenied ValidEntryStays
