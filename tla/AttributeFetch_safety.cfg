SPECIFICATION FairSpec
CONSTANTS
  c1 = c1
  c2 = c2
  c3 = c3
  x1 = x1
  x2 = x2
  Callers = {c1, c2, c3}
  Keys = {x1}
  CacheTTL = 1
  CooldownPeriod = 2
  MaxCount = 4
INVARIANTS DenialIsDue OnlyLateOperations
PROPERTY Recovers
