SPECIFICATION FairSpec
CONSTANTS
  Callers = {c1, c2}
  Resources <- MCTwoResources
  CriticalAttributes <- MCTwoCritical
  AttributesToFetch <- MCTwoFetch
  StrictMode = FALSE
  LastProcess = 2
  UidOf <- MCUidOf
  CacheTTL = 2
  Minute = 2
  Given = Given
  Nil = Nil
  u1 = u1
  u2 = u2
INVARIANTS OwnerIsCurrent GivenIsKept
PROPERTIES MissingIsLogged ReuseIsNoticed
