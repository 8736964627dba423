SPECIFICATION FairSpec
CONSTANTS
  BufferSize = 2
  BatchSize = 2
  MaxFiltered = 3
  MaxReports = 3
INVARIANTS CountedOnce InOrder
PROPERTIES ShutdownReturns UpdatesArrive
CHECK_DEADLOCK FALSE
