SPECIFICATION Spec
CONSTANTS
  BufferSize = 2
  BatchSize = 2
  MaxFiltered = 3
  MaxReports = 3
INVARIANTS SubmitsSafely NothingLeftBehind
CHECK_DEADLOCK FALSE
