SPECIFICATION FairSpec
CONSTANTS
  a0 = a0
  a1 = a1
  a2 = a2
  b0 = b0
  o1 = o1
  A = A
  B = B
  O = O
  c1 = c1
  c2 = c2
  Spans <- MCSpans
  Traces <- MCTraces
  TraceID <- MCTraceID
  RootSpans <- MCRootSpans
  Consumers = {c1, c2}
  BufferTTL = 1
INVARIANTS ExactlyOnePlace UnitsWellFormed CountersMatchUnits
PROPERTIES LeavesForAReason GroupingSpec EverySpanLeaves
