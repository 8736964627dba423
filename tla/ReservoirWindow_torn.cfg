SPECIFICATION Spec
CONSTANTS
  a1 = a1
  a2 = a2
  b1 = b1
  c1 = c1
  r1 = r1
  ua = ua
  ub = ub
  uc = uc
  p1 = p1
  p2 = p2
  Nil = Nil
  Units <- TreeUnits
  Spans <- TreeSpans
  SpansOf <- TreeSpansOf
  Consumers = {p1}
  KSizes = {3}
  InitialK = 3
  WindowNS = 0
  MaxNow = 1
  Arrays <- MCArrays
  Saver = Saver
  Checkpoints = {}
INVARIANT TracesAreWhole
