SPECIFICATION Spec
CONSTANTS
  s1 = s1
  s2 = s2
  s3 = s3
  s4 = s4
  s5 = s5
  s6 = s6
  p1 = p1
  p2 = p2
  Nil = Nil
  Spans = {s1, s2}
  Consumers = {p1, p2}
  SizeK = 2
  KSizes = {1, 2}
  WindowNS = 0
  MaxNow = 2
  MaxFlushes = 2
SYMMETRY MCSymmetry
INVARIANTS AtMostOnce CheckpointOfOneWindow
