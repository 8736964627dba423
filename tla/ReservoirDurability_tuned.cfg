SPECIFICATION Spec
CONSTANTS
  s1 = s1
  s2 = s2
  s3 = s3
  s4 = s4
  s5 = s5
  s6 = s6
  p1 = p1
  p2 = p2
  Nil = Nil
  Spans = {s1, s2, s3, s4, s5}
  Consumers = {p1}
  SizeK = 1
  KSizes = {1, 3}
  WindowNS = 0
  MaxNow = 1
  MaxFlushes = 1
SYMMETRY MCSymmetry
INVARIANT ActiveInLRU
