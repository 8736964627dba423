SPECIFICATION FilterSpec
CONSTANTS
  p1 = p1
  p2 = p2
  p3 = p3
  b1 = b1
  b2 = b2
  Absent = Absent
  PIDs = {p1, p2, p3}
  Batches = {b1, b2}
  Usages <- MCUsages
  CPUThreshold = 2
  MemoryThreshold = 2
  MaxMeasured = 1
  Ns = {0}
  InitialN = 2
SYMMETRY MCSymmetry
INVARIANTS FewAreAllKept BelowThresholdIsDropped ValidCacheIsCurrent
CONSTRAINT InScope
