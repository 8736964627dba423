\* TLC refutes each of these; leave the others out to see a counterexample of one.
SPECIFICATION FairSpec
CONSTANTS
  Jobs = {j1, j2}
  Scheduled = {j1}
  Parses = TRUE
  Faults = TRUE
  Inodes = {i1, i2, i3, i4, i5}
  Handles = {h1, h2, h3, h4}
  MaxSaves = 2
  Nil = Nil
INVARIANTS KeepsAcknowledged ShutdownReleases
PROPERTIES FinalCheckpoint ClosedIsReopened
