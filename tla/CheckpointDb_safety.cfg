SPECIFICATION FairSpec
CONSTANTS
  Jobs = {j1, j2}
  Scheduled = {j1}
  Parses = TRUE
  Faults = TRUE
  Inodes = {i1, i2}
  Handles = {h1, h2, h3}
  MaxSaves = 2
  Nil = Nil
INVARIANTS Durable
PROPERTIES StoreSpec AlwaysReopened
CONSTRAINT NotOverlapped
