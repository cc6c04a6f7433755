SPECIFICATION Spec
CONSTANTS
  Inodes = {1, 2}
  GroupOf <- Groups
  GroupCount = 2
  BlocksPerGroup = 12
  NDirect = 1
  PerBlock = 2
  Sizes = {0, 1, 2, 4, 6, 9, 12}
  MaxCalls = 5
INVARIANTS TreeReadsBack BlocksOwnedOnce PanicsAreKnown
VIEW View
CHECK_DEADLOCK FALSE
