SPECIFICATION Spec
CONSTANTS
  Threads = {t1, t2}
  Syncers = {s1}
  Inodes = {1, 2, 3, 4, 5, 6, 7}
  Root = 1
  Calls <- AllCalls
  MaxCalls = 2
  MaxSyncs = 2
  MaxFailures = 1
  MaxLinks = 4
  PerBlock = 6
  StartInode <- Inodes0
  StartEntries <- Entries0
  None = None
INVARIANTS NoDanglingName LinksCounted DeadlocksAreKnown
CHECK_DEADLOCK FALSE
SYMMETRY Symmetry
