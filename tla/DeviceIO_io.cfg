SPECIFICATION FairSpec
CONSTANTS
  Threads = {t1, t2}
  Kinds = {"pio", "dma", "ahci"}
  Calls <- MCCalls
  PerPage = 2
  MaxRequests = 2
  MaxTroubles = 1
INVARIANTS HeadIsCurrent DataIsOwn PanicsAreKnown WorkRunsInOrder
PROPERTY CallsReturn
CHECK_DEADLOCK FALSE
