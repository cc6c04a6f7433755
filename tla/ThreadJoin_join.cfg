SPECIFICATION FairSpec
CONSTANTS
  Threads = {t1, t2, t3}
  Main = t1
  NoThread = NoThread
  Finalizer = Finalizer
INVARIANTS JoinHandsOver PanicsAreKnown
PROPERTY DyingAreBuried
CHECK_DEADLOCK FALSE
