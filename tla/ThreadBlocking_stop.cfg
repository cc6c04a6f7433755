SPECIFICATION Spec
CONSTANTS
  Threads = {t1, t2}
  NoThread = NoThread
  Signals = {"SIGKILL", "SIGCONT", "SIGSTOP"}
SYMMETRY Symmetry
INVARIANTS StoppedTogether BlockerMeansAsleep
PROPERTY WakesReachSleepers
CHECK_DEADLOCK FALSE
