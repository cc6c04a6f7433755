SPECIFICATION Spec
CONSTANTS
  Threads = {t1, t2, t3, t4}
  Addresses = {a1, a2}
  QueueIds = {q1, q2, q3, q4, q5, q6, q7, q8, q9, q10, q11}
  NoQueue = NoQueue
  WaitBitsets = {{1}}
  WakeBitsets = {{}, {1, 2}, {2}}
  WakeCounts = {1}
  RequeueCounts = {1, 2}
  Targets = {a2}
  SameProcess = TRUE
INVARIANT BlockersExist
PROPERTY OnlyRequeueDrops
SYMMETRY Symmetry
CHECK_DEADLOCK FALSE
