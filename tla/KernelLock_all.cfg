SPECIFICATION FairSpec
CONSTANTS
  Threads = {t1, t2, t3}
  NoThread = NoThread
  Modes = {"Exclusive", "Shared"}
  MaxDepth = 2
  SplitRegistration = FALSE
INVARIANTS MutualExclusion VerifiedState HoldersAgree NoSleeperForgotten
PROPERTIES ImplementsRW FreeLockIsTaken
CHECK_DEADLOCK FALSE
