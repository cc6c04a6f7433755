SPECIFICATION FairSpec
CONSTANTS
  Threads = {t1, t2}
  Main = t1
  Alarm = alarm
  NoThread = NoThread
  MaxDelay = 4
INVARIANTS DueIsHead NoStrayCallback
PROPERTY TimeoutsWork
