SPECIFICATION Spec
CONSTANTS
  Threads = {t1, t2}
  Main = t1
  Children = {c1, c2}
  Group = {c1}
  Traced = {}
  Options = {{"WEXITED", "WUNTRACED", "WNOWAIT"}, {"WEXITED", "WUNTRACED", "WCONTINUED"}}
  Handled = {"SIGCHLD", "SIGUSR1"}
  Stops = TRUE
INVARIANTS NobodyMisses DeathTakenOnce
PROPERTY OnlyInterruptedLose
CHECK_DEADLOCK FALSE
