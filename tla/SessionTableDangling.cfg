CONSTANTS
  Threads = {t1, t2}
  Main = main
  NoThread = nobody
  MaxSessions = 2
  MaxTime = 0
SPECIFICATION Spec
INVARIANT NoDanglingSession
