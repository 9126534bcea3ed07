CONSTANTS
  Threads = {t1, t2}
  Main = main
  NoThread = nobody
  MaxSessions = 4
  MaxTime = 1
SPECIFICATION Spec

INVARIANTS SnapshotConsistent AttachFindsSession
PROPERTY SessionsStable
