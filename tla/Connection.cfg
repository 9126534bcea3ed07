CONSTANTS
  Conns = {c1}
  INACTIVITY_TIMEOUT = 2
  MaxEvents = 2
  LineMax = 2
  FILLY_GCORE = TRUE
SPECIFICATION Spec
INVARIANTS AnsweredOnce TtyRestored
PROPERTY Closes
CHECK_DEADLOCK FALSE
