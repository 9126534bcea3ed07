CONSTANTS
  Sessions = {s1, s2}
  NoArena = null
  IdleLimit = 1
  queue_capacity = 2
  MaxInputs = 1
SPECIFICATION Spec
INVARIANT ArenaOwned
CHECK_DEADLOCK FALSE
