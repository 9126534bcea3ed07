CONSTANTS
  Sessions = {s1}
  NoArena = null
  IdleLimit = 2
  queue_capacity = 3
  MaxInputs = 4
SPECIFICATION Spec
INVARIANTS TypeOK FrameFresh QueueFaithful CleanedUp
PROPERTIES GoesOn
CHECK_DEADLOCK FALSE
