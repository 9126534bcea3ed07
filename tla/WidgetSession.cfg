SPECIFICATION Spec
CONSTANTS
  Kinds <- AllKinds
  MaxText = 2
  MaxCount = 3
  MaxOutput = 2
  ChannelMax = 2
  VisibleH = 2
  MaxChoices = 2
INVARIANTS
  
  AnswerIsShown
  
  EditorInverse
PROPERTIES
  KeepsContract
CHECK_DEADLOCK FALSE
