CONSTANTS
  Width = 1
  Heights = {3, 4}
  Default = 3
  Rows = 2
  Leaf = "TEXT"
  Style <- RowStyle
  QueueSize = 4
  DeadZone = 1
  Keys <- SomeKeys
  Pastes <- SomePastes
  MaxInputs = 5
SPECIFICATION Spec
INVARIANTS FrameCurrent
PROPERTIES DragBracketed
CHECK_DEADLOCK FALSE
