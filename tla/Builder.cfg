SPECIFICATION Spec
CONSTANTS
  RootW = 800
  RootH = 600
  Palette <- MCPalette
  Handles <- MCHandles
  Deltas <- MCDeltas
  Users <- MCUsers
  Starts <- MCStarts
  MaxText = 1
  MaxEdits <- MCMaxEdits
INVARIANTS
  ReferencesValid
  LossIsBounded
