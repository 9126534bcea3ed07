CONSTANTS
  Sessions = {s1}
  Controls = {c1}
  Main = main
  Nobody = nobody
  Scenes <- SomeScenes
  Blank <- NoTree
  StyleRoot <- ResolveNode
  StyleChild <- resolve_node_styles
  Disks <- SomeDisks
  ThemePath = TRUE
  MaxEdits = 1
  MaxOps = 2
SPECIFICATION Spec
INVARIANTS OverridesWin TidyAtRest FlexInOrder 
CHECK_DEADLOCK FALSE
