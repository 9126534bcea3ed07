--------------------------- MODULE MCGCoreBackend ---------------------------
(* A menu of two choices, one row high each, in windows of three heights.  *)
(* A pixel of the dead zone stands for the code's five.                    *)
EXTENDS GCoreBackend

RowStyle == [font_size |-> 1, top |-> 0, bottom |-> 0, margin |-> 0, border |-> 0]
SomeKeys == {"Return", "Escape", "Up", "Down", "Tab", "a", "Menu"}
SomePastes == {0, 2, 4}
=============================================================================
