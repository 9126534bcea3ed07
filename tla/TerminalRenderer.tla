-------------------------- MODULE TerminalRenderer --------------------------
(***************************************************************************)
(* What the frame of a laid out tree writes on a terminal of w columns and *)
(* h rows (src/backend/terminal/renderer.c): the cells of each piece, not  *)
(* what is in them.  render_node adds a node's corner to its parent's and  *)
(* cuts its size to what is left of the parent's; the pieces that are      *)
(* given that size keep within it, the lines that are printed as they are  *)
(* do not.                                                                 *)
(*                                                                         *)
(* Every node is drawn, for the root's parent counts as dirty; animations, *)
(* which nothing starts, are left out.  The widgets' containers have a     *)
(* border and no padding.                                                  *)
(***************************************************************************)
EXTENDS Layout
LOCAL INSTANCE FiniteSetsExt

\* A piece of kind "cells" has the size it is given, a "line" is as wide as
\* its text (w is then 0) and "over" may be written below its node as well.
\* `shows` tells the row of a list from the rest.
Piece(kind, x, y, w, h, shows) ==
  [kind |-> kind, x |-> x, y |-> y, w |-> w, h |-> h, shows |-> shows]
Cells(x, y, w, h) == Piece("cells", x, y, w, h, <<>>)
Line(x, y) == Piece("line", x, y, 0, 1, <<>>)
Over(x, y, w, h) == Piece("over", x, y, w, h, <<>>)

draw_box(x, y, w, h) == IF w < 2 \/ h < 2 THEN {} ELSE {Cells(x, y, w, h)}

fill_rect(x, y, w, h) == IF w <= 0 \/ h <= 0 THEN {} ELSE {Cells(x, y, w, h)}

\* Lines are broken at the last word that fits (inside a longer word at w) and
\* padded to w, and end with the h-th; those below the text are blank.
draw_text_wrapped(x, y, w, h) == {Cells(x, y, w, h)}

\* The row with one item of the list in it.  Labels are cut at w - 2
\* columns; if that is less than none, they are not cut at all.
ItemRow(node, x, y, w, i, item) ==
  Piece(IF w >= 2 THEN "cells" ELSE "line", x, y + i, IF w >= 2 THEN w ELSE 0, 1,
        [list |-> <<x, y, node.count>>, item |-> item, selected |-> item = node.selected])

\* No scroll position is kept: it follows from the selected item.
draw_list(node, x, y, w, h) ==
  LET scroll == IF node.selected >= h THEN node.selected - h + 1 ELSE 0
  IN {IF i + scroll < node.count THEN ItemRow(node, x, y, w, i, i + scroll)
      ELSE Cells(x, y + i, w, 1) : i \in 0..h - 1}

\* Title, weekdays and up to six weeks, whatever the height.
draw_calendar(x, y, w) == {Over(x, y, w, 8)}

\* The text behind "> " is cut at w - 4 columns, like the labels of a list.
Input(x, y, w) == {Cells(x, y, w, 1)} \cup (IF w >= 4 THEN {} ELSE {Line(x, y)})

\* The types with a line for each of `count`, a header above (a table) or a
\* button below them (a form).
Lines(node, x, y, h) ==
  {Line(x, y + row) :
     row \in IF node.type \in {"table", "form"} THEN 0..Min({node.count, h - 1})
             ELSE 0..Min({node.count, h}) - 1}

Leaf(node, x, y, w, h) ==
  CASE node.type \in {"text", "rich_text", "markdown"} -> draw_text_wrapped(x, y, w, h)
    [] node.type = "list"      -> draw_list(node, x, y, w, h)
    [] node.type = "input"     -> Input(x, y, w)
    [] node.type \in {"table", "form", "tree", "context_menu"} -> Lines(node, x, y, h)
    [] node.type = "separator" -> {IF node.mode = "horizontal" THEN Cells(x, y, w, 1)
                                   ELSE Cells(x, y, 1, h)}
    [] node.type = "gauge"     -> {Line(x, y), Over(x, y + 1, w, 1)}
    [] node.type = "calendar"  -> draw_calendar(x, y, w)
    [] node.type = "cursor"    -> {Over(x + node.dx, y + node.dy, 1, 1)}
    [] node.type = "toast"     -> {Over(x, y + h - 2, 0, 1)}
    [] OTHER                   -> {Line(x, y)}

-----------------------------------------------------------------------------

Cut(rect, max_w, max_h) ==
  [w |-> Min({rect.w, max_w - rect.x}), h |-> Min({rect.h, max_h - rect.y})]

RECURSIVE render_node(_, _, _, _, _)
render_node(node, off_x, off_y, max_w, max_h) ==
  LET x == off_x + node.rect.x
      y == off_y + node.rect.y
      size == Cut(node.rect, max_w, max_h)
      w == size.w
      h == size.h
      Kids(dy, kh) == UNION {render_node(node.kids[i], x, y + dy, w, kh) : i \in DOMAIN node.kids}
      across == node.mode = "horizontal"
      sp == IF node.count > 0 THEN node.count ELSE IF across THEN w \div 2 ELSE h \div 2
      Pane(i) ==
        CASE i = 1 /\ across -> render_node(node.kids[1], x, y, sp, h)
          [] i = 1           -> render_node(node.kids[1], x, y, w, sp)
          [] i = 2 /\ across -> render_node(node.kids[2], x + sp + 1, y, w - sp - 1, h)
          [] i = 2           -> render_node(node.kids[2], x, y + sp + 1, w, h - sp - 1)
          [] OTHER           -> {}
      divider == IF across THEN Cells(x + sp, y, 1, h) ELSE Cells(x, y + sp, w, 1)
  IN IF node.rect.w <= 0 \/ node.rect.h <= 0 \/ w <= 0 \/ h <= 0 THEN {}
     ELSE CASE node.type = "container" ->
                 draw_box(x, y, w, h) \cup fill_rect(x + 1, y + 1, w - 2, h - 2) \cup Kids(0, h)
            [] node.type \in {"flex", "grid"} -> Kids(0, h)
            [] node.type = "tabs" ->
                 {Line(x, y)} \cup (IF h > 1 THEN Kids(1, h - 1) ELSE {})
            [] node.type = "split" -> {divider} \cup UNION {Pane(i) : i \in DOMAIN node.kids}
            [] OTHER -> Leaf(node, x, y, w, h)

render_tree_to_buf(tree, w, h) == render_node(tree, 0, 0, w, h)
=============================================================================
