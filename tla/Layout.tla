------------------------------- MODULE Layout -------------------------------
(***************************************************************************)
(* The layout pass (src/core/layout.c) as a function from the tree a       *)
(* widget rendered to the rectangles it is drawn in, and the resolution of *)
(* the nodes' styles that comes before it (src/core/render.c).             *)
(*                                                                         *)
(* A text is the sequence of the lengths of its lines.  `count` is what    *)
(* the node's type counts: list items, table rows, tree nodes, form        *)
(* fields, grid columns or the split position; `mode` is a flex's          *)
(* direction and wrapping or a split's orientation.                        *)
(***************************************************************************)
EXTENDS Theme
LOCAL INSTANCE SequencesExt
LOCAL INSTANCE FiniteSetsExt

Rect(x, y, w, h) == [x |-> x, y |-> y, w |-> w, h |-> h]

\* memset(&tree, 0, sizeof(tree)): the style before it is resolved.
NoStyle ==
  [p \in Colours \cup Sizes |-> IF p \in Colours THEN <<0, 0, 0, 0>> ELSE 0]

TopLeft == <<"start", "start">>     \* ANCHOR_TOP_LEFT, the value 0
Absolute == <<"absolute", "absolute">>
Relative == <<"relative", "relative">>

Node(type, class, rect, kids) ==
  [type |-> type, class |-> class, state |-> NoName, rect |-> rect,
   kids |-> kids, text |-> <<>>, count |-> 0, selected |-> 0, mode |-> "row",
   anchor |-> TopLeft, dx |-> 0, dy |-> 0, relative_to |-> NoName,
   z_index |-> 0, overflow |-> "visible", target |-> <<>>, style |-> NoStyle]

-----------------------------------------------------------------------------
(* Styles.                                                                 *)
ResolveNode(node, theme) ==
  LET found == IF node.class = NoName THEN node.style
               ELSE theme_resolve(theme, node.class, NoName,
                                  IF node.state = NoName THEN "normal" ELSE node.state)
      style == IF found.font_size # 0 THEN found ELSE node.style
      Or(v, none, other) == IF v = none THEN other ELSE v
      none == <<0, 0, 0, 0>>
      usual == widgetstyle_default
  IN [node EXCEPT !.style =
       [style EXCEPT !.font_size = Or(@, 0, 14),
                     !.border_width = Or(@, 0, 1),
                     !.fg_color = Or(@, none, usual.fg_color),
                     !.bg_color = Or(@, none, usual.bg_color),
                     !.border_color = Or(@, none, usual.border_color)]]

RECURSIVE resolve_node_styles(_, _)
resolve_node_styles(node, theme) ==
  [ResolveNode(node, theme) EXCEPT
     !.kids = [i \in DOMAIN @ |-> resolve_node_styles(@[i], theme)]]

-----------------------------------------------------------------------------
(* Rectangles.  C's division truncates towards zero.                       *)
Div(n, d) == IF n >= 0 THEN n \div d ELSE -((-n) \div d)

RowHeight(pixel) == IF pixel THEN 30 ELSE 1
Gap(pixel) == IF pixel THEN 8 ELSE 1

Anchored(where, room, size) ==
  CASE where = "start" -> 0
    [] where = "centre" -> Div(room - size, 2)
    [] where = "end" -> room - size

compute_anchor(node, w, h) ==
  [node EXCEPT !.rect.x = Anchored(node.anchor[1], w, node.rect.w) + node.dx,
               !.rect.y = Anchored(node.anchor[2], h, node.rect.h) + node.dy]

clamp_overflow(node, x, y, w, h) ==
  IF node.overflow # "clip" THEN node
  ELSE LET left == Max({node.rect.x, x})
           top == Max({node.rect.y, y})
       IN [node EXCEPT !.rect = Rect(left, top,
                                     Min({node.rect.w, x + w - left}),
                                     Min({node.rect.h, y + h - top}))]

\* A bound of 0 is no bound; the maximum is applied after the minimum.
Bounded(size, lo, hi) ==
  LET grown == IF lo > 0 /\ size < lo THEN lo ELSE size
  IN IF hi > 0 /\ grown > hi THEN hi ELSE grown

apply_min_max(node) ==
  [node EXCEPT
     !.rect.w = Bounded(@, node.style.min_width, node.style.max_width),
     !.rect.h = Bounded(@, node.style.min_height, node.style.max_height)]

measure_text_width(node, pixel) ==
  LET chars == FoldLeft(LAMBDA n, l : n + l, Len(node.text) - 1, node.text)
  IN IF pixel THEN Div(chars * node.style.font_size, 2) ELSE chars

\* A line that fills its row exactly is followed by an empty row.
WrappedRows(length, cells) == IF cells <= 0 THEN length + 1 ELSE 1 + length \div cells

measure_text_height(node, max_w, pixel) ==
  LET font == node.style.font_size
      row == IF pixel THEN font + 8 ELSE 1
      charW == IF pixel THEN Max({font \div 2, 1}) ELSE 1
  IN IF max_w <= 0 THEN row
     ELSE row * FoldLeft(LAMBDA n, l : n + WrappedRows(l, max_w \div charW),
                         0, node.text)

-----------------------------------------------------------------------------
(* Flex and grid containers place their children themselves.               *)
HasText(node) == node.type = "text" /\ node.text # <<>>
IsRow(node) == node.mode # "column"

Wanted(child) == IF child.target # <<>> THEN child.target[1] ELSE child.rect

FixedSize(child, row, pixel) ==
  IF HasText(child) THEN measure_text_width(child, pixel)
  ELSE IF child.target # <<>> \/ child.rect.w > 0
  THEN IF row THEN Wanted(child).w ELSE Wanted(child).h
  ELSE 0

AtLeast(size, lo) == IF lo > 0 /\ size < lo THEN lo ELSE size

\* Slip: a child is placed by the size it asks for, and grows only afterwards.
FlexChildAsAsked(child, room, pixel) ==
  LET wanted == Wanted(child)
  IN [w |-> IF wanted.w <= 0 THEN room ELSE wanted.w,
      h |-> IF wanted.h <= 0 THEN RowHeight(pixel) ELSE wanted.h]

FlexChild(child, room, pixel) ==
  LET wanted == Wanted(child)
      w == IF wanted.w <= 0 THEN room ELSE wanted.w
      h == IF wanted.h <= 0 THEN RowHeight(pixel) ELSE wanted.h
  IN [w |-> AtLeast(w, child.style.min_width),
      h |-> AtLeast(h, child.style.min_height)]

\* In a row `pos`, the top of the line, starts as the left edge.
FlexStep(st, child, node, x, y, w, room, pixel) ==
  LET row == IsRow(node)
      size == FlexChild(child, room, pixel)
      wraps == /\ node.mode = "wrap"
               /\ st.line + size.w > x + w
               /\ st.line > x
      line == IF wraps THEN x ELSE st.line
      pos == IF wraps THEN y + st.high + Gap(pixel) ELSE st.pos
      rect == IF row THEN Rect(line, pos, size.w, size.h)
                     ELSE Rect(x, line, w, size.h)
  IN [pos |-> pos,
      line |-> line + (IF row THEN size.w ELSE size.h) + Gap(pixel),
      high |-> Max({st.high, size.h}),
      kids |-> Append(st.kids, apply_min_max([child EXCEPT !.rect = rect]))]

layout_flex(node, x, y, w, h, pixel) ==
  LET row == IsRow(node)
      avail == IF row THEN w ELSE h
      n == Len(node.kids)
      sizes == [i \in 1..n |-> FixedSize(node.kids[i], row, pixel)]
      growing == Cardinality({i \in 1..n : sizes[i] <= 0})
      fixed == FoldLeft(LAMBDA s, k : s + Max({k, 0}), 0, sizes)
      unit == IF growing = 0 THEN 0
              ELSE Div(avail - fixed - Gap(pixel) * (n - 1), growing)
      room == IF unit > 0 THEN unit ELSE Div(avail, n)
      start == IF row THEN x ELSE y
      done == FoldLeft(LAMBDA st, child : FlexStep(st, child, node, x, y, w, room, pixel),
                       [pos |-> start, line |-> start, high |-> 0, kids |-> <<>>],
                       node.kids)
  IN IF n = 0 THEN node
     ELSE [node EXCEPT !.kids = done.kids,
                       !.rect.w = w,
                       !.rect.h = IF row THEN y + done.high + Gap(pixel) - node.rect.y
                                         ELSE h]

layout_grid(node, x, y, w, h, pixel) ==
  LET cols == Max({node.count, 1})
      n == Len(node.kids)
      gap == Gap(pixel)
      cell == Div(w - gap * (cols - 1), cols)
      Cell(i) == Rect(x + (i % cols) * (cell + gap),
                      y + (i \div cols) * (RowHeight(pixel) + gap),
                      cell, RowHeight(pixel))
      rows == (n + cols - 1) \div cols
  IN IF n = 0 THEN node
     ELSE [node EXCEPT
             !.kids = [i \in 1..n |-> apply_min_max([@[i] EXCEPT !.rect = Cell(i - 1)])],
             !.rect.w = w,
             !.rect.h = rows * (RowHeight(pixel) + gap) - gap]

-----------------------------------------------------------------------------
(* The recursion over the tree.                                            *)
FlowHeight(child, w, pixel) ==
  CASE HasText(child) -> measure_text_height(child, w, pixel)
    [] child.type = "list" /\ child.count > 0 -> RowHeight(pixel) * child.count
    [] child.type \in {"table", "form"} -> RowHeight(pixel) * (child.count + 1)
    [] child.type = "tree" -> RowHeight(pixel) * child.count
    [] child.type = "calendar" -> RowHeight(pixel) * 10
    [] child.type = "gauge" -> RowHeight(pixel) * 2
    [] OTHER -> RowHeight(pixel)

\* The offset is added to the sibling's corner and then once more.
RelativeTo(child, kids) ==
  LET named == {j \in DOMAIN kids : /\ child.relative_to # NoName
                                    /\ kids[j].class = child.relative_to}
      from == IF named = {} THEN child.rect
              ELSE [kids[Min(named)].rect EXCEPT !.x = @ + child.dx, !.y = @ + child.dy]
  IN [child EXCEPT !.rect.x = from.x + child.dx, !.rect.y = from.y + child.dy]

ByZ(kids) ==
  SortSeq([i \in DOMAIN kids |-> i],
          LAMBDA i, j : \/ kids[i].z_index < kids[j].z_index
                        \/ kids[i].z_index = kids[j].z_index /\ i < j)

RECURSIVE layout_node(_, _, _, _, _, _)
layout_node(node, x, y, w, h, pixel) ==
  LET targeted == IF node.target = <<>> THEN node
                  ELSE [node EXCEPT !.rect = node.target[1], !.target = <<>>]
      anchored == IF node.anchor \in {Absolute, Relative} THEN targeted
                  ELSE compute_anchor(targeted, w, h)
      box == clamp_overflow(apply_min_max(anchored), x, y, w, h)
      cx == x + box.rect.x
      cy == y + box.rect.y
      cw == box.rect.w
      ch == box.rect.h
      Flow(st, i) ==
        LET child == st.kids[i]
            tall == FlowHeight(child, cw, pixel)
            done == CASE child.anchor = Absolute ->
                           layout_node(child, cx, cy, cw, ch, pixel)
                      [] child.anchor = Relative ->
                           layout_node(RelativeTo(child, st.kids), cx, cy, cw, ch, pixel)
                      [] OTHER ->
                           layout_node([child EXCEPT !.rect = Rect(cx, st.y, cw, tall)],
                                       cx, st.y, cw, tall, pixel)
        IN [kids |-> [st.kids EXCEPT ![i] = done],
            y |-> IF child.anchor \in {Absolute, Relative} THEN st.y
                  ELSE st.y + done.rect.h]
      bar == RowHeight(pixel)
      across == node.mode = "horizontal"
      split == IF node.count > 0 THEN node.count
               ELSE Div(IF across THEN cw ELSE ch, 2)
      Pane(i) == CASE i = 1 /\ across -> layout_node(box.kids[1], cx, cy, split, ch, pixel)
                   [] i = 1 -> layout_node(box.kids[1], cx, cy, cw, split, pixel)
                   [] i = 2 /\ across ->
                        layout_node(box.kids[2], cx + split + 1, cy, cw - split - 1, ch, pixel)
                   [] i = 2 ->
                        layout_node(box.kids[2], cx, cy + split + 1, cw, ch - split - 1, pixel)
                   [] OTHER -> box.kids[i]
  IN IF w <= 0 \/ h <= 0 THEN node
     ELSE CASE node.type = "container" ->
                 [box EXCEPT !.kids =
                    FoldLeft(Flow, [kids |-> @, y |-> cy], ByZ(@)).kids]
            [] node.type = "flex" -> layout_flex(box, cx, cy, cw, ch, pixel)
            [] node.type = "grid" -> layout_grid(box, cx, cy, cw, ch, pixel)
            [] node.type = "tabs" ->
                 [box EXCEPT !.kids = [i \in DOMAIN @ |->
                    layout_node(@[i], cx, cy + bar, cw, ch - bar, pixel)]]
            [] node.type = "split" ->
                 [box EXCEPT !.kids = [i \in DOMAIN @ |-> Pane(i)]]
            [] OTHER -> box

layout_tree(tree, w, h, pixel) ==
  IF w <= 0 \/ h <= 0 THEN tree
  ELSE layout_node([tree EXCEPT !.rect = Rect(0, 0, w, h)], 0, 0, w, h, pixel)
=============================================================================
