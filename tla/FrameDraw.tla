----------------------------- MODULE FrameDraw -----------------------------
(***************************************************************************)
(* What a session draws with the theme in use (ThemeUse): the frame that   *)
(* the styled tree becomes (Layout) and what of it reaches a terminal      *)
(* (TerminalRenderer).  The trees are styled by resolve_node_styles.       *)
(***************************************************************************)
EXTENDS ThemeUse, TerminalRenderer
LOCAL INSTANCE SequencesExt

NoTree == Node("none", NoName, Rect(0, 0, 0, 0), <<>>)

\* The frame that is drawn of a styled tree.
Frame(c) == layout_tree(tree[c], surface[c].w, surface[c].h, surface[c].pixel)

-----------------------------------------------------------------------------
(* Properties.                                                             *)

\* The nodes of the frame a session draws next, down to the grandchildren
\* of the root.
Drawn(c) ==
  LET Kids(node) == {node.kids[i] : i \in DOMAIN node.kids}
      root == Frame(c)
  IN IF pc[c] # "layout" THEN {}
     ELSE {root} \cup Kids(root) \cup UNION {Kids(kid) : kid \in Kids(root)}

\* The children of a flex row that does not wrap, and of a column, follow
\* each other without overlapping, whatever minimum sizes the theme gives.
FlexInOrder ==
  \A c \in Sessions : \A node \in Drawn(c) : node.type = "flex" =>
    \A i, j \in DOMAIN node.kids : i < j =>
      LET this == node.kids[i].rect
          that == node.kids[j].rect
      IN /\ node.mode = "row" => this.x + this.w < that.x
         /\ node.mode = "column" => this.y + this.h < that.y

\* src/spec.md:338: "`RNODE_CONTAINER` distributes available space among
\* children according to their `weight` values."  No two children that flow
\* in a container are given the same place.
\* Refuted by TLC: layout_node puts each in the corner.
ContainerDistributes ==
  LET Flows(kid) == kid.anchor \notin {Absolute, Relative} /\ kid.rect.w > 0 /\ kid.rect.h > 0
      Apart(a, b) == \/ a.x + a.w <= b.x \/ b.x + b.w <= a.x
                     \/ a.y + a.h <= b.y \/ b.y + b.h <= a.y
  IN \A c \in Sessions : \A node \in Drawn(c) : node.type = "container" =>
       \A i, j \in DOMAIN node.kids :
         i < j /\ Flows(node.kids[i]) /\ Flows(node.kids[j])
           => Apart(node.kids[i].rect, node.kids[j].rect)

\* What goes to the terminal (a surface without pixels) in the frame.
Written(c) ==
  IF pc[c] # "layout" \/ surface[c].pixel THEN {}
  ELSE render_tree_to_buf(Frame(c), surface[c].w, surface[c].h)

\* However the layout overlaps or overflows, and whatever sizes the theme
\* asks for, nothing that is fitted to a node passes the right or the bottom
\* edge of the screen, and only the second row of a gauge, calendars, cursors
\* and toasts are below it (unless a request places the divider of two panes
\* itself).
FittedInside ==
  \A c \in Sessions :
    (\A node \in Drawn(c) : node.type = "split" => node.count = 0) =>
      \A d \in Written(c) : d.kind # "over" =>
        /\ d.kind = "cells" => d.x + d.w <= surface[c].w
        /\ d.y + d.h <= surface[c].h

\* A list that writes any of its rows writes the one of its selected item, in
\* however few rows its parents leave it.  (Another node may be drawn over
\* that row: see ContainerDistributes.)
ScrollsToSelected ==
  \A c \in Sessions : LET rows == {d.shows : d \in {d \in Written(c) : d.shows # <<>>}}
                      IN \A r \in rows : \E s \in rows : s.list = r.list /\ s.selected


\* src/spec.md:342: "**Surface constraints** -- nodes are clamped to the
\* available surface area."  Nothing is written outside of the screen.
\* Refuted by TLC: draw_calendar does not look at the height.
ClampedToSurface ==
  \A c \in Sessions : \A d \in Written(c) :
    /\ 0 <= d.x /\ d.x + d.w <= surface[c].w
    /\ 0 <= d.y /\ d.y + d.h <= surface[c].h

=============================================================================
