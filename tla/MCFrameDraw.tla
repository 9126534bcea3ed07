---------------------------- MODULE MCFrameDraw ----------------------------
(* A small instance of FrameDraw for TLC.                                  *)
EXTENDS FrameDraw

Fade == <<[name |-> "fade-in", keyframes |-> TRUE], [name |-> "odd", keyframes |-> FALSE]>>

\* Theme files: `min` is the minimum width they ask a list to have, `border`
\* the width of its border.
File(min, border, animations, extends) ==
  [present |-> TRUE, vars |-> ("accent" :> Text(<<175, 215, 0>>)), extends |-> extends,
   animations |-> animations,
   widgets |-> <<Selector("list", NoName, NoName,
                          [min_width |-> min, fg_color |-> Call("lighten", Var("accent"))]),
                 Selector("list", NoName, "focused", [border_width |-> border]),
                 Selector("list", "item", "selected", [fg_color |-> Var("accent")])>>]
Narrow(most, extends) ==
  [present |-> TRUE, vars |-> <<>>, extends |-> extends, animations |-> <<>>,
   widgets |-> <<Selector("text", NoName, NoName, [min_width |-> 3, max_width |-> most])>>]
Plain == Narrow(99999, <<>>)
Both == Narrow(7, <<Plain, File(3, 3, <<>>, <<>>)>>)

Disk(base, others, more, app, user, profile, packs) ==
  [base |-> base, others |-> others, more |-> more, app |-> app, user |-> user,
   profile |-> profile, plugins |-> packs]

SomeDisks ==
  {Disk(File(2, 2, Fade, <<Both, Absent>>), Absent, Absent, File(4, 1, <<>>, <<>>), Absent,
        File(6, 4, <<>>, <<>>), Plain),
   Disk(Absent, Plain, Plain, Absent, File(5, 2, <<>>, <<>>), Plain, Plain),
   Disk(Absent, Absent, Absent, Absent, Plain, Absent, Plain)}

\* A user who wants the border of the focused list to be one wide, which
\* refutes UserOverrides.
UserDisks ==
  {Disk(File(2, 2, <<>>, <<>>), Absent, Absent, Absent, user, Absent, Absent) :
     user \in {Absent, File(4, 3, <<>>, <<>>), File(4, 1, <<>>, <<>>)}}

At(x, y, w, h) == Rect(x, y, w, h)
Words(rect) == [Node("text", "text", rect, <<>>) EXCEPT !.text = <<11, 0>>]
Items(rect) == [Node("list", "list", rect, <<>>) EXCEPT !.count = 3, !.selected = 1]
Other(type, rect) == Node(type, NoName, rect, <<>>)
Zero == At(0, 0, 0, 0)

Three(last) == <<Items(At(0, 0, 1, 1)), Words(Zero), Other(last, At(0, 0, 3, 2))>>
Placed ==
  <<[Items(At(1, 1, 2, 1)) EXCEPT !.anchor = Absolute, !.z_index = 2],
    [Words(At(0, 0, 2, 1)) EXCEPT !.anchor = Relative, !.relative_to = "list", !.dx = 1],
    [Other("gauge", At(0, 0, 2, 1)) EXCEPT !.anchor = <<"centre", "end">>, !.overflow = "clip"]>>

Flex(mode, last) == [Node("flex", NoName, Zero, Three(last)) EXCEPT !.mode = mode]

Halves == [Node("split", NoName, At(0, 0, 5, 3), <<Flex("row", "input"), Flex("column", "table")>>)
             EXCEPT !.mode = "horizontal"]

Stacked == Node("container", "list", Zero, <<Words(Zero), Halves>>)
Free == Node("container", NoName, Zero, <<Words(Zero)>> \o Placed \o <<Flex("wrap", "input")>>)
Grid == [Node("grid", NoName, At(0, 0, 40, 40), Three("input")) EXCEPT !.count = 2]
Panes == [Node("split", NoName, Zero,
               <<Node("tabs", NoName, At(0, 0, 40, 80), <<Free>>),
                 [Node("split", NoName, At(0, 0, 40, 80), <<Grid, Words(Zero)>>)
                    EXCEPT !.mode = "vertical", !.count = 40]>>)
            EXCEPT !.mode = "horizontal"]

SomeScenes == {[tree |-> Stacked, w |-> 5, h |-> 4, pixel |-> FALSE],
               [tree |-> Panes, w |-> 90, h |-> 90, pixel |-> TRUE]}

\* A month on a terminal of four rows, which refutes ClampedToSurface.
SmallScreen == {[tree |-> Node("container", NoName, Zero, <<Other("calendar", Zero)>>),
                 w |-> 24, h |-> 4, pixel |-> FALSE]}
=============================================================================
