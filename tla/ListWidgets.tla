---------------------------- MODULE ListWidgets ----------------------------
(***************************************************************************)
(* The widgets that pick from a list: menu, radio_group, context_menu,     *)
(* checklist, filter, multiselect, table, tree and file_picker.  Choices   *)
(* are numbered from 0 as in the code.                                     *)
(***************************************************************************)
EXTENDS WidgetKit

(* The three plain lists: one cursor, no marks.  A list may have been made *)
(* without choices, which Enter does not look for.                         *)
menu_widget_new(count, def) ==
  [kind |-> "menu", count |-> count, selected |-> IF def < count THEN def ELSE 0]

menu_render(d) == Frame(<<d.count, d.selected>>, IF d.count = 0 THEN -1 ELSE d.selected)

(* Mutant of menu_handle_event: moving the cursor does not ask for a       *)
(* redraw.                                                                 *)
MenuSilent(d, e) ==
  IF e = "down" /\ d.selected + 1 < d.count
  THEN event_result_handled([d EXCEPT !.selected = @ + 1])
  ELSE IF e = "enter" THEN event_result_response(d, d.selected)
  ELSE Cancelled(d)

menu_handle_event(d, e) ==
  CASE e = "esc"   -> Cancelled(d)
    [] e = "up"    -> MarkedIf(d.selected > 0, d, [d EXCEPT !.selected = @ - 1])
    [] e = "down"  -> MarkedIf(d.selected + 1 < d.count, d, [d EXCEPT !.selected = @ + 1])
    [] e = "enter" -> IF d.count = 0 THEN Undefined(event_result_response(d, d.selected))
                      ELSE event_result_response(d, d.selected)
    [] OTHER       -> event_result_unhandled(d)

radio_group_widget_new(count, def) == [menu_widget_new(count, def) EXCEPT !.kind = "radio_group"]
radio_group_render(d) == menu_render(d)
radio_group_handle_event(d, e) == menu_handle_event(d, e)

context_menu_widget_new(count) == [menu_widget_new(count, 0) EXCEPT !.kind = "context_menu"]
cm_render(d) == menu_render(d)
cm_handle_event(d, e) == menu_handle_event(d, e)

---------------------------------------------------------------------------
(* checklist: a set of marks kept between min_sel and max_sel, where the   *)
(* defaults may start outside that range.                                  *)
checklist_widget_new(count, min, max, defaults) ==
  [kind |-> "checklist", count |-> count, selected |-> 0, min_sel |-> min,
   max_sel |-> IF max > 0 THEN max ELSE count, checked |-> defaults]

checklist_render(d) == Frame(<<d.count, d.selected>>, d.checked)

(* Space: a mark goes only while more than min_sel are left and comes only *)
(* while fewer than max_sel are there.                                     *)
Toggled(marks, i, min, max) ==
  IF i \in marks THEN IF Cardinality(marks) > min THEN marks \ {i} ELSE marks
  ELSE IF Cardinality(marks) < max THEN marks \cup {i} ELSE marks

Confirm(d, marks) ==
  IF Cardinality(marks) \in d.min_sel..d.max_sel
  THEN event_result_response(d, marks) ELSE event_result_handled(d)

checklist_handle_event(d, e) ==
  CASE e = "esc"   -> Cancelled(d)
    [] e = "up"    -> MarkedIf(d.selected > 0, d, [d EXCEPT !.selected = @ - 1])
    [] e = "down"  -> MarkedIf(d.selected + 1 < d.count, d, [d EXCEPT !.selected = @ + 1])
    [] e = " "     -> IF d.count = 0 THEN Undefined(Marked(d))
                      ELSE Marked([d EXCEPT !.checked = Toggled(@, d.selected, d.min_sel, d.max_sel)])
    [] IsChar(e) /\ e # " " -> event_result_handled(d)
    [] e = "enter" -> Confirm(d, d.checked)
    [] OTHER       -> event_result_unhandled(d)

---------------------------------------------------------------------------
(* filter and multiselect: what matches the query is computed by render,   *)
(* never by handle_event, so between a key and the next frame the list the *)
(* handler consults is the one last drawn.                                 *)
filter_widget_new(choices) ==
  [kind |-> "filter", choices |-> choices, text |-> <<>>, selected |-> 0, filtered |-> <<>>]

filter_update(d) ==
  LET found == Matching(d.choices, d.text) IN
  [d EXCEPT !.filtered = found, !.selected = ClampTo(@, Len(found))]

Highlighted(list, i) == IF i < Len(list) THEN list[i + 1] ELSE 0

filter_render(d) ==
  Frame(<<d.text, d.filtered, d.selected>>, Highlighted(d.filtered, d.selected))

(* Mutant of filter_handle_event: Enter takes the row of the whole list    *)
(* the cursor stands on, not the row of the filtered one.                  *)
FilterUnfiltered(d, e) ==
  CASE IsChar(e)   -> Marked([d EXCEPT !.text = Append(@, e), !.selected = 0])
    [] e = "enter" -> event_result_response(d, d.selected + 1)
    [] OTHER       -> Cancelled(d)

filter_handle_event(d, e) ==
  CASE e = "esc"   -> Cancelled(d)
    [] e = "up"    -> MarkedIf(d.selected > 0, d, [d EXCEPT !.selected = @ - 1])
    [] e = "down"  -> MarkedIf(d.selected + 1 < Len(d.filtered), d, [d EXCEPT !.selected = @ + 1])
    [] e = "enter" -> IF d.selected < Len(d.filtered)
                      THEN event_result_response(d, d.filtered[d.selected + 1])
                      ELSE event_result_handled(d)
    [] IsChar(e)   -> Marked([d EXCEPT !.text = Append(@, e), !.selected = 0])
    [] e = "backspace" -> MarkedIf(d.text # <<>>, d, [d EXCEPT !.text = Front0(@), !.selected = 0])
    [] OTHER       -> event_result_unhandled(d)

multiselect_widget_new(choices, min, max) ==
  [kind |-> "multiselect", choices |-> choices, text |-> <<>>, cursor |-> 0, filtered |-> <<>>,
   min_sel |-> min, max_sel |-> IF max > 0 THEN max ELSE Len(choices), chosen |-> {}]

ms_update(d) ==
  LET found == Matching(d.choices, d.text) IN
  [d EXCEPT !.filtered = found, !.cursor = ClampTo(@, Len(found))]

multiselect_render(d) ==
  Frame(<<d.text, d.filtered, d.cursor>>, d.chosen)

multiselect_handle_event(d, e) ==
  CASE e = "esc"   -> Cancelled(d)
    [] e = "up"    -> MarkedIf(d.cursor > 0, d, [d EXCEPT !.cursor = @ - 1])
    [] e = "down"  -> MarkedIf(d.cursor + 1 < Len(d.filtered), d, [d EXCEPT !.cursor = @ + 1])
    [] e = " "     -> MarkedIf(d.cursor < Len(d.filtered), d,
                               [d EXCEPT !.chosen = Toggled(@, Highlighted(d.filtered, d.cursor),
                                                            d.min_sel, d.max_sel)])
    [] IsChar(e) /\ e # " " -> Marked([d EXCEPT !.text = Append(@, e), !.cursor = 0])
    [] e = "backspace" -> MarkedIf(d.text # <<>>, d, [d EXCEPT !.text = Front0(@), !.cursor = 0])
    [] e = "enter" -> Confirm(d, d.chosen)
    [] OTHER       -> event_result_unhandled(d)

---------------------------------------------------------------------------
(* table and tree.  The tree the factory builds has no children below its  *)
(* nodes; child_count stays a parameter for callers that give it some.     *)
table_widget_new(rows, cols) ==
  [kind |-> "table", row_count |-> rows, header_count |-> cols,
   selected_row |-> 0, selected_col |-> 0]

table_render(d) ==
  Frame(<<d.row_count, d.header_count>>, <<d.selected_row, d.selected_col>>)

table_handle_event(d, e) ==
  CASE e = "esc"   -> Cancelled(d)
    [] e = "up"    -> Marked([d EXCEPT !.selected_row = IF @ > 0 THEN @ - 1 ELSE @])
    [] e = "down"  -> Marked([d EXCEPT !.selected_row = IF @ + 1 < d.row_count THEN @ + 1 ELSE @])
    [] e = "left"  -> Marked([d EXCEPT !.selected_col = IF @ > 0 THEN @ - 1 ELSE @])
    [] e = "right" -> Marked([d EXCEPT !.selected_col = IF @ + 1 < d.header_count THEN @ + 1 ELSE @])
    [] e = "enter" -> IF d.selected_row < d.row_count /\ d.selected_col < d.header_count
                      THEN event_result_response(d, <<d.selected_row, d.selected_col>>)
                      ELSE event_result_handled(d)
    [] OTHER       -> event_result_unhandled(d)

tree_widget_new(child_count) ==
  [kind |-> "tree", child_count |-> child_count, expanded |-> {}, flat |-> <<>>, cursor |-> 0]

(* The rows tree_render flattens: a node, then its children if it is open; *)
(* child j of any node gets the index node_count + j.                      *)
Flatten(d) ==
  LET nodes == Len(d.child_count)
      Rows[i \in 0..nodes] ==
        IF i = 0 THEN <<>>
        ELSE Rows[i - 1] \o <<i - 1>>
             \o (IF i \in d.expanded THEN [j \in 1..d.child_count[i] |-> nodes + j - 1] ELSE <<>>)
  IN Rows[nodes]

tree_render(d) == Frame(<<d.child_count, d.expanded>>, "null")

tree_handle_event(d, e) ==
  LET idx == IF d.cursor < Len(d.flat) THEN d.flat[d.cursor + 1] + 1 ELSE 0
      parent == idx \in DOMAIN d.child_count /\ idx # 0 /\ d.child_count[idx] > 0
      flip == IF idx \in d.expanded THEN d.expanded \ {idx} ELSE d.expanded \cup {idx} IN
  CASE e = "esc"   -> event_result_response(d, "null")
    [] e = "up"    -> Marked([d EXCEPT !.cursor = IF @ > 0 THEN @ - 1 ELSE @])
    [] e = "down"  -> Marked([d EXCEPT !.cursor = IF @ + 1 < Len(d.flat) THEN @ + 1 ELSE @])
    [] e \in {"enter", " "} -> IF parent THEN Marked([d EXCEPT !.expanded = flip])
                               ELSE event_result_handled(d)
    [] OTHER       -> event_result_unhandled(d)

---------------------------------------------------------------------------
(* file_picker: Listing is the file system it walks, the entries of each   *)
(* directory that pass the extension filter; a directory without a listing *)
(* cannot be opened.  current_dir is the list of names appended to the     *)
(* start directory, ".." included: the code never normalises it.           *)
Listing ==
  [top |-> <<"..", "sub", "shut", "file">>, sub |-> <<"..", "note">>]
Directories == {"..", "sub", "shut"}

Descend(dir, name) == IF name = ".." THEN "top" ELSE name
Resolve(path) ==
  LET At[i \in 0..Len(path)] == IF i = 0 THEN "top" ELSE Descend(At[i - 1], path[i])
  IN At[Len(path)]

(* fp_populate returns before the clamp when opendir fails.                *)
fp_populate(d) ==
  LET here == Resolve(d.current_dir) IN
  IF here \in DOMAIN Listing
  THEN [d EXCEPT !.entries = Listing[here], !.selected = ClampTo(@, Len(Listing[here]))]
  ELSE [d EXCEPT !.entries = <<>>]

file_picker_widget_new(start) ==
  fp_populate([kind |-> "file_picker", current_dir |-> start, entries |-> <<>>, selected |-> 0])

file_picker_render(d) ==
  Frame(<<d.current_dir, d.entries, d.selected>>,
        IF d.selected < Len(d.entries) THEN Append(d.current_dir, d.entries[d.selected + 1]) ELSE <<>>)

file_picker_handle_event(d, e) ==
  LET name == d.entries[d.selected + 1] IN
  CASE e = "esc"   -> Cancelled(d)
    [] e = "up"    -> MarkedIf(d.selected > 0, d, [d EXCEPT !.selected = @ - 1])
    [] e = "down"  -> MarkedIf(d.selected + 1 < Len(d.entries), d, [d EXCEPT !.selected = @ + 1])
    [] e = "enter" -> IF d.selected >= Len(d.entries) THEN event_result_handled(d)
                      ELSE IF name \in Directories
                      THEN Marked(fp_populate([d EXCEPT !.current_dir = Append(@, name)]))
                      ELSE event_result_response(d, Append(d.current_dir, name))
    [] e = "backspace" -> MarkedIf(d.current_dir # <<>>, d,
                                   fp_populate([d EXCEPT !.current_dir = Front0(@)]))
    [] OTHER       -> event_result_unhandled(d)
=============================================================================
