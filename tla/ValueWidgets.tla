---------------------------- MODULE ValueWidgets ---------------------------
(***************************************************************************)
(* The widgets that edit one value: yesno, toggle, calendar, color_picker, *)
(* range_slider, input, password and form, and the disk partitioner, which *)
(* edits a list of them.                                                   *)
(***************************************************************************)
EXTENDS WidgetKit

CONSTANT ChannelMax  \* the largest value of a colour channel, 255 in the code

ASSUME ChannelMaxAssumption == ChannelMax \in Nat \ {0}

yesno_widget_new(default) == [kind |-> "yesno", selected_yes |-> default]
yesno_render(d) == Frame(<<>>, d.selected_yes)

yesno_handle_event(d, e) ==
  CASE e = "esc"   -> Cancelled(d)
    [] e \in {"left", "right"} -> Marked([d EXCEPT !.selected_yes = ~@])
    [] e = "enter" -> event_result_response(d, d.selected_yes)
    [] e = "y"     -> event_result_response(d, TRUE)
    [] e = "n"     -> event_result_response(d, FALSE)
    [] OTHER       -> event_result_unhandled(d)

toggle_widget_new(default) == [kind |-> "toggle", value |-> default]
toggle_render(d) == Frame(<<>>, d.value)

toggle_handle_event(d, e) ==
  CASE e = "esc"   -> Cancelled(d)
    [] e = " "     -> Marked([d EXCEPT !.value = ~@])
    [] IsChar(e) /\ e # " " -> event_result_handled(d)
    [] e = "enter" -> event_result_response(d, d.value)
    [] OTHER       -> event_result_unhandled(d)

---------------------------------------------------------------------------
days_in_month(y, m) ==
  CASE m \in {4, 6, 9, 11} -> 30
    [] m = 2 -> IF (y % 4 = 0) /\ ((y % 100 # 0) \/ (y % 400 = 0)) THEN 29 ELSE 28
    [] OTHER -> 31

(* The widget starts at today's date and never leaves its month.           *)
calendar_widget_new(today) ==
  [kind |-> "calendar", year |-> today[1], month |-> today[2], selected_day |-> today[3]]

calendar_render(d) == Frame(<<>>, <<d.year, d.month, d.selected_day>>)

calendar_handle_event(d, e) ==
  LET dim == days_in_month(d.year, d.month) IN
  CASE e = "esc"   -> Cancelled(d)
    [] e = "left"  -> Marked([d EXCEPT !.selected_day = IF @ > 1 THEN @ - 1 ELSE @])
    [] e = "right" -> Marked([d EXCEPT !.selected_day = IF @ < dim THEN @ + 1 ELSE @])
    [] e = "up"    -> Marked([d EXCEPT !.selected_day = IF @ - 7 >= 1 THEN @ - 7 ELSE 1])
    [] e = "down"  -> Marked([d EXCEPT !.selected_day = IF @ + 7 <= dim THEN @ + 7 ELSE dim])
    [] e = "enter" -> event_result_response(d, <<d.year, d.month, d.selected_day>>)
    [] OTHER       -> event_result_unhandled(d)

(* Red, green and blue are rgb[0..2]; they start in the middle.            *)
color_picker_widget_new ==
  [kind |-> "color_picker", rgb |-> [c \in 0..2 |-> (ChannelMax + 1) \div 2], channel |-> 0]

cp_render(d) == Frame(d.channel, d.rgb)

cp_handle_event(d, e) ==
  CASE e = "esc"   -> Cancelled(d)
    [] e = "up"    -> Marked([d EXCEPT !.channel = IF @ > 0 THEN @ - 1 ELSE @])
    [] e = "down"  -> Marked([d EXCEPT !.channel = IF @ < 2 THEN @ + 1 ELSE @])
    [] e = "left"  -> Marked([d EXCEPT !.rgb[d.channel] = IF @ > 0 THEN @ - 1 ELSE 0])
    [] e = "right" -> Marked([d EXCEPT !.rgb[d.channel] = IF @ < ChannelMax THEN @ + 1 ELSE ChannelMax])
    [] e = "enter" -> event_result_response(d, d.rgb)
    [] OTHER       -> event_result_unhandled(d)

(* The initial value is taken as it is; a move to the right brings it down *)
(* to max, one to the left up to min.                                      *)
range_slider_widget_new(min, max, value) ==
  [kind |-> "range_slider", min |-> min, max |-> max, value |-> value]

rs_render(d) == Frame(<<d.min, d.max>>, d.value)

(* Where rs_render puts the knob on a bar of so many cells; C truncates    *)
(* towards zero.                                                           *)
Truncated(a, b) ==
  LET Size(n) == IF n < 0 THEN -n ELSE n
      q == Size(a) \div Size(b)
  IN IF (a < 0) = (b < 0) THEN q ELSE -q

Knob(d, cells) ==
  IF d.max = d.min THEN 0 ELSE Truncated((d.value - d.min) * (cells - 1), d.max - d.min)

rs_handle_event(d, e) ==
  CASE e = "esc"   -> Cancelled(d)
    [] e = "left"  -> Marked([d EXCEPT !.value = IF @ - 1 >= d.min THEN @ - 1 ELSE d.min])
    [] e = "right" -> Marked([d EXCEPT !.value = IF @ + 1 <= d.max THEN @ + 1 ELSE d.max])
    [] e = "enter" -> event_result_response(d, d.value)
    [] OTHER       -> event_result_unhandled(d)

---------------------------------------------------------------------------
(* password: a text edited at its end.                                     *)
password_widget_new == [kind |-> "password", text |-> <<>>]
password_render(d) == Frame(Len(d.text), d.text)

password_handle_event(d, e) ==
  CASE e = "esc"       -> Cancelled(d)
    [] e = "enter"     -> event_result_response(d, d.text)
    [] IsChar(e)       -> Marked([d EXCEPT !.text = Append(@, e)])
    [] e = "backspace" -> MarkedIf(d.text # <<>>, d, [d EXCEPT !.text = Front0(@)])
    [] OTHER           -> event_result_unhandled(d)

(* input: a text edited at a cursor; "validation" is the set of texts the  *)
(* regular expression and the validation script accept.  Left, Right, Home *)
(* and End move the cursor without setting the dirty flag.                 *)
input_widget_new(default, validation) ==
  [kind |-> "input", text |-> default, cursor |-> Len(default), validation |-> validation]

input_render(d) == Frame(d.cursor, d.text)

Accepted(d) == d.validation = "any" \/ (d.text # <<>> /\ d.text[1] \in {"a", "b", "B"})

input_handle_event(d, e) ==
  CASE e = "esc"       -> Cancelled(d)
    [] e = "enter"     -> IF Accepted(d) THEN event_result_response(d, d.text)
                          ELSE event_result_handled(d)
    [] IsChar(e)       -> Marked([d EXCEPT !.text = InsertAfter(@, d.cursor, e), !.cursor = @ + 1])
    [] e = "backspace" -> MarkedIf(d.cursor > 0, d,
                                   [d EXCEPT !.text = DeleteAt(@, d.cursor), !.cursor = @ - 1])
    [] e = "delete"    -> MarkedIf(d.cursor < Len(d.text), d,
                                   [d EXCEPT !.text = DeleteAt(@, d.cursor + 1)])
    [] e = "left"      -> event_result_handled([d EXCEPT !.cursor = IF @ > 0 THEN @ - 1 ELSE @])
    [] e = "right"     -> event_result_handled([d EXCEPT !.cursor = IF @ < Len(d.text) THEN @ + 1 ELSE @])
    [] e = "home"      -> event_result_handled([d EXCEPT !.cursor = 0])
    [] e = "end"       -> event_result_handled([d EXCEPT !.cursor = Len(d.text)])
    [] OTHER           -> event_result_unhandled(d)

(* form: fields edited at their ends, focused = Len(fields) is the submit  *)
(* button.  (Tab is the session's; only Backtab moves the focus.)          *)
form_widget_new(n) ==
  [kind |-> "form", fields |-> [i \in 1..n |-> <<>>], focused |-> 0]

form_render(d) == Frame(d.focused, d.fields)

form_handle_event(d, e) ==
  LET field == d.focused + 1
      editing == d.focused < Len(d.fields) IN
  CASE e = "esc"       -> Cancelled(d)
    [] e = "backtab"   -> Marked([d EXCEPT !.focused = IF @ > 0 THEN @ - 1 ELSE Len(d.fields)])
    [] e = "enter"     -> IF editing THEN event_result_handled(d)
                          ELSE event_result_response(d, d.fields)
    [] IsChar(e)       -> IF editing THEN Marked([d EXCEPT !.fields[field] = Append(@, e)])
                          ELSE event_result_handled(d)
    [] e = "backspace" -> IF editing /\ d.fields[field] # <<>>
                          THEN Marked([d EXCEPT !.fields[field] = Front0(@)])
                          ELSE event_result_handled(d)
    [] OTHER           -> event_result_unhandled(d)

---------------------------------------------------------------------------
(* disk: partitions followed by free spaces in one list; N, D, R and W     *)
(* edit the partitions, and only a confirmed W answers with them.  A new   *)
(* partition takes part_count + 1 for its number and uses up no free space.*)
disk_widget_new(parts, free_count, readonly) ==
  [kind |-> "disk", partitions |-> [i \in 1..parts |-> [number |-> i, size |-> "given"]],
   free_count |-> free_count, selected |-> 0, readonly |-> readonly,
   mode |-> "main", text |-> <<>>, editing_idx |-> 0]

disk_render(d) ==
  Frame(<<d.free_count, d.selected, d.mode = "main">>, d.partitions)

human_to_bytes(s) == IF s # <<>> /\ s[1] = "5" THEN 5 ELSE 0

DiskCommit(d) ==
  LET done == [d EXCEPT !.text = <<>>, !.mode = "main"]
      parts == Len(d.partitions) IN
  IF human_to_bytes(d.text) = 0 THEN done
  ELSE IF d.mode = "new"
  THEN [done EXCEPT !.partitions = Append(@, [number |-> parts + 1, size |-> d.text]),
                    !.selected = parts]
  ELSE [done EXCEPT !.partitions[d.editing_idx + 1].size = d.text]

DiskInput(d, e) ==
  CASE e = "esc"       -> Marked([d EXCEPT !.text = <<>>, !.mode = "main"])
    [] e = "enter"     -> Marked(DiskCommit(d))
    [] e = "backspace" -> Marked([d EXCEPT !.text = Front0(@)])
    [] IsChar(e)       -> Marked([d EXCEPT !.text = Append(@, e)])
    [] OTHER           -> event_result_unhandled(d)


(* D: the partition goes; if it was the last one the cursor steps back.    *)
DiskDelete(d) ==
  LET parts == Len(d.partitions) - 1 IN
  Marked([d EXCEPT !.partitions = DeleteAt(@, d.selected + 1),
                   !.selected = IF @ >= parts /\ @ > 0 THEN @ - 1 ELSE @])

DiskMain(d, e) ==
  LET parts == Len(d.partitions)
      edit == IsChar(e) /\ ~d.readonly IN
  CASE e = "esc"  -> Cancelled(d)
    [] e = "up"   -> Marked([d EXCEPT !.selected = IF @ > 0 THEN @ - 1 ELSE @])
    [] e = "down" -> Marked([d EXCEPT !.selected = IF @ + 1 < parts + d.free_count THEN @ + 1 ELSE @])
    [] edit /\ e = "q" -> Cancelled(d)
    [] edit /\ e = "n" -> MarkedIf(d.selected >= parts, d,
         [d EXCEPT !.editing_idx = d.selected - parts, !.text = <<>>, !.mode = "new"])
    [] edit /\ e = "d" -> IF d.selected < parts THEN DiskDelete(d) ELSE event_result_handled(d)
    [] edit /\ e = "r" -> MarkedIf(d.selected < parts, d,
         [d EXCEPT !.editing_idx = d.selected, !.text = <<>>, !.mode = "resize"])
    [] edit /\ e = "w" -> Marked([d EXCEPT !.mode = "confirm"])
    [] OTHER -> event_result_unhandled(d)

disk_handle_event(d, e) ==
  CASE d.mode = "confirm" -> IF e = "y" THEN event_result_response(d, d.partitions)
                             ELSE Marked([d EXCEPT !.mode = "main"])
    [] d.mode \in {"new", "resize"} -> DiskInput(d, e)
    [] OTHER -> DiskMain(d, e)
=============================================================================
