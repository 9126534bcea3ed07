---------------------------- MODULE EditorWidgets --------------------------
(***************************************************************************)
(* The larger widgets: text_editor, terminal_emulator, progress,           *)
(* macro_recorder (with the recorder it drives) and widget_builder.        *)
(***************************************************************************)
EXTENDS WidgetKit

CONSTANT VisibleH  \* the rows of text a frame of the editor has room for

ASSUME VisibleHAssumption == VisibleH \in Nat \ {0}

(* text_editor: lines is never empty; row and col count from 0.            *)
text_editor_widget_new(lines) ==
  [kind |-> "text_editor", lines |-> lines, row |-> 0, col |-> Len(lines[1]), scroll |-> 0]

te_clamp_cursor(d) ==
  LET row == IF d.row >= Len(d.lines) THEN Len(d.lines) - 1 ELSE d.row
      len == Len(d.lines[row + 1])
      top == IF row < d.scroll THEN row ELSE d.scroll IN
  [d EXCEPT !.row = row, !.col = IF @ > len THEN len ELSE @,
            !.scroll = IF row >= top + VisibleH THEN row - VisibleH + 1 ELSE top]

text_editor_render(d) ==
  Frame(<<d.row, d.col, d.scroll>>, d.lines)

Line(d) == d.lines[d.row + 1]
At(d, row, col) == te_clamp_cursor([d EXCEPT !.row = row, !.col = col])

(* Cursor keys: every one but Home and End clamps the cursor afterwards.   *)
EditorMove(d, e) ==
  CASE e = "up"    -> At(d, IF d.row > 0 THEN d.row - 1 ELSE 0, d.col)
    [] e = "down"  -> At(d, IF d.row + 1 < Len(d.lines) THEN d.row + 1 ELSE d.row, d.col)
    [] e = "left"  -> IF d.col > 0 THEN At(d, d.row, d.col - 1)
                      ELSE IF d.row > 0 THEN At(d, d.row - 1, Len(d.lines[d.row])) ELSE At(d, d.row, 0)
    [] e = "right" -> IF d.col < Len(Line(d)) THEN At(d, d.row, d.col + 1)
                      ELSE IF d.row + 1 < Len(d.lines) THEN At(d, d.row + 1, 0) ELSE At(d, d.row, d.col)
    [] e = "home"  -> [d EXCEPT !.col = 0]
    [] e = "end"   -> [d EXCEPT !.col = Len(Line(d))]
    [] e = "pageup" -> At(d, IF d.row > VisibleH THEN d.row - VisibleH ELSE 0, d.col)
    [] e = "pagedown" -> At(d, IF d.row + VisibleH < Len(d.lines) THEN d.row + VisibleH
                               ELSE Len(d.lines) - 1, d.col)

(* Line i and the one below it become one line.                            *)
Joined(lines, i) ==
  DeleteAt([lines EXCEPT ![i] = @ \o lines[i + 1]], i + 1)

EditorEnter(d) ==
  [d EXCEPT !.lines = InsertAfter([@ EXCEPT ![d.row + 1] = SubSeq(@, 1, d.col)], d.row + 1,
                                  SubSeq(Line(d), d.col + 1, Len(Line(d)))),
            !.row = @ + 1, !.col = 0]

(* Mutant of EditorBackspace: joining two lines leaves the cursor in       *)
(* column 0 instead of at the seam.                                        *)
BackspaceLosesSeam(d) ==
  IF d.col > 0 THEN [d EXCEPT !.lines[d.row + 1] = DeleteAt(@, d.col), !.col = @ - 1]
  ELSE IF d.row > 0 THEN [d EXCEPT !.lines = Joined(@, d.row), !.row = @ - 1]
  ELSE d

EditorBackspace(d) ==
  IF d.col > 0 THEN [d EXCEPT !.lines[d.row + 1] = DeleteAt(@, d.col), !.col = @ - 1]
  ELSE IF d.row > 0
  THEN [d EXCEPT !.lines = Joined(@, d.row), !.row = @ - 1, !.col = Len(d.lines[d.row])]
  ELSE d

EditorDelete(d) ==
  IF d.col < Len(Line(d)) THEN Marked([d EXCEPT !.lines[d.row + 1] = DeleteAt(@, d.col + 1)])
  ELSE MarkedIf(d.row + 1 < Len(d.lines), d, [d EXCEPT !.lines = Joined(@, d.row + 1)])

(* Ctrl-D: the line goes, unless it is the only one.                       *)
EditorKill(d) ==
  MarkedIf(Len(d.lines) > 1, d,
           [d EXCEPT !.lines = DeleteAt(@, d.row + 1), !.col = 0,
                     !.row = IF @ >= Len(d.lines) - 1 THEN Len(d.lines) - 2 ELSE @])

EditorType(d, e) == [d EXCEPT !.lines[d.row + 1] = InsertAfter(@, d.col, e), !.col = @ + 1]

(* Ctrl-S writes the file and changes nothing here; Esc answers with the   *)
(* text.                                                                   *)
text_editor_handle_event(d, e) ==
  CASE e = "esc"       -> event_result_response(d, d.lines)
    [] e \in {"up", "down", "left", "right", "home", "end", "pageup", "pagedown"} ->
                          Marked(EditorMove(d, e))
    [] e = "delete"    -> EditorDelete(d)
    [] e = "enter"     -> Marked(EditorEnter(d))
    [] e = "backspace" -> Marked(EditorBackspace(d))
    [] e = "^s"        -> Marked(d)
    [] e = "^d"        -> EditorKill(d)
    [] Printable(e)    -> Marked(EditorType(d, e))
    [] OTHER           -> event_result_unhandled(d)

---------------------------------------------------------------------------
(* terminal_emulator: a child on a pseudo terminal.  Only render reads the *)
(* child's output and notices its end; search is a second key mode.        *)
(* unread and alive are the child's side: output not yet read, and whether *)
(* it runs.                                                                *)
terminal_emulator_widget_new ==
  [kind |-> "terminal_emulator", sb_len |-> 0, running |-> TRUE, open |-> TRUE,
   search_active |-> FALSE, text |-> <<>>, unread |-> 0, alive |-> TRUE]

te_read_output(d) ==
  [d EXCEPT !.sb_len = IF d.open THEN @ + d.unread ELSE @,
            !.unread = IF d.open THEN 0 ELSE @,
            !.running = @ /\ d.alive]

terminal_emulator_render(d) ==
  Frame(<<d.sb_len, d.running, d.search_active, d.text>>, "null")


TerminalSearch(d, e) ==
  CASE e \in {"esc", "/"} -> Marked([d EXCEPT !.search_active = FALSE, !.text = <<>>])
    [] e = "enter"     -> Marked([d EXCEPT !.search_active = FALSE])
    [] e = "backspace" -> Marked([d EXCEPT !.text = Front0(@)])
    [] IsChar(e) /\ e # "/" -> Marked([d EXCEPT !.text = IF Printable(e) THEN Append(@, e) ELSE @])
    [] OTHER           -> event_result_unhandled(d)

(* Keys go to the child; Ctrl-D closes its terminal.                       *)
TerminalKeys(d, e) ==
  CASE e = "^d" /\ d.running -> Marked([d EXCEPT !.open = FALSE, !.running = FALSE])
    [] e = "/"  -> Marked([d EXCEPT !.search_active = TRUE, !.text = <<>>])
    [] e \in {"esc", "enter", "backspace", "up", "down", "left", "right", "home", "end"} -> Marked(d)
    [] IsChar(e) /\ e # "/" /\ ~(e = "^d" /\ d.running) -> Marked(d)
    [] OTHER    -> event_result_unhandled(d)

terminal_emulator_handle_event(d, e) ==
  CASE ~d.running /\ ~d.search_active -> event_result_response(d, "null")
    [] d.search_active -> TerminalSearch(d, e)
    [] OTHER -> TerminalKeys(d, e)

---------------------------------------------------------------------------
(* progress: the command runs only if its resolved path passes the list of *)
(* allowed directories.  A path is the sequence of its components; after   *)
(* the prefix "/usr/bin/" the code asks for another '/' or the end of the  *)
(* string, where realpath always leaves the name of a file: an empty       *)
(* component.                                                              *)
AllowedPrefixes == {<<"usr", "bin">>, <<"usr", "sbin">>, <<"bin">>, <<"sbin">>}

progress_command_allowed(path) ==
  \E p \in AllowedPrefixes :
    /\ Len(path) > Len(p)
    /\ SubSeq(path, 1, Len(p)) = p
    /\ path[Len(p) + 1] = ""

progress_widget_new(path) ==
  [kind |-> "progress", path |-> path, output |-> "", progress |-> 0, stage |-> "Starting...",
   started |-> FALSE, yielded |-> <<>>]

(* progress_send_yield: a yield only when the figure is new, or 100.       *)
progress_send_yield(d) ==
  LET y == d.yielded IN
  IF y # <<>> /\ y[Len(y)] = d.progress /\ d.progress # 100 THEN d
  ELSE [d EXCEPT !.yielded = Append(@, d.progress)]

(* progress_start: what a frame does while there is no child and no output.*)
progress_start(d) ==
  IF progress_command_allowed(d.path) THEN [d EXCEPT !.started = TRUE]
  ELSE progress_send_yield([d EXCEPT !.output = "Command not allowed", !.progress = 100,
                                     !.stage = "Error"])

ProgressDrawn(d) == IF ~d.started /\ d.output = "" THEN progress_start(d) ELSE d

progress_render(d) == Frame(<<d.progress, d.stage>>, d.output)

progress_handle_event(d, e) ==
  CASE ~IsKey(e) -> event_result_handled(d)
    [] e = "esc" -> Cancelled(progress_send_yield([d EXCEPT !.progress = 100, !.stage = "Cancelled"]))
    [] OTHER     -> IF ~d.started /\ d.output # ""
                    THEN [event_result_response(d, d.output) EXCEPT !.mark = TRUE]
                    ELSE Marked(d)

---------------------------------------------------------------------------
(* macro_recorder and the recorder: "rec" is g_recorder.recording, which   *)
(* outlives the widget, "replaying" also stands for its having frames:     *)
(* nothing calls recorder_record_frame, so that all frames were loaded.    *)
(* "files" are the names under which a recording is stored.                *)
macro_recorder_widget_new(rec) ==
  [kind |-> "macro_recorder", recording |-> FALSE, mode |-> "browsing", text |-> <<>>,
   rec |-> rec, replaying |-> FALSE, files |-> {<<"a">>}]

mr_render(d) ==
  Frame(<<d.recording, d.mode, IF d.mode = "save" THEN d.text ELSE <<>>>>, "null")

recorder_start(d) == [d EXCEPT !.rec = TRUE, !.replaying = FALSE]
recorder_stop(d) == [d EXCEPT !.rec = FALSE]

(* Without a frame nothing is written.                                     *)
recorder_save(d) == IF d.replaying THEN [d EXCEPT !.files = @ \cup {d.text}] ELSE d

(* recorder_load resets first.                                             *)
recorder_load(d) == [d EXCEPT !.rec = FALSE, !.replaying = d.text \in d.files]

MacroSave(d, e) ==
  CASE e = "esc"       -> Marked([d EXCEPT !.mode = "browsing"])
    [] e = "enter"     -> Marked([IF d.text = <<>> THEN d ELSE recorder_save(d) EXCEPT !.mode = "browsing"])
    [] e = "backspace" -> Marked([d EXCEPT !.text = Front0(@)])
    [] IsChar(e)       -> Marked([d EXCEPT !.text = IF Printable(e) THEN Append(@, e) ELSE @])
    [] OTHER           -> event_result_unhandled(d)

(* R starts, S stops, W (and L) ask for a file name, P loads it.           *)
MacroKeys(d, e) ==
  CASE e = "esc" -> Cancelled(d)
    [] e = "r" -> Marked(IF d.recording THEN d ELSE [recorder_start(d) EXCEPT !.recording = TRUE])
    [] e = "s" -> Marked(IF d.recording THEN [recorder_stop(d) EXCEPT !.recording = FALSE] ELSE d)
    [] e = "w" -> Marked([d EXCEPT !.mode = "save", !.text = <<>>])
    [] e = "p" -> Marked(IF d.recording THEN d ELSE recorder_load(d))
    [] IsChar(e) /\ e \notin {"r", "s", "w", "p"} -> Marked(d)
    [] OTHER   -> event_result_unhandled(d)

mr_handle_event(d, e) == IF d.mode = "save" THEN MacroSave(d, e) ELSE MacroKeys(d, e)

---------------------------------------------------------------------------
(* widget_builder: items on a canvas.  titles is the "title" entries of an *)
(* item's params in the order they were added: cJSON_GetObjectItem finds   *)
(* the first one.  at is the item's place in steps of the arrow keys.      *)
widget_builder_new ==
  [kind |-> "widget_builder", items |-> <<>>, selected_item |-> -1, mode |-> "canvas",
   prop_editing |-> FALSE, text |-> <<>>]

builder_render(d) ==
  Frame(<<d.mode, d.selected_item, d.prop_editing, d.text>>, d.items)

(* The items a mouse press at the place of a new item falls on.            *)
UnderPointer(d) == {i \in DOMAIN d.items : d.items[i].at = <<0, 0>>}

Selected(d) == d.selected_item \in 0..Len(d.items) - 1

BuilderEditing(d, e) ==
  LET i == d.selected_item + 1 IN
  CASE ~IsKey(e)       -> event_result_unhandled(d)
    [] e = "esc"       -> Marked([d EXCEPT !.prop_editing = FALSE])
    [] e = "enter"     -> Marked([d EXCEPT !.prop_editing = FALSE,
                                  !.items = IF Selected(d)
                                            THEN [@ EXCEPT ![i].titles = Append(@, d.text)] ELSE @])
    [] e = "backspace" -> Marked([d EXCEPT !.text = Front0(@)])
    [] IsChar(e)       -> Marked([d EXCEPT !.text = IF Printable(e) THEN Append(@, e) ELSE @])
    [] OTHER           -> event_result_unhandled(d)

(* A mouse press selects the topmost item under it.                        *)
BuilderPress(d) ==
  LET hit == UnderPointer(d) IN
  IF hit = {} THEN event_result_unhandled(d)
  ELSE Marked([d EXCEPT !.selected_item = (CHOOSE i \in hit : \A j \in hit : i >= j) - 1])

(* An arrow moves the selected item in canvas mode (without asking whether *)
(* it is still within the list) and the selection otherwise.               *)
BuilderArrow(d, e) ==
  LET i == d.selected_item + 1
      step == IF e \in {"up", "left"} THEN -1 ELSE 1
      axis == IF e \in {"up", "down"} THEN 2 ELSE 1 IN
  IF d.mode = "canvas" /\ d.selected_item >= 0
  THEN [d EXCEPT !.items[i].at[axis] = @ + step]
  ELSE [d EXCEPT !.selected_item =
          IF e = "up" /\ @ > 0 THEN @ - 1
          ELSE IF e = "down" /\ @ + 1 < Len(d.items) THEN @ + 1 ELSE @]

BuilderDelete(d) ==
  IF ~Selected(d) THEN d
  ELSE [d EXCEPT !.items = DeleteAt(@, d.selected_item + 1),
                 !.selected_item = IF @ >= Len(d.items) - 1 THEN Len(d.items) - 2 ELSE @]

BuilderAdd(d) ==
  [d EXCEPT !.items = Append(@, [titles |-> <<<<"menu">>>>, at |-> <<0, 0>>]),
            !.selected_item = Len(d.items)]

builder_handle_event(d, e) ==
  CASE d.prop_editing -> BuilderEditing(d, e)
    [] ~d.prop_editing /\ e = "mouse" -> BuilderPress(d)
    [] ~d.prop_editing /\ IsKey(e) ->
       CASE e = "esc" -> Cancelled(d)
         [] e \in {"f1", "f3"} -> Marked([d EXCEPT !.mode = "palette"])
         [] e = "f2"  -> Marked([d EXCEPT !.mode = "canvas"])
         [] e = "f4"  -> Marked(IF Selected(d)
                                THEN [d EXCEPT !.prop_editing = TRUE,
                                               !.text = d.items[d.selected_item + 1].titles[1]]
                                ELSE d)
         [] e = "f5"  -> Marked([d EXCEPT !.mode = IF @ = "preview" THEN "canvas" ELSE "preview"])
         [] e \in {"up", "down", "left", "right"} -> Marked(BuilderArrow(d, e))
         [] e = "enter"  -> Marked(BuilderAdd(d))
         [] e = "delete" -> Marked(BuilderDelete(d))
         [] e = "s"      -> event_result_response(d, d.items)
         [] OTHER        -> event_result_unhandled(d)
=============================================================================
