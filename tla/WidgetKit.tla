----------------------------- MODULE WidgetKit -----------------------------
(***************************************************************************)
(* What every widget of FILLY shares.  A widget is a vtable: render turns  *)
(* its data into a frame, handle_event takes one event and returns         *)
(* unhandled, handled or a response, and may set the widget's dirty flag.  *)
(* Both are sequential functions of the widget's data, so they are         *)
(* operators here: handle_event maps (data, event) to an outcome, which    *)
(* WidgetSession turns into steps of the session loop.                     *)
(***************************************************************************)
EXTENDS Integers, Sequences, FiniteSets

CONSTANT MaxText  \* how long an edited text may grow in a bounded instance

ASSUME MaxTextAssumption == MaxText \in Nat

(* KeyCode: the keys some widget looks at.  The session loop keeps Tab for *)
(* itself; Backtab it passes on.                                           *)
Keys == {"backspace", "enter", "left", "right", "up", "down", "home", "end",
         "pageup", "pagedown", "backtab", "delete", "f1", "f2", "f3", "f4",
         "f5", "f10", "esc"}

(* KEY_CHAR with the characters some widget tells apart.  "B" is there for *)
(* the searches that ignore case, "5" for sizes, "^s" and "^d" for the     *)
(* editor's control characters.                                            *)
Chars == {"a", "b", "B", "5", " ", "/", "y", "n", "d", "r", "w", "q", "s", "p", "^s", "^d"}

(* EventType: a mouse button reaches the widget as it is.                  *)
Events == Keys \cup Chars \cup {"mouse"}

IsKey(e) == e # "mouse"
IsChar(e) == e \in Chars
Printable(e) == e \in Chars \ {"^s", "^d"}

---------------------------------------------------------------------------
(* EventResult, together with the data and the dirty flag the handler      *)
(* leaves behind.                                                          *)
event_result_unhandled(d) == [d |-> d, mark |-> FALSE, result |-> [type |-> "unhandled"]]

(* Handled without base.dirty being touched.                               *)
event_result_handled(d) == [d |-> d, mark |-> FALSE, result |-> [type |-> "handled"]]

(* Handled after base.dirty = true.                                        *)
Marked(d) == [event_result_handled(d) EXCEPT !.mark = TRUE]

event_result_response(d, v) ==
  [d |-> d, mark |-> FALSE, result |-> [type |-> "response", cancelled |-> FALSE, value |-> v]]

Cancelled(d) ==
  [d |-> d, mark |-> FALSE, result |-> [type |-> "response", cancelled |-> TRUE, value |-> "null"]]

(* An array is indexed outside: the process ends, or the handler goes on   *)
(* as o with whatever it read.                                             *)
Undefined(o) == [o EXCEPT !.result = [type |-> "undefined", survives |-> @]]

(* if (c) { change; dirty = true; } return handled;                        *)
MarkedIf(c, d, e) == IF c THEN Marked(e) ELSE event_result_handled(d)

(* A frame: what is drawn besides the value, and the value it shows as the *)
(* one Enter would confirm.                                                *)
Frame(view, value) == <<view, value>>
Confirms(frame) == frame[2]

---------------------------------------------------------------------------
(* Sequences edited in place.                                              *)
Front0(s) == IF s = <<>> THEN s ELSE SubSeq(s, 1, Len(s) - 1)
InsertAfter(s, i, x) == SubSeq(s, 1, i) \o <<x>> \o SubSeq(s, i + 1, Len(s))
DeleteAt(s, i) == SubSeq(s, 1, i - 1) \o SubSeq(s, i + 1, Len(s))

(* tolower and strstr: the searches of filter and multiselect.             *)
tolower(s) == [i \in DOMAIN s |-> IF s[i] = "B" THEN "b" ELSE s[i]]
strstr(s, q) == \E i \in 0..Len(s) - Len(q) : SubSeq(s, i + 1, i + Len(q)) = q

(* filter_update and ms_update: the indices, in order, of the choices that *)
(* contain the query whatever its case; all of them for the empty query.   *)
Matching(choices, query) ==
  SelectSeq([i \in 1..Len(choices) |-> i],
            LAMBDA i : strstr(tolower(choices[i]), tolower(query)))

(* The last index of n elements, or 0.                                     *)
ClampTo(i, n) == IF i < n THEN i ELSE IF n > 0 THEN n - 1 ELSE 0
=============================================================================
