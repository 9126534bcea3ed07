--------------------------- MODULE WidgetContract --------------------------
(***************************************************************************)
(* What session_run relies on a widget for, whatever the widget is.  The   *)
(* loop renders only a widget that says it is dirty, so a change of what   *)
(* the widget would draw must come with the dirty flag, drawing must clear *)
(* the flag and change nothing else, and a widget answers at most once and *)
(* does nothing after that.  EventLoop's Deliver is the same contract seen *)
(* from the loop.                                                          *)
(***************************************************************************)
VARIABLES frame,     \* what render would draw now
          dirty,     \* is_dirty
          answered   \* handle_event has returned a response

Init == dirty = TRUE /\ answered = FALSE

(* An event, or anything else that makes the loop draw again.              *)
Change == ~answered /\ dirty' = TRUE /\ UNCHANGED answered

Draw == ~answered /\ dirty /\ dirty' = FALSE /\ UNCHANGED <<frame, answered>>

Answer == ~answered /\ answered' = TRUE

Next == Change \/ Draw \/ Answer

Spec == Init /\ [][Next]_<<frame, dirty, answered>>
=============================================================================
