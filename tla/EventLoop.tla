------------------------------ MODULE EventLoop -----------------------------
(***************************************************************************)
(* session_run (src/core/session.c): the loop that shows one widget on one *)
(* backend until the widget answers, with the three backends the daemon    *)
(* and the command line give it: the headless one with its ring buffer of  *)
(* injected events (src/backend/headless/headless.c), the socket one and   *)
(* the terminal one.  The daemon runs one such loop per client thread, and *)
(* they share g_session_arena.                                             *)
(*                                                                         *)
(* The widget is any widget: an event may change it, which makes it dirty, *)
(* and may be answered.  last_render_tree is never assigned, so hit_test   *)
(* finds nothing under the pointer and count_focusable counts nothing.     *)
(***************************************************************************)
EXTENDS Integers, Sequences

CONSTANTS
  Sessions,        \* the running loops, one per client thread
  NoArena,         \* g_session_arena = NULL
  IdleLimit,       \* empty turns after which a headless loop gives up (5000)
  queue_capacity,  \* slots of the headless ring buffer (128)
  MaxInputs        \* bound: events injected into or read by a loop, and resizes

ASSUME EventLoopAssumption ==
  /\ NoArena \notin Sessions
  /\ IdleLimit \in Nat
  /\ queue_capacity \in Nat \ {0}
  /\ MaxInputs \in Nat

VARIABLES
  kind,     \* the backend: "headless", "socket" or "terminal"
  pc,       \* where each loop stands
  size,     \* the backend's size, 0 or 1
  last,     \* last_w, last_h
  drawn,    \* the size the frame on the screen was laid out for
  dirty,    \* the widget's flag
  shown,    \* the frame on the screen is the widget's present state
  idle,     \* idle_count
  ev,       \* the event being handled
  ring,     \* headless: [event_queue, queue_head, queue_tail]
  pending,  \* history: the injected events not yet read, in order
  eof,      \* headless: [events_injected, auto_eof_sent]
  inputs,   \* inputs left to the bound
  open,     \* times the backend was set up and not torn down
  arena     \* g_session_arena: whose session_run allocated it

loop == <<last, drawn, dirty, shown, idle, open, arena>>
backend == <<kind, size, ring, pending, eof, inputs>>
vars == <<pc, ev, loop, backend>>

-----------------------------------------------------------------------------
Kinds == {"headless", "socket", "terminal"}
Interactive(s) == kind[s] # "headless"

(* "mapped" is a character of the default keymap, "char" another one,      *)
(* "key" any key that is not a character, "context" the right button and   *)
(* "click" any other mouse event that reaches the widget.                  *)
Events == {"none", "resize", "motion", "drag", "context", "copy", "paste",
           "undo", "redo", "tab", "mapped", "char", "key", "click"}
Injectable == Events \ {"none"}
Readable(s) == IF kind[s] = "socket" THEN Events \ {"none", "motion", "drag"}
                                     ELSE Events \ {"none", "resize"}

Slots == 0..queue_capacity - 1

TypeOK ==
  /\ kind \in [Sessions -> Kinds]
  /\ pc \in [Sessions -> {"idle", "first", "size", "frame", "wait", "event",
                          "deliver", "finish", "done"}]
  /\ size \in [Sessions -> 0..1]
  /\ last \in [Sessions -> 0..1]
  /\ drawn \in [Sessions -> 0..1]
  /\ dirty \in [Sessions -> BOOLEAN]
  /\ shown \in [Sessions -> BOOLEAN]
  /\ idle \in [Sessions -> 0..IdleLimit + 1]
  /\ ev \in [Sessions -> Events]
  /\ ring \in [Sessions -> [event_queue : [Slots -> Events],
                            queue_head : Slots, queue_tail : Slots]]
  /\ pending \in [Sessions -> Seq(Events)]
  /\ eof \in [Sessions -> [events_injected : BOOLEAN, auto_eof_sent : BOOLEAN]]
  /\ inputs \in [Sessions -> 0..MaxInputs]
  /\ open \in [Sessions -> Nat]
  /\ arena \in Sessions \cup {NoArena}

Init ==
  /\ kind \in [Sessions -> Kinds]
  /\ pc = [s \in Sessions |-> "idle"]
  /\ size = [s \in Sessions |-> 0]
  /\ last = [s \in Sessions |-> 0]
  /\ drawn = [s \in Sessions |-> 0]
  /\ dirty = [s \in Sessions |-> TRUE]
  /\ shown = [s \in Sessions |-> FALSE]
  /\ idle = [s \in Sessions |-> 0]
  /\ ev = [s \in Sessions |-> "none"]
  /\ ring = [s \in Sessions |-> [event_queue |-> [i \in Slots |-> "none"],
                                 queue_head |-> 0, queue_tail |-> 0]]
  /\ pending = [s \in Sessions |-> <<>>]
  /\ eof = [s \in Sessions |-> [events_injected |-> FALSE, auto_eof_sent |-> FALSE]]
  /\ inputs = [s \in Sessions |-> MaxInputs]
  /\ open = [s \in Sessions |-> 0]
  /\ arena = NoArena

At(s, here) == pc[s] = here
Goto(s, there) == pc' = [pc EXCEPT ![s] = there]
Set(f, s, v) == [f EXCEPT ![s] = v]
Spend(s) == inputs[s] > 0 /\ inputs' = [inputs EXCEPT ![s] = @ - 1]

-----------------------------------------------------------------------------
(* The headless backend's queue.                                           *)

(* Mutant of Step: the index runs past the end of the buffer.              *)
StepNoWrap(i) == i + 1

Step(i) == (i + 1) % queue_capacity

(* Mutant of headless_inject: the slot that must stay free is used.        *)
InjectOverflow(s, e) ==
  /\ At(s, "idle")
  /\ kind[s] = "headless"
  /\ Spend(s)
  /\ size' = IF e = "resize" THEN [size EXCEPT ![s] = 1 - @] ELSE size
  /\ ring' = [ring EXCEPT ![s].event_queue[ring[s].queue_tail] = e,
                          ![s].queue_tail = Step(ring[s].queue_tail)]
  /\ pending' = IF Len(pending[s]) = queue_capacity THEN pending
                ELSE [pending EXCEPT ![s] = Append(@, e)]
  /\ UNCHANGED <<pc, ev, loop, kind, eof>>

(* headless_inject_key, _mouse and _resize, which the callers use before   *)
(* session_run.  One slot stays free to tell full from empty; an event     *)
(* that finds the queue full is dropped, though a resize has taken effect  *)
(* by then.                                                                *)
headless_inject(s, e) ==
  /\ At(s, "idle")
  /\ kind[s] = "headless"
  /\ Spend(s)
  /\ size' = IF e = "resize" THEN [size EXCEPT ![s] = 1 - @] ELSE size
  /\ LET next == Step(ring[s].queue_tail) IN
       \/ next = ring[s].queue_head /\ UNCHANGED <<ring, pending>>
       \/ /\ next # ring[s].queue_head
          /\ ring' = [ring EXCEPT ![s].event_queue[ring[s].queue_tail] = e,
                                  ![s].queue_tail = next]
          /\ pending' = [pending EXCEPT ![s] = Append(@, e)]
  /\ UNCHANGED <<pc, ev, loop, kind, eof>>

(* Mutant of hl_next_event: every drained queue yields an Escape.          *)
EofRepeated(s) ==
  /\ At(s, "wait")
  /\ kind[s] = "headless"
  /\ LET head == ring[s].queue_head IN
       \/ /\ head = ring[s].queue_tail
          /\ ev' = Set(ev, s, IF eof[s].events_injected THEN "key" ELSE "none")
          /\ UNCHANGED <<ring, pending, eof>>
       \/ /\ head # ring[s].queue_tail
          /\ ev' = Set(ev, s, ring[s].event_queue[head])
          /\ ring' = [ring EXCEPT ![s].queue_head = Step(head)]
          /\ pending' = [pending EXCEPT ![s] = Tail(@)]
          /\ eof' = [eof EXCEPT ![s].events_injected = TRUE]
  /\ Goto(s, "event")
  /\ UNCHANGED <<loop, kind, size, inputs>>

(* Once drained, a queue that had events yields one Escape, then nothing.  *)
hl_next_event(s) ==
  /\ At(s, "wait")
  /\ kind[s] = "headless"
  /\ LET head == ring[s].queue_head
         escape == eof[s].events_injected /\ ~eof[s].auto_eof_sent IN
       \/ /\ head = ring[s].queue_tail
          /\ ev' = Set(ev, s, IF escape THEN "key" ELSE "none")
          /\ eof' = [eof EXCEPT ![s].auto_eof_sent = @ \/ escape]
          /\ UNCHANGED <<ring, pending>>
       \/ /\ head # ring[s].queue_tail
          /\ ev' = Set(ev, s, ring[s].event_queue[head])
          /\ ring' = [ring EXCEPT ![s].queue_head = Step(head)]
          /\ pending' = [pending EXCEPT ![s] = Tail(@)]
          /\ eof' = [eof EXCEPT ![s].events_injected = TRUE]
  /\ Goto(s, "event")
  /\ UNCHANGED <<loop, kind, size, inputs>>

(* sock_next_event and term_next_event: an event, or nothing, after a      *)
(* timeout (terminal), a line that means nothing or the end of the input   *)
(* (socket).  A size message changes what sock_get_size returns.           *)
interactive_next_event(s) ==
  /\ At(s, "wait")
  /\ Interactive(s)
  /\ \/ ev' = Set(ev, s, "none") /\ UNCHANGED <<inputs, size>>
     \/ \E e \in Readable(s) :
          /\ Spend(s)
          /\ ev' = Set(ev, s, e)
          /\ size' = IF e = "resize" THEN [size EXCEPT ![s] = 1 - @] ELSE size
  /\ Goto(s, "event")
  /\ UNCHANGED <<loop, kind, ring, pending, eof>>

(* The terminal's window changes under the loop.                           *)
Resize(s) ==
  /\ kind[s] = "terminal"
  /\ ~At(s, "done")
  /\ Spend(s)
  /\ size' = [size EXCEPT ![s] = 1 - @]
  /\ UNCHANGED <<pc, ev, loop, kind, ring, pending, eof>>

-----------------------------------------------------------------------------
(* The loop.                                                               *)

mark_dirty(s) == dirty' = Set(dirty, s, TRUE)

(* Up to the first frame: setup, get_size, a new arena.                    *)
Start(s) ==
  /\ At(s, "idle")
  /\ open' = [open EXCEPT ![s] = @ + 1]
  /\ last' = Set(last, s, size[s])
  /\ idle' = Set(idle, s, 0)
  /\ arena' = s
  /\ Goto(s, "first")
  /\ UNCHANGED <<ev, drawn, dirty, shown, backend>>

(* render, layout and draw for the size last asked for, then clear_dirty.  *)
Draw(s) ==
  /\ drawn' = Set(drawn, s, last[s])
  /\ shown' = Set(shown, s, TRUE)
  /\ dirty' = Set(dirty, s, FALSE)

FirstFrame(s) ==
  /\ At(s, "first")
  /\ Draw(s)
  /\ Goto(s, "size")
  /\ UNCHANGED <<ev, last, idle, open, arena, backend>>

PollSize(s) ==
  /\ At(s, "size")
  /\ IF size[s] # last[s] THEN mark_dirty(s) ELSE UNCHANGED dirty
  /\ last' = Set(last, s, size[s])
  /\ Goto(s, "frame")
  /\ UNCHANGED <<ev, drawn, shown, idle, open, arena, backend>>

Frame(s) ==
  /\ At(s, "frame")
  /\ IF dirty[s] THEN Draw(s) ELSE UNCHANGED <<drawn, shown, dirty>>
  /\ Goto(s, "wait")
  /\ UNCHANGED <<ev, last, idle, open, arena, backend>>

next_event(s) == hl_next_event(s) \/ interactive_next_event(s)

(* No event: an interactive loop asks again (tooltip_target_id is NULL, as *)
(* nothing is ever hit), a headless one gives up after IdleLimit turns.    *)
Idle(s) ==
  /\ At(s, "event")
  /\ ev[s] = "none"
  /\ idle' = IF Interactive(s) THEN idle ELSE [idle EXCEPT ![s] = @ + 1]
  /\ Goto(s, IF idle'[s] > IdleLimit THEN "finish" ELSE "size")
  /\ UNCHANGED <<ev, last, drawn, dirty, shown, open, arena, backend>>

(* Events that never reach the widget.  The right button needs a node of   *)
(* last_render_tree and is dropped; Ctrl-C copies the clipboard.           *)
Swallow(s) ==
  /\ At(s, "event")
  /\ \/ ev[s] \in {"resize", "context", "copy"} /\ UNCHANGED dirty
     \/ ev[s] \in {"motion", "drag"} /\ mark_dirty(s)
  /\ Goto(s, "size")
  /\ UNCHANGED <<ev, last, drawn, shown, idle, open, arena, backend>>

(* Tab moves the focus among the nodes of last_render_tree, of which there *)
(* are none.                                                               *)
Tab(s) ==
  /\ At(s, "event")
  /\ ev[s] = "tab"
  /\ Goto(s, "size")
  /\ UNCHANGED <<ev, loop, backend>>

(* Mutant of Paste: the widget is left to mark itself.                     *)
PasteClean(s) ==
  /\ At(s, "event")
  /\ ev[s] = "paste"
  /\ shown' \in {shown, Set(shown, s, FALSE)}
  /\ Goto(s, "size")
  /\ UNCHANGED <<ev, last, drawn, dirty, idle, open, arena, backend>>

(* Ctrl-V: the widget gets the clipboard's characters one by one, whatever *)
(* it makes of them (an answer is ignored), unless there are none or one   *)
(* is not printable.                                                       *)
Paste(s) ==
  /\ At(s, "event")
  /\ ev[s] = "paste"
  /\ shown' \in {shown, Set(shown, s, FALSE)}
  /\ mark_dirty(s)
  /\ Goto(s, "size")
  /\ UNCHANGED <<ev, last, drawn, idle, open, arena, backend>>

(* Ctrl-Z and Ctrl-Y: undo_stack_undo and undo_stack_redo, which change    *)
(* the widget's data, or fail; then the key goes to the widget.            *)
UndoRedo(s) ==
  /\ At(s, "event")
  /\ ev[s] \in {"undo", "redo"}
  /\ \/ /\ mark_dirty(s)
        /\ shown' = Set(shown, s, FALSE)
        /\ Goto(s, "size")
     \/ /\ Goto(s, "deliver")
        /\ UNCHANGED <<dirty, shown>>
  /\ UNCHANGED <<ev, last, drawn, idle, open, arena, backend>>

(* Any other event goes to the widget, a character of the keymap as the    *)
(* key it stands for unless the widget takes text.                         *)
Translate(s) ==
  /\ At(s, "event")
  /\ ev[s] \in {"mapped", "char", "key", "click"}
  /\ ev' \in {ev} \cup (IF ev[s] = "mapped" THEN {Set(ev, s, "key")} ELSE {})
  /\ Goto(s, "deliver")
  /\ UNCHANGED <<loop, backend>>

(* handle_event: the widget changes and marks itself, or does not, or      *)
(* answers; a store of another version marks it in any case.               *)
Deliver(s) ==
  /\ At(s, "deliver")
  /\ idle' = Set(idle, s, 0)
  /\ \/ /\ Goto(s, "finish")
        /\ UNCHANGED <<dirty, shown>>
     \/ /\ Goto(s, "size")
        /\ \/ mark_dirty(s) /\ shown' \in {shown, Set(shown, s, FALSE)}
           \/ UNCHANGED <<dirty, shown>>
  /\ UNCHANGED <<ev, last, drawn, open, arena, backend>>

(* Mutant of Finish: the way out after too many idle turns does not tear   *)
(* the backend down.                                                       *)
FinishHalf(s) ==
  /\ At(s, "finish")
  /\ open' = IF ev[s] = "none" THEN open ELSE [open EXCEPT ![s] = @ - 1]
  /\ arena' = NoArena
  /\ Goto(s, "done")
  /\ UNCHANGED <<ev, last, drawn, dirty, shown, idle, backend>>

(* Both ways out: teardown, arena_free(g_session_arena), and NULL.         *)
Finish(s) ==
  /\ At(s, "finish")
  /\ open' = [open EXCEPT ![s] = @ - 1]
  /\ arena' = NoArena
  /\ Goto(s, "done")
  /\ UNCHANGED <<ev, last, drawn, dirty, shown, idle, backend>>

Inner(s) ==
  \/ FirstFrame(s) \/ PollSize(s) \/ Frame(s)
  \/ Idle(s) \/ Swallow(s) \/ Tab(s) \/ Paste(s) \/ UndoRedo(s) \/ Translate(s)
  \/ Deliver(s) \/ Finish(s)

Next ==
  \E s \in Sessions :
    \/ Start(s) \/ Inner(s) \/ next_event(s)
    \/ \E e \in Injectable : headless_inject(s, e)
    \/ Resize(s)

(* A loop runs whenever it can.  Only the socket's next_event may block,   *)
(* so nothing obliges it to return.                                        *)
Fairness ==
  \A s \in Sessions :
    /\ WF_vars(Start(s)) /\ WF_vars(Inner(s))
    /\ WF_vars(kind[s] # "socket" /\ next_event(s))

Spec == Init /\ [][Next]_vars /\ Fairness

-----------------------------------------------------------------------------
(* When the loop waits for an event the screen shows the widget as it is,  *)
(* laid out for the size the loop knows: no path that changes either goes  *)
(* back to waiting without a new frame.                                    *)
FrameFresh == \A s \in Sessions : At(s, "wait") => shown[s] /\ drawn[s] = last[s]

(* Headless events arrive in the order they were injected, each once; only *)
(* those that found queue_capacity - 1 others waiting are missing.         *)
Waiting(s) == (ring[s].queue_tail - ring[s].queue_head) % queue_capacity
QueueFaithful ==
  \A s \in Sessions :
    /\ Len(pending[s]) = Waiting(s)
    /\ \A i \in 1..Len(pending[s]) :
         ring[s].event_queue[(ring[s].queue_head + i - 1) % queue_capacity] = pending[s][i]

(* Either way out of the loop leaves the backend torn down, once for each  *)
(* setup, and g_session_arena not pointing to the arena of this loop.      *)
CleanedUp == \A s \in Sessions : At(s, "done") => open[s] = 0 /\ arena # s

(* A headless loop comes to an end whatever was injected: the Escape is    *)
(* sent once and nothing but a delivered event resets idle_count.          *)
HeadlessEnds == \A s \in Sessions : kind[s] = "headless" ~> At(s, "done")

(* A change of the terminal's size is followed by a frame of that size,    *)
(* even when nobody types.                                                 *)
ResizeShown ==
  \A s \in Sessions : size[s] # drawn[s] ~> (size[s] = drawn[s] \/ At(s, "done"))

(* A loop goes on without a user: it ends if nobody can type, and follows  *)
(* the terminal's size if somebody could.                                  *)
GoesOn == HeadlessEnds /\ ResizeShown

(* What makes FrameFresh inductive: once there is a frame, a widget that   *)
(* is not marked is on the screen as it is and for the size the loop       *)
(* knows.  And what makes CleanedUp so: a running loop has its backend     *)
(* open exactly once.                                                      *)
FreshInv ==
  \A s \in Sessions :
    pc[s] \notin {"idle", "first"} => dirty[s] \/ (shown[s] /\ drawn[s] = last[s])

OpenInv ==
  \A s \in Sessions : open[s] = IF pc[s] \in {"idle", "done"} THEN 0 ELSE 1

(* And what makes TypeOK so: idle_count passes the limit only on the way   *)
(* out.                                                                    *)
IdleInv ==
  \A s \in Sessions : idle[s] > IdleLimit => pc[s] \in {"finish", "done"}

IInv ==
  /\ TypeOK /\ IdleInv
  /\ FreshInv /\ FrameFresh
  /\ QueueFaithful
  /\ OpenInv /\ CleanedUp

(* spec.md:873 accounts the arena to a connection: a loop renders into the *)
(* arena its own session_run allocated.                                    *)
ArenaOwned ==
  \A s \in Sessions : At(s, "first") \/ (At(s, "frame") /\ dirty[s]) => arena = s
=============================================================================
