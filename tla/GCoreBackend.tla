---------------------------- MODULE GCoreBackend ----------------------------
(***************************************************************************)
(* The graphical backend (src/backend/gcore/backend.c, wayland.c) under    *)
(* session_run, with a menu as its widget.                                 *)
(*                                                                         *)
(* The backend runs on DRM with libinput, on X11 or on Wayland.  It keeps  *)
(* the pixels it draws into, a copy of the tree drawn last, and a ring of  *)
(* events made up from clicks, touches and pastes: a click is looked up in *)
(* the copy, and becomes the keys that would have moved the widget there.  *)
(*                                                                         *)
(* A key travels as a number.  backend.c includes <linux/input.h> behind   *)
(* core/event.h, and its macros hide the enumerators of KeyCode; wayland.c *)
(* does not.  Both sets of numbers are modelled, since the widget only     *)
(* knows the enumerators.                                                  *)
(*                                                                         *)
(* Pixels are scaled down: a list row is one high (Style), the dead zone   *)
(* of drags is DeadZone.  Positions are pairs <<x, y>>.  No widget sets    *)
(* `draggable`, so drag_target stays NULL and is left out.                 *)
(***************************************************************************)
EXTENDS Integers, Sequences

CONSTANTS
  Width,      \* of every window and mode
  Heights,    \* heights that windows and modes can have
  Default,    \* the height a window starts with
  Rows,       \* choices of the menu
  Leaf,       \* type of the node behind the list
  Style,      \* [font_size, top, bottom, margin, border] of the list
  QueueSize,  \* EVENT_QUEUE_SIZE
  DeadZone,   \* 5 pixels in the code
  Keys,       \* keys that are pressed
  Pastes,     \* bound: lengths of the text pasted
  MaxInputs   \* bound: events that devices report

ASSUME GCoreAssumption ==
  /\ Width \in Nat \ {0} /\ Rows \in Nat \ {0} /\ QueueSize \in Nat \ {0, 1}
  /\ DeadZone \in Nat /\ MaxInputs \in Nat /\ Pastes \subseteq Nat
  /\ Heights \subseteq Nat \ {0} /\ Default \in Heights
  /\ Style \in [font_size : Nat, top : Nat, bottom : Nat, margin : Nat, border : Nat]

VARIABLES
  phase,      \* "start", "run", "paste", "ended", "failed" or "crashed"
  output,     \* "none", "DRM", "X11" or "WAYLAND"
  pb,         \* [h, pixels]: the height, and the one `pixels` has room for;
              \*   Null and Freed are pointers that must not be followed
  drm_data,   \* "null", "live" or "freed"
  queue,      \* the events in the ring, oldest first
  mouse,      \* [at, button, start, dragging]
  running,    \* the Wayland window has not been closed
  tree,       \* the copy of the tree drawn last
  widget,     \* the menu: [selected, dirty, answer]
  last_h,     \* the height session_run drew for
  inputs,     \* events that devices have reported
  delivered,  \* the event next_event returned last
  pressed,    \* what the user did last: a key, "Close" or "Pointer"
  dragged,    \* where the drag now reported to session_run began, or Nowhere
  lost        \* a buffer could not be allocated after the start

vars == <<phase, output, pb, drm_data, queue, mouse, running, tree, widget,
          last_h, inputs, delivered, pressed, dragged, lost>>

Null == 0
Freed == -1
Nowhere == <<-1, -1>>
Points == (0 .. Width - 1) \X UNION {0 .. h : h \in Heights}

-----------------------------------------------------------------------------
(* Keys and their numbers. *)

KeyCode ==
  [BackSpace |-> 0, Return |-> 1, Left |-> 2, Right |-> 3, Up |-> 4, Down |-> 5,
   Tab |-> 10, F1 |-> 14, Escape |-> 27]
KEY_CHAR == 26

\* what the same names stand for behind <linux/input.h>
InputMacro ==
  [BackSpace |-> 14, Return |-> 28, Left |-> 105, Right |-> 106, Up |-> 103,
   Down |-> 108, Tab |-> 15, F1 |-> 59, Escape |-> 1]

Special == DOMAIN KeyCode
Printable == {"a"}

\* a key none of the branches knows leaves the code at 0
x11_key(k) ==
  IF k \in Special THEN InputMacro[k] ELSE IF k \in Printable THEN KEY_CHAR ELSE 0
wayland_key(k) ==
  IF k \in Special THEN KeyCode[k] ELSE IF k \in Printable THEN KEY_CHAR ELSE 0
\* every key below 128, Shift too, is taken for a character
drm_key(k) ==
  IF k \in Special THEN InputMacro[k] ELSE IF k # "Menu" THEN KEY_CHAR ELSE 0

Event(type, code, at, start) ==
  [type |-> type, code |-> code, at |-> at, start |-> start]
EventOf(type) == Event(type, 0, Nowhere, Nowhere)
NoEvent == EventOf("NONE")
Key(code) == Event("KEY", code, Nowhere, Nowhere)
Pointer(type, m) == Event(type, 0, m.at, m.start)

-----------------------------------------------------------------------------
(* The tree drawn, and what is under the pointer. *)

Rect(x, y, w, h) == [x |-> x, y |-> y, w |-> w, h |-> h]

\* menu_render after layout_tree: the root has the size of the surface, and the
\* list and the line of help are both anchored in its corner
menu_render(selected, h) ==
  [type |-> "CONTAINER", rect |-> Rect(0, 0, Width, h), selected |-> 0,
   children |->
     << [type |-> "LIST", rect |-> Rect(0, 0, Width, Rows), selected |-> selected,
         children |-> <<>>],
        [type |-> Leaf, rect |-> Rect(0, 0, Width, 1), selected |-> 0,
         children |-> <<>>] >>]

\* where a node begins that is placed relative to `corner`, and whether p is in it
Corner(node, corner) == <<corner[1] + node.rect.x, corner[2] + node.rect.y>>
Over(node, p, corner) ==
  LET c == Corner(node, corner)
  IN \/ p[1] < 0 \/ p[2] < 0
     \/ /\ c[1] <= p[1] /\ p[1] < c[1] + node.rect.w
        /\ c[2] <= p[2] /\ p[2] < c[2] + node.rect.h

Hit(node, corner) ==
  <<[type |-> node.type, selected |-> node.selected, top |-> Corner(node, corner)[2]]>>

\* <<>> where nothing is hit.  The last child that is hit wins; a node none of
\* whose children is, is hit itself.  The children of what is drawn have none.
hit_test(node, p) ==
  LET corner == Corner(node, <<0, 0>>)
      hits == {i \in DOMAIN node.children : Over(node.children[i], p, corner)}
  IN IF ~Over(node, p, <<0, 0>>) THEN <<>>
     ELSE IF hits = {} THEN Hit(node, <<0, 0>>)
     ELSE Hit(node.children[CHOOSE i \in hits : \A j \in hits : j <= i], corner)

\* the row of the list that a click is taken for
ItemAt(y, top) ==
  LET item == Style.font_size + Style.top + Style.bottom
      height == IF item <= 0 THEN 20 ELSE item
      index == (y - top - Style.margin - Style.top - Style.border) \div height
  IN IF index < 0 THEN 0 ELSE IF index >= Rows THEN Rows - 1 ELSE index

Repeat(n, e) == [i \in 1 .. (IF n < 0 THEN 0 ELSE n) |-> e]

synthesize_key_events(hit, p) ==
  LET type == IF hit = <<>> THEN "none" ELSE hit[1].type
      index == ItemAt(p[2], hit[1].top)
      current == hit[1].selected
  IN CASE type = "LIST" ->
            Repeat(current - index, Key(InputMacro.Up))
            \o Repeat(index - current, Key(InputMacro.Down))
            \o <<Key(InputMacro.Return)>>
       [] type \in {"INPUT", "TEXT"} -> <<Key(InputMacro.Return)>>
       [] type \in {"TOGGLE", "CHECKBOX"} -> <<Key(KEY_CHAR)>>
       [] OTHER -> <<>>

\* the ring keeps one place free; what does not fit is dropped
enqueue_event(q, es) ==
  LET room == QueueSize - 1 - Len(q)
  IN q \o SubSeq(es, 1, IF Len(es) > room THEN room ELSE Len(es))

\* the ring after a click at p
Clicked(q, p) == enqueue_event(q, synthesize_key_events(hit_test(tree, p), p))

-----------------------------------------------------------------------------
(* session_run on what next_event returns. *)

menu_handle_event(w, code) ==
  CASE code = KeyCode.Escape -> [w EXCEPT !.answer = "cancelled"]
    [] code = KeyCode.Up /\ w.selected > 0 ->
         [w EXCEPT !.selected = @ - 1, !.dirty = TRUE]
    [] code = KeyCode.Down /\ w.selected + 1 < Rows ->
         [w EXCEPT !.selected = @ + 1, !.dirty = TRUE]
    [] code = KeyCode.Return -> [w EXCEPT !.answer = "chosen"]
    [] OTHER -> w

\* last_render_tree of session.c is always NULL: no tooltips, no focus by Tab
session_dispatch(w, e) ==
  CASE e.type \in {"MOTION", "DRAG_START", "DRAG_MOVE", "DRAG_END"} ->
         [w EXCEPT !.dirty = TRUE]
    [] e.type = "KEY" /\ e.code # KeyCode.Tab -> menu_handle_event(w, e.code)
    [] OTHER -> w

\* the loop draws before it asks for an event
Ready == phase = "run" /\ widget.answer = "none" /\ ~widget.dirty /\ pb.h = last_h
Reads == Ready /\ queue = <<>> /\ inputs < MaxInputs

Deliver(e) ==
  /\ delivered' = e
  /\ widget' = session_dispatch(widget, e)

\* e comes from a device
Report(e) == Deliver(e) /\ inputs' = inputs + 1

\* what session_run has been told of drags
Track(e) ==
  dragged' = IF e.type = "DRAG_START" THEN e.start
             ELSE IF e.type = "DRAG_END" THEN Nowhere ELSE dragged

\* Mutant: the copy is made once.
DrawCopiesOnce(t) ==
  /\ phase' = IF pb.pixels \in {Null, Freed} THEN "crashed" ELSE phase
  /\ tree' = IF tree.type = "NULL" THEN t ELSE tree

\* gcore_backend_draw: fills the pixels, keeps a copy of the tree
gcore_backend_draw(t) ==
  /\ phase' = IF pb.pixels \in {Null, Freed} THEN "crashed" ELSE phase
  /\ tree' = t

Draw ==
  /\ phase = "run" /\ widget.answer = "none"
  /\ widget.dirty \/ pb.h # last_h
  /\ gcore_backend_draw(menu_render(widget.selected, pb.h))
  /\ widget' = [widget EXCEPT !.dirty = FALSE]
  /\ last_h' = pb.h
  /\ UNCHANGED <<output, pb, drm_data, queue, mouse, running, inputs, delivered,
                 pressed, dragged, lost>>

\* next_event empties the ring before it looks at a device
dequeue_event ==
  /\ Ready /\ queue # <<>>
  /\ queue' = Tail(queue)
  /\ Deliver(Head(queue))
  /\ UNCHANGED <<phase, output, pb, drm_data, mouse, running, tree, last_h, inputs,
                 pressed, dragged, lost>>

-----------------------------------------------------------------------------
(* Keys and pointers, as all outputs treat them. *)

PressKey(k, code) ==
  /\ pressed' = k
  /\ Report(Key(code))
  /\ UNCHANGED <<mouse, queue, dragged>>

\* a press gives up a drag, and returns the first of the keys it stands for
ButtonPress(p) ==
  LET q == Clicked(queue, p)
  IN /\ mouse' = [at |-> p, button |-> TRUE, start |-> p, dragging |-> FALSE]
     /\ queue' = Tail(IF q = <<>> THEN <<NoEvent>> ELSE q)
     /\ Report(IF q = <<>> THEN NoEvent ELSE Head(q))
     /\ dragged' = Nowhere
     /\ pressed' = "Pointer"

\* Mutant: the end of a drag does not clear `dragging`.
ReleaseKeepsDragging(otherwise) ==
  LET e == IF mouse.dragging THEN Pointer("DRAG_END", mouse) ELSE otherwise
  IN /\ mouse' = [mouse EXCEPT !.button = FALSE]
     /\ Report(e) /\ Track(e)
     /\ pressed' = "Pointer"
     /\ UNCHANGED queue

\* libinput's release is reported, X11's is not
ButtonRelease(otherwise) ==
  LET m == [mouse EXCEPT !.button = FALSE, !.dragging = FALSE]
      e == IF mouse.dragging THEN Pointer("DRAG_END", mouse) ELSE otherwise
  IN /\ mouse' = m
     /\ Report(e) /\ Track(e)
     /\ pressed' = "Pointer"
     /\ UNCHANGED queue

Far(p, q) == \E i \in 1 .. 2 : p[i] - q[i] > DeadZone \/ q[i] - p[i] > DeadZone

Motion(p) ==
  LET starts == mouse.button /\ ~mouse.dragging /\ Far(p, mouse.start)
      m == [mouse EXCEPT !.at = p, !.dragging = @ \/ starts]
      e == Pointer(IF starts THEN "DRAG_START"
                   ELSE IF m.dragging THEN "DRAG_MOVE" ELSE "MOTION", m)
  IN /\ mouse' = m
     /\ Report(e) /\ Track(e)
     /\ pressed' = "Pointer"
     /\ UNCHANGED queue

-----------------------------------------------------------------------------
(* DRM and libinput. *)

Clamp(i, n) == IF i < 0 THEN 0 ELSE IF i >= n THEN n - 1 ELSE i

\* setup_drm finds a connected screen and maps a buffer of its mode, or gives up
\* at one of its steps, having released what it had; the mode's size may already
\* be in pb then.
setup_drm == [ok : BOOLEAN, h : Heights]

\* What check_hotplug may leave behind: nothing was reported, or the device is
\* released and set up again.  When that fails drm_data and the pixels are left
\* as they were.
check_hotplug ==
  {[pb |-> pb, drm |-> drm_data, lost |-> lost]}
  \cup {[pb |-> [h |-> d.h, pixels |-> IF d.ok THEN d.h ELSE Freed],
         drm |-> IF d.ok THEN "live" ELSE "freed", lost |-> ~d.ok] :
           d \in {e \in setup_drm : drm_data = "live"}}

process_touch_event(p) ==
  /\ mouse' = [mouse EXCEPT !.at = p]
  /\ queue' = Clicked(queue, p)
  /\ Report(NoEvent)
  /\ pressed' = "Pointer"
  /\ UNCHANGED dragged

DrmNextEvent ==
  /\ Reads /\ output = "DRM"
  /\ \E after \in check_hotplug :
       /\ pb' = after.pb /\ drm_data' = after.drm /\ lost' = after.lost
       /\ \/ \E k \in Keys : PressKey(k, drm_key(k))
          \/ \E dx, dy \in -2 .. 2 :
               Motion(<<Clamp(mouse.at[1] + dx, Width),
                        Clamp(mouse.at[2] + dy, after.pb.h)>>)
          \/ ButtonPress(mouse.at)
          \/ ButtonRelease(Pointer("BUTTON", mouse))
          \/ Report(EventOf("SCROLL")) /\ UNCHANGED <<mouse, queue, dragged, pressed>>
          \/ \E p \in Points : process_touch_event(p)
  /\ UNCHANGED <<phase, output, running, tree, last_h>>

\* A device that is reported after that failure is released a second time.
HotplugAgain ==
  /\ Reads /\ output = "DRM" /\ drm_data = "freed"
  /\ phase' = "crashed"
  /\ UNCHANGED <<output, pb, drm_data, queue, mouse, running, tree, widget, last_h,
                 inputs, delivered, pressed, dragged, lost>>

-----------------------------------------------------------------------------
(* X11. *)

ConfigureNotify(h, allocated) ==
  /\ pb' = IF h = pb.h THEN pb ELSE [h |-> h, pixels |-> IF allocated THEN h ELSE Null]
  /\ lost' = (lost \/ (h # pb.h /\ ~allocated))
  /\ Report(IF h = pb.h THEN NoEvent ELSE EventOf("RESIZE"))
  /\ UNCHANGED <<mouse, queue, dragged, pressed>>

X11NextEvent ==
  /\ Reads /\ output = "X11"
  /\ \/ /\ \/ \E k \in Keys : PressKey(k, x11_key(k))
           \/ PressKey("Close", InputMacro.Escape)
           \/ \E p \in Points : Motion(p) \/ ButtonPress(p)
           \/ ButtonRelease(NoEvent)
        /\ UNCHANGED <<pb, lost>>
     \/ \E h \in Heights, allocated \in BOOLEAN : ConfigureNotify(h, allocated)
  /\ UNCHANGED <<phase, output, drm_data, running, tree, last_h>>

\* Ctrl-V asks for the selection and waits for it in a loop of its own, which
\* throws away every other event.
CtrlV ==
  /\ Reads /\ output = "X11"
  /\ phase' = "paste"
  /\ inputs' = inputs + 1 /\ delivered' = NoEvent
  /\ UNCHANGED <<output, pb, drm_data, queue, mouse, running, tree, widget, last_h,
                 pressed, dragged, lost>>

PasteDiscards ==
  /\ phase = "paste" /\ inputs < MaxInputs
  /\ inputs' = inputs + 1 /\ delivered' = NoEvent
  /\ UNCHANGED <<phase, output, pb, drm_data, queue, mouse, running, tree, widget,
                 last_h, pressed, dragged, lost>>

SelectionNotify ==
  /\ phase = "paste"
  /\ \E n \in Pastes : queue' = enqueue_event(queue, Repeat(n, Key(KEY_CHAR)))
  /\ phase' = "run"
  /\ Deliver(NoEvent)
  /\ UNCHANGED <<output, pb, drm_data, mouse, running, tree, last_h, inputs, pressed,
                 dragged, lost>>

-----------------------------------------------------------------------------
(* Wayland.  One dispatch runs the callbacks of all events that have come in; *)
(* they leave one key, one press, one place of the pointer and the pixels of  *)
(* the last size behind.                                                      *)

\* Sizes are configured one after the other, and any of them may lack memory:
\* create_shm_buffer releases the old mapping before it makes the new one.
Configured ==
  {[pb |-> pb, lost |-> lost]}
  \cup {[pb |-> [h |-> h, pixels |-> IF mapped THEN h ELSE Null],
         lost |-> lost \/ ~mapped \/ before] :
           h \in Heights, mapped \in BOOLEAN, before \in BOOLEAN}

wl_display_dispatch ==
  [key : Keys \cup {"none"}, press : BOOLEAN, at : Points \cup {mouse.at},
   running : BOOLEAN, size : Configured]

\* A change of size replaces the event of the same dispatch, a press its key.
\* The pointer's place is kept in mouse.at.
WaylandNextEvent ==
  /\ Reads /\ output = "WAYLAND" /\ running
  /\ \E w \in wl_display_dispatch :
       /\ pb' = w.size.pb /\ lost' = w.size.lost /\ running' = w.running
       /\ \/ /\ w.size.pb.h # pb.h
             /\ Report(EventOf("RESIZE"))
             /\ mouse' = [mouse EXCEPT !.at = w.at]
             /\ UNCHANGED <<queue, pressed, dragged>>
          \/ /\ w.size.pb.h = pb.h /\ ~w.running
             /\ Report(Key(KeyCode.Escape))
             /\ mouse' = [mouse EXCEPT !.at = w.at]
             /\ pressed' = "Close"
             /\ UNCHANGED <<queue, dragged>>
          \/ /\ w.size.pb.h = pb.h /\ w.running /\ w.press
             /\ ButtonPress(w.at)
          \/ /\ w.size.pb.h = pb.h /\ w.running /\ ~w.press
             /\ Report(IF w.key = "none" THEN NoEvent ELSE Key(wayland_key(w.key)))
             /\ mouse' = [mouse EXCEPT !.at = w.at]
             /\ pressed' = IF w.key = "none" THEN "Pointer" ELSE w.key
             /\ UNCHANGED <<queue, dragged>>
  /\ UNCHANGED <<phase, output, drm_data, tree, last_h>>

\* the window was closed in a dispatch whose event was replaced
WaylandClosed ==
  /\ Reads /\ output = "WAYLAND" /\ ~running
  /\ PressKey("Close", KeyCode.Escape)
  /\ UNCHANGED <<phase, output, pb, drm_data, running, tree, last_h, lost>>

-----------------------------------------------------------------------------
(* Start and end. *)

Init ==
  /\ phase = "start" /\ output = "none"
  /\ pb = [h |-> Default, pixels |-> Null] /\ drm_data = "null"
  /\ queue = <<>>
  /\ mouse = [at |-> <<0, 0>>, button |-> FALSE, start |-> <<0, 0>>, dragging |-> FALSE]
  /\ running = FALSE
  /\ tree = [type |-> "NULL"]
  /\ widget = [selected |-> 0, dirty |-> TRUE, answer |-> "none"]
  /\ last_h = Default /\ inputs = 0 /\ delivered = NoEvent
  /\ pressed = "none" /\ dragged = Nowhere /\ lost = FALSE

\* setup_wayland needs a compositor that answers and configures the window; it
\* takes over the size it is given, and does not look at what create_shm_buffer
\* returns before it fills the pixels.
setup_wayland == [ok : BOOLEAN, h : Heights, mapped : BOOLEAN]

\* setup_x11 needs a display; the window has the size the backend starts with
setup_x11 == [ok : BOOLEAN, h : {Default}]

setup_libinput == BOOLEAN

\* The environment names Wayland and X11; they are tried in this order, and DRM,
\* which needs libinput, when neither can be set up.
gcore_backend_init ==
  /\ phase = "start"
  /\ \E named \in SUBSET {"WAYLAND", "X11"}, li \in setup_libinput :
     \E w \in setup_wayland, x \in setup_x11, d \in setup_drm :
       LET out == IF "WAYLAND" \in named /\ w.ok THEN "WAYLAND"
                  ELSE IF "X11" \in named /\ x.ok THEN "X11"
                  ELSE IF d.ok /\ li THEN "DRM" ELSE "none"
           h == CASE out = "WAYLAND" -> w.h [] out = "X11" -> x.h [] OTHER -> d.h
           null == out = "none" \/ (out = "WAYLAND" /\ ~w.mapped)
       IN /\ output' = out
          /\ phase' = IF out = "none" THEN "failed" ELSE IF null THEN "crashed" ELSE "run"
          /\ pb' = [h |-> h, pixels |-> IF null THEN Null ELSE h]
          /\ drm_data' = IF out = "DRM" THEN "live" ELSE "null"
          /\ running' = (out = "WAYLAND")
          /\ last_h' = h
  /\ UNCHANGED <<queue, mouse, tree, widget, inputs, delivered, pressed, dragged, lost>>

\* the answer is given; drm_data that has been released is released again
gcore_backend_destroy ==
  /\ phase = "run" /\ widget.answer # "none"
  /\ phase' = IF output = "DRM" /\ drm_data = "freed" THEN "crashed" ELSE "ended"
  /\ pb' = [pb EXCEPT !.pixels = Null]
  /\ tree' = [type |-> "NULL"]
  /\ drm_data' = IF output = "DRM" THEN "freed" ELSE drm_data
  /\ running' = FALSE
  /\ UNCHANGED <<output, queue, mouse, widget, last_h, inputs, delivered, pressed,
                 dragged, lost>>

Next ==
  \/ gcore_backend_init \/ Draw \/ dequeue_event
  \/ DrmNextEvent \/ HotplugAgain
  \/ X11NextEvent \/ CtrlV \/ PasteDiscards \/ SelectionNotify
  \/ WaylandNextEvent \/ WaylandClosed
  \/ gcore_backend_destroy

Spec == Init /\ [][Next]_vars

-----------------------------------------------------------------------------
(* Properties. *)

(* Whenever a device is read, one frame is on the screen, in the copy that  *)
(* clicks are looked up in, and in the widget: the copy shows the selection *)
(* as it is now, it was laid out for the size the window has, and the       *)
(* pixels have room for exactly that size.  (On DRM the call that reads the *)
(* device may change the mode first: its own click is then looked up in the *)
(* frame the user saw.)  A process that dies on its pixels or devices does  *)
(* so after an allocation has failed.                                       *)
FrameCurrent ==
  /\ Ready =>
       /\ tree = menu_render(widget.selected, pb.h)
       /\ pb.pixels = pb.h \/ lost
       /\ Len(queue) < QueueSize
  /\ phase = "crashed" /\ inputs > 0 => lost
  /\ widget.selected \in 0 .. Rows - 1

(* session_run sees every drag whole: DRAG_MOVE and DRAG_END are reported    *)
(* only in a drag that DRAG_START has opened and no press has given up, they *)
(* name the place where that one began, and DRAG_START comes when the        *)
(* pointer has left the dead zone around it, never inside an open drag.      *)
DragBracketed ==
  [][inputs' # inputs =>
       /\ delivered'.type = "DRAG_START" =>
            dragged = Nowhere /\ Far(delivered'.at, delivered'.start)
       /\ delivered'.type \in {"DRAG_MOVE", "DRAG_END"} =>
            dragged # Nowhere /\ delivered'.start = dragged]_vars

(* Escape, and closing the window, cancel the dialog: src/spec.md:693 says  *)
(* "Enter/Space activates; Escape cancels/closes".                          *)
(* Refuted by TLC: on DRM and X11 it arrives as KEY_ENTER.                  *)
EscapeCancels ==
  pressed \in {"Escape", "Close"} /\ widget.answer # "none"
    => widget.answer = "cancelled"
=============================================================================
