------------------------ MODULE GCoreBackendProofs ------------------------
(***************************************************************************)
(* For menus of any length, windows of any height, any style, and rings of *)
(* any size: the frame that clicks are looked up in is the one shown       *)
(* (FrameCurrent), and drags are reported whole (DragBracketed).           *)
(***************************************************************************)
EXTENDS GCoreBackend, TLAPS

\* What clicks and pastes put into the ring.
KeyEvents == {Key(c) : c \in {InputMacro.Up, InputMacro.Down, InputMacro.Return, KEY_CHAR}}

Place == Nat \X Nat
Mouse == [at : Place, button : BOOLEAN, start : Place, dragging : BOOLEAN]
Menu == [selected : 0 .. Rows - 1, dirty : BOOLEAN, answer : {"none", "chosen", "cancelled"}]

Types ==
  /\ pb \in [h : Heights, pixels : Int]
  /\ widget \in Menu
  /\ queue \in Seq(KeyEvents) /\ Len(queue) < QueueSize
  /\ mouse \in Mouse
  /\ last_h \in Heights /\ inputs \in Nat /\ lost \in BOOLEAN

\* The session's loop is alive.
Serving == phase \in {"run", "paste"}

\* Until the widget asks for a new frame its state is the one drawn last.
CopyIsShown == Serving /\ ~widget.dirty => tree = menu_render(widget.selected, last_h)

\* The pixels fit the size, unless memory ran out; so does the device.
PixelsFit ==
  Serving => /\ pb.pixels = pb.h \/ lost
             /\ drm_data = "freed" => lost

\* Nothing was read or drawn before the loop, and what ends it is a lost buffer.
OutsideLoop ==
  /\ phase = "start" => inputs = 0 /\ widget.dirty
  /\ phase = "crashed" /\ inputs > 0 => lost

FrameInv == Types /\ CopyIsShown /\ PixelsFit /\ OutsideLoop

\* The backend and the session agree on whether a drag is open, and where it began.
DragInv == dragged = IF mouse.dragging THEN mouse.start ELSE Nowhere

-----------------------------------------------------------------------------
(* The menu.                                                               *)

LEMMA HeightsArePositive == \A h \in Heights : h \in Nat /\ h > 0
  <1>1. Heights \subseteq Nat \ {0}
    BY GCoreAssumption
  <1> QED BY <1>1

LEMMA Codes ==
  /\ KeyCode.Escape = 27 /\ KeyCode.Up = 4 /\ KeyCode.Down = 5 /\ KeyCode.Return = 1
  BY DEF KeyCode

(* Whatever event it is given, the selection stays among the choices, and  *)
(* the menu asks for a frame when it has moved.                            *)
LEMMA MenuKeeps ==
  ASSUME NEW w \in Menu, NEW code
  PROVE  LET v == menu_handle_event(w, code)
         IN v \in Menu /\ (~v.dirty => ~w.dirty /\ v.selected = w.selected)
  <1> DEFINE v == menu_handle_event(w, code)
             up == code = KeyCode.Up /\ w.selected > 0
             down == code = KeyCode.Down /\ w.selected + 1 < Rows
  <1>1. w.selected \in 0 .. Rows - 1 /\ Rows \in Nat
    BY GCoreAssumption DEF Menu
  <1>2. ASSUME NEW n \in 0 .. Rows - 1
        PROVE  LET m == [w EXCEPT !.selected = n, !.dirty = TRUE] IN m \in Menu /\ m.dirty
    BY DEF Menu
  <1>3. ASSUME NEW a \in {"chosen", "cancelled"}
        PROVE  LET m == [w EXCEPT !.answer = a]
               IN m \in Menu /\ m.dirty = w.dirty /\ m.selected = w.selected
    BY DEF Menu
  <1>4. CASE code = KeyCode.Escape
    <2>1. v = [w EXCEPT !.answer = "cancelled"]
      BY <1>4, Codes DEF menu_handle_event
    <2> HIDE DEF v
    <2> QED BY <1>3, <2>1 DEF v
  <1>5. CASE code # KeyCode.Escape /\ up
    <2>1. v = [w EXCEPT !.selected = w.selected - 1, !.dirty = TRUE]
      BY <1>5, Codes DEF menu_handle_event
    <2>2. w.selected - 1 \in 0 .. Rows - 1
      BY <1>1, <1>5
    <2> HIDE DEF v
    <2> QED BY <1>2, <2>1, <2>2 DEF v
  <1>6. CASE code # KeyCode.Escape /\ down
    <2>1. v = [w EXCEPT !.selected = w.selected + 1, !.dirty = TRUE]
      BY <1>6, Codes DEF menu_handle_event
    <2>2. w.selected + 1 \in 0 .. Rows - 1
      BY <1>1, <1>6
    <2> HIDE DEF v
    <2> QED BY <1>2, <2>1, <2>2 DEF v
  <1>7. CASE code = KeyCode.Return
    <2>1. v = [w EXCEPT !.answer = "chosen"]
      BY <1>7, Codes DEF menu_handle_event
    <2> HIDE DEF v
    <2> QED BY <1>3, <2>1 DEF v
  <1>8. CASE code \notin {KeyCode.Escape, KeyCode.Return} /\ ~up /\ ~down
    <2>1. v = w
      BY <1>8 DEF menu_handle_event
    <2> HIDE DEF v
    <2> QED BY <2>1 DEF v
  <1> QED BY <1>4, <1>5, <1>6, <1>7, <1>8

LEMMA SessionKeeps ==
  ASSUME NEW w \in Menu, NEW e
  PROVE  LET v == session_dispatch(w, e)
         IN v \in Menu /\ (~v.dirty => ~w.dirty /\ v.selected = w.selected)
  <1> DEFINE moves == e.type \in {"MOTION", "DRAG_START", "DRAG_MOVE", "DRAG_END"}
             keys == e.type = "KEY" /\ e.code # KeyCode.Tab
  <1>1. CASE moves
    <2>1. session_dispatch(w, e) = [w EXCEPT !.dirty = TRUE]
      BY <1>1 DEF session_dispatch
    <2> QED BY <2>1 DEF Menu
  <1>2. CASE ~moves /\ keys
    <2>1. session_dispatch(w, e) = menu_handle_event(w, e.code)
      BY <1>2 DEF session_dispatch
    <2> QED BY <2>1, MenuKeeps
  <1>3. CASE ~moves /\ ~keys
    <2>1. session_dispatch(w, e) = w
      BY <1>3 DEF session_dispatch
    <2> QED BY <2>1
  <1> QED BY <1>1, <1>2, <1>3

-----------------------------------------------------------------------------
(* Clicks, and the ring they go through.                                   *)

LEMMA RepeatIsSeq ==
  ASSUME NEW S, NEW e \in S, NEW n \in Int
  PROVE  Repeat(n, e) \in Seq(S)
  BY DEF Repeat

(* A click in a list is one in a row of it. *)
LEMMA ItemInList ==
  ASSUME NEW y \in Int, NEW top \in Int
  PROVE  ItemAt(y, top) \in 0 .. Rows - 1
  <1> USE GCoreAssumption
  <1> DEFINE item == Style.font_size + Style.top + Style.bottom
             height == IF item <= 0 THEN 20 ELSE item
             d == y - top - Style.margin - Style.top - Style.border
             index == d \div height
  <1>1. item \in Nat /\ d \in Int
    OBVIOUS
  <1>2. height \in Nat \ {0}
    <2> HIDE DEF item
    <2> QED BY <1>1
  <1>3. index \in Int
    <2> HIDE DEF height, d
    <2> QED BY <1>1, <1>2
  <1>4. ItemAt(y, top) = IF index < 0 THEN 0 ELSE IF index >= Rows THEN Rows - 1 ELSE index
    BY DEF ItemAt
  <1> HIDE DEF index
  <1> QED BY <1>3, <1>4

(* The ring takes what it has room for, and keeps one place free. *)
LEMMA RingKeeps ==
  ASSUME NEW S, NEW q \in Seq(S), Len(q) < QueueSize, NEW es \in Seq(S)
  PROVE  enqueue_event(q, es) \in Seq(S) /\ Len(enqueue_event(q, es)) < QueueSize
  <1> DEFINE room == QueueSize - 1 - Len(q)
             k == IF Len(es) > room THEN room ELSE Len(es)
             t == SubSeq(es, 1, k)
  <1>1. room \in Nat
    BY GCoreAssumption
  <1>2. k \in Nat /\ k <= room /\ k <= Len(es)
    <2> HIDE DEF room
    <2> QED BY <1>1
  <1>3. t \in Seq(S) /\ Len(t) = k
    <2> HIDE DEF k
    <2> QED BY <1>2
  <1>4. enqueue_event(q, es) = q \o t
    BY DEF enqueue_event
  <1>5. Len(q \o t) = Len(q) + k /\ q \o t \in Seq(S)
    <2> HIDE DEF t
    <2>1. q \o t \in Seq(S) /\ Len(q \o t) = Len(q) + Len(t)
      BY <1>3
    <2> QED BY <1>3, <2>1
  <1>6. Len(q) + k < QueueSize
    <2> HIDE DEF k
    <2> QED BY <1>2, GCoreAssumption
  <1> HIDE DEF k, t
  <1> QED BY <1>4, <1>5, <1>6

(* What is hit has a place on the screen and, if it is the list, a selection. *)
Hits == {<<>>} \cup {<<r>> : r \in [type : {"CONTAINER", "LIST", Leaf}, selected : Int, top : Int]}

LEMMA SomethingHit ==
  ASSUME NEW sel \in 0 .. Rows - 1, NEW h \in Heights, NEW p
  PROVE  hit_test(menu_render(sel, h), p) \in Hits
  <1> USE GCoreAssumption
  <1> DEFINE node == menu_render(sel, h)
             corner == Corner(node, <<0, 0>>)
             hits == {i \in DOMAIN node.children : Over(node.children[i], p, corner)}
             i == CHOOSE i \in hits : \A j \in hits : j <= i
  <1>1. /\ node.type = "CONTAINER" /\ node.selected = 0 /\ node.rect = Rect(0, 0, Width, h)
        /\ DOMAIN node.children = {1, 2}
        /\ node.children[1].type = "LIST" /\ node.children[1].selected = sel
        /\ node.children[2].type = Leaf /\ node.children[2].selected = 0
        /\ node.children[1].rect = Rect(0, 0, Width, Rows)
        /\ node.children[2].rect = Rect(0, 0, Width, 1)
    BY DEF menu_render
  <1> HIDE DEF node
  <1>2. corner = <<0, 0>>
    BY <1>1 DEF Corner, Rect
  <1>3. Hit(node, <<0, 0>>) = <<[type |-> "CONTAINER", selected |-> 0, top |-> 0]>>
    BY <1>1 DEF Hit, Corner, Rect
  <1>4. Hit(node.children[1], <<0, 0>>) = <<[type |-> "LIST", selected |-> sel, top |-> 0]>>
    BY <1>1 DEF Hit, Corner, Rect
  <1>5. Hit(node.children[2], <<0, 0>>) = <<[type |-> Leaf, selected |-> 0, top |-> 0]>>
    BY <1>1 DEF Hit, Corner, Rect
  <1> HIDE DEF corner
  <1>6. hits # {} => i \in {1, 2}
    <2>1. hits \subseteq {1, 2}
      BY <1>1
    <2> HIDE DEF hits
    <2>2. CASE 2 \in hits
      <3>1. \A j \in hits : j <= 2
        BY <2>1
      <3>2. \E m \in hits : \A j \in hits : j <= m
        BY <2>2, <3>1
      <3>3. i \in hits
        BY <3>2
      <3> QED BY <2>1, <3>3
    <2>3. CASE 2 \notin hits /\ hits # {}
      <3>1. hits = {1}
        BY <2>1, <2>3
      <3> QED BY <3>1
    <2> QED BY <2>2, <2>3
  <1>7. hit_test(node, p) = IF ~Over(node, p, <<0, 0>>) THEN <<>>
                            ELSE IF hits = {} THEN Hit(node, <<0, 0>>)
                            ELSE Hit(node.children[i], corner)
    BY DEF hit_test, corner
  <1>8. hit_test(node, p) \in {<<>>, Hit(node, <<0, 0>>), Hit(node.children[1], <<0, 0>>),
                               Hit(node.children[2], <<0, 0>>)}
    <2> HIDE DEF hits, i
    <2> QED BY <1>2, <1>6, <1>7
  <1>9. hit_test(node, p) \in Hits
    BY <1>3, <1>4, <1>5, <1>8 DEF Hits
  <1> QED BY <1>9 DEF node

(* A click becomes keys. *)
LEMMA ClicksAreKeys ==
  ASSUME NEW hit \in Hits, NEW p \in Place
  PROVE  synthesize_key_events(hit, p) \in Seq(KeyEvents)
  <1> DEFINE type == IF hit = <<>> THEN "none" ELSE hit[1].type
             index == ItemAt(p[2], hit[1].top)
             current == hit[1].selected
  <1>1. /\ Key(InputMacro.Up) \in KeyEvents /\ Key(InputMacro.Down) \in KeyEvents
        /\ Key(InputMacro.Return) \in KeyEvents /\ Key(KEY_CHAR) \in KeyEvents
    BY DEF KeyEvents
  <1>2. CASE type = "LIST"
    <2>1. hit[1].selected \in Int /\ hit[1].top \in Int
      BY <1>2 DEF Hits
    <2>2. index \in Int
      <3>1. p[2] \in Int
        BY DEF Place
      <3>2. ItemAt(p[2], hit[1].top) \in 0 .. Rows - 1
        BY <2>1, <3>1, ItemInList
      <3> QED BY <3>2, GCoreAssumption
    <2>3. synthesize_key_events(hit, p) = Repeat(current - index, Key(InputMacro.Up))
            \o Repeat(index - current, Key(InputMacro.Down)) \o <<Key(InputMacro.Return)>>
      BY <1>2 DEF synthesize_key_events
    <2>4. /\ Repeat(current - index, Key(InputMacro.Up)) \in Seq(KeyEvents)
          /\ Repeat(index - current, Key(InputMacro.Down)) \in Seq(KeyEvents)
      <3>1. current - index \in Int /\ index - current \in Int
        BY <2>1, <2>2
      <3> HIDE DEF index, current
      <3> QED BY <1>1, <3>1, RepeatIsSeq
    <2> DEFINE up == Repeat(current - index, Key(InputMacro.Up))
               down == Repeat(index - current, Key(InputMacro.Down))
               done == Key(InputMacro.Return)
    <2>5. up \in Seq(KeyEvents) /\ down \in Seq(KeyEvents) /\ done \in KeyEvents
      BY <1>1, <2>4
    <2>6. synthesize_key_events(hit, p) = up \o down \o <<done>>
      BY <2>3
    <2> HIDE DEF up, down, done
    <2> QED BY <2>5, <2>6
  <1>3. CASE type \in {"INPUT", "TEXT"}
    BY <1>1, <1>3 DEF synthesize_key_events
  <1>4. CASE type \in {"TOGGLE", "CHECKBOX"}
    BY <1>1, <1>4 DEF synthesize_key_events
  <1>5. CASE type \notin {"LIST", "INPUT", "TEXT", "TOGGLE", "CHECKBOX"}
    <2>1. synthesize_key_events(hit, p) = <<>>
      BY <1>5 DEF synthesize_key_events
    <2> QED BY <2>1
  <1> QED BY <1>2, <1>3, <1>4, <1>5

-----------------------------------------------------------------------------
(* One event of a device.                                                  *)

Drags == {"DRAG_START", "DRAG_MOVE", "DRAG_END"}

\* DragBracketed, of one step.
Bracket ==
  inputs' # inputs =>
    /\ delivered'.type = "DRAG_START" =>
         dragged = Nowhere /\ Far(delivered'.at, delivered'.start)
    /\ delivered'.type \in {"DRAG_MOVE", "DRAG_END"} =>
         dragged # Nowhere /\ delivered'.start = dragged

\* What reading an event leaves in order, whichever it is.
Input ==
  /\ mouse' \in Mouse
  /\ queue' \in Seq(KeyEvents) /\ Len(queue') < QueueSize
  /\ inputs' = inputs + 1
  /\ \E e : widget' = session_dispatch(widget, e)
  /\ DragInv' /\ Bracket

LEMMA EventFacts ==
  ASSUME NEW type, NEW code, NEW p, NEW start
  PROVE  LET e == Event(type, code, p, start)
         IN e.type = type /\ e.at = p /\ e.start = start
  BY DEF Event

(* An event that is no part of a drag. *)
LEMMA PlainInput ==
  ASSUME FrameInv, DragInv, NEW e, e.type \notin Drags, Report(e), UNCHANGED <<queue, dragged>>,
         mouse' \in Mouse, mouse'.start = mouse.start, mouse'.dragging = mouse.dragging
  PROVE  Input
  <1>1. inputs' = inputs + 1 /\ delivered' = e /\ widget' = session_dispatch(widget, e)
    BY DEF Report, Deliver
  <1>2. queue' \in Seq(KeyEvents) /\ Len(queue') < QueueSize
    BY DEF FrameInv, Types
  <1>3. DragInv'
    BY DEF DragInv
  <1>4. Bracket
    BY <1>1 DEF Bracket, Drags
  <1> QED BY <1>1, <1>2, <1>3, <1>4 DEF Input

LEMMA KeyInput ==
  ASSUME FrameInv, DragInv, NEW k, NEW code, PressKey(k, code)
  PROVE  Input
  <1>1. Key(code).type \notin Drags
    BY EventFacts DEF Key, Drags
  <1> QED BY <1>1, PlainInput DEF PressKey, FrameInv, Types

(* The pointer moved, and nothing else. *)
LEMMA PointerAt ==
  ASSUME NEW m \in Mouse, NEW p \in Place
  PROVE  LET n == [m EXCEPT !.at = p]
         IN n \in Mouse /\ n.start = m.start /\ n.dragging = m.dragging
  BY DEF Mouse

(* A place is somewhere. *)
LEMMA PlacesAreSomewhere == \A p \in Place : p # Nowhere
  BY DEF Place, Nowhere

(* A click in the frame that is shown. *)
LEMMA ClickKeeps ==
  ASSUME FrameInv, Ready, NEW p \in Place
  PROVE  Clicked(queue, p) \in Seq(KeyEvents) /\ Len(Clicked(queue, p)) < QueueSize
  <1> DEFINE hit == hit_test(tree, p)
             es == synthesize_key_events(hit, p)
  <1>1. tree = menu_render(widget.selected, last_h) /\ widget.selected \in 0 .. Rows - 1
        /\ last_h \in Heights
    BY DEF FrameInv, CopyIsShown, Serving, Ready, Types, Menu
  <1>2. hit \in Hits
    BY <1>1, SomethingHit
  <1>3. es \in Seq(KeyEvents)
    <2> HIDE DEF hit
    <2> QED BY <1>2, ClicksAreKeys
  <1>4. Clicked(queue, p) = enqueue_event(queue, es)
    BY DEF Clicked
  <1> HIDE DEF es
  <1> QED BY <1>3, <1>4, RingKeeps DEF FrameInv, Types

LEMMA TouchInput ==
  ASSUME FrameInv, DragInv, Ready, NEW p \in Place, process_touch_event(p)
  PROVE  Input
  <1>1. /\ mouse' = [mouse EXCEPT !.at = p] /\ queue' = Clicked(queue, p)
        /\ Report(NoEvent) /\ UNCHANGED dragged
    BY DEF process_touch_event
  <1>2. mouse' \in Mouse /\ mouse'.start = mouse.start /\ mouse'.dragging = mouse.dragging
    BY <1>1, PointerAt DEF FrameInv, Types
  <1>3. queue' \in Seq(KeyEvents) /\ Len(queue') < QueueSize
    BY <1>1, ClickKeeps
  <1>4. inputs' = inputs + 1 /\ delivered' = NoEvent /\ widget' = session_dispatch(widget, NoEvent)
    BY <1>1 DEF Report, Deliver
  <1>5. NoEvent.type = "NONE"
    BY EventFacts DEF NoEvent, EventOf
  <1>6. DragInv'
    BY <1>1, <1>2 DEF DragInv
  <1>7. Bracket
    BY <1>4, <1>5 DEF Bracket
  <1> QED BY <1>2, <1>3, <1>4, <1>6, <1>7 DEF Input

(* A press gives up the drag, and is answered by the keys of the click. *)
LEMMA PressInput ==
  ASSUME FrameInv, DragInv, Ready, NEW p \in Place, ButtonPress(p)
  PROVE  Input
  <1> DEFINE q == Clicked(queue, p)
             first == IF q = <<>> THEN NoEvent ELSE Head(q)
  <1>1. /\ mouse' = [at |-> p, button |-> TRUE, start |-> p, dragging |-> FALSE]
        /\ queue' = Tail(IF q = <<>> THEN <<NoEvent>> ELSE q)
        /\ Report(first) /\ dragged' = Nowhere
    BY DEF ButtonPress
  <1>2. q \in Seq(KeyEvents) /\ Len(q) < QueueSize
    BY ClickKeeps
  <1>3. NoEvent.type = "NONE"
    BY EventFacts DEF NoEvent, EventOf
  <1>4. \A e \in KeyEvents : e.type = "KEY"
    BY EventFacts DEF KeyEvents, Key
  <1> HIDE DEF q
  <1>5. first.type \notin Drags
    <2>1. CASE q = <<>>
      BY <1>3, <2>1 DEF Drags
    <2>2. CASE q # <<>>
      <3>1. Head(q) \in KeyEvents
        BY <1>2, <2>2
      <3> QED BY <1>4, <2>2, <3>1 DEF Drags
    <2> QED BY <2>1, <2>2
  <1>6. queue' \in Seq(KeyEvents) /\ Len(queue') < QueueSize
    <2>1. CASE q = <<>>
      <3>1. queue' = <<>>
        BY <1>1, <2>1
      <3> QED BY <3>1, GCoreAssumption
    <2>2. CASE q # <<>>
      <3>1. queue' = Tail(q)
        BY <1>1, <2>2
      <3>2. Tail(q) \in Seq(KeyEvents) /\ Len(Tail(q)) = Len(q) - 1
        BY <1>2, <2>2
      <3> QED BY <1>2, <3>1, <3>2, GCoreAssumption
    <2> QED BY <2>1, <2>2
  <1>7. mouse' \in Mouse /\ ~mouse'.dragging
    BY <1>1 DEF Mouse
  <1>8. DragInv'
    BY <1>1, <1>7 DEF DragInv
  <1> HIDE DEF first
  <1>9. inputs' = inputs + 1 /\ delivered' = first /\ widget' = session_dispatch(widget, first)
    BY <1>1 DEF Report, Deliver
  <1>10. Bracket
    BY <1>5, <1>9 DEF Bracket, Drags
  <1> QED BY <1>6, <1>7, <1>8, <1>9, <1>10 DEF Input

(* A release ends the drag that is open, if any. *)
LEMMA ReleaseInput ==
  ASSUME FrameInv, DragInv, NEW otherwise, otherwise.type \notin Drags, ButtonRelease(otherwise)
  PROVE  Input
  <1> DEFINE e == IF mouse.dragging THEN Pointer("DRAG_END", mouse) ELSE otherwise
  <1>1. /\ mouse' = [mouse EXCEPT !.button = FALSE, !.dragging = FALSE]
        /\ Report(e) /\ Track(e) /\ UNCHANGED queue
    BY DEF ButtonRelease
  <1>2. mouse \in Mouse
    BY DEF FrameInv, Types
  <1>3. mouse' \in Mouse /\ ~mouse'.dragging
    BY <1>1, <1>2 DEF Mouse
  <1>4. mouse.dragging => e.type = "DRAG_END" /\ e.start = mouse.start
    BY EventFacts DEF Pointer
  <1>5. ~mouse.dragging => e.type \notin Drags
    OBVIOUS
  <1> HIDE DEF e
  <1>6. mouse.start \in Place
    BY <1>2 DEF Mouse
  <1>7. mouse.dragging => dragged = mouse.start /\ dragged # Nowhere
    BY <1>6, PlacesAreSomewhere DEF DragInv
  <1>8. ~mouse.dragging => dragged = Nowhere
    BY DEF DragInv
  <1>9. dragged' = Nowhere
    BY <1>1, <1>4, <1>5, <1>8 DEF Track, Drags
  <1>10. DragInv'
    BY <1>3, <1>9 DEF DragInv
  <1>11. inputs' = inputs + 1 /\ delivered' = e /\ widget' = session_dispatch(widget, e)
    BY <1>1 DEF Report, Deliver
  <1>12. Bracket
    BY <1>4, <1>5, <1>7, <1>11 DEF Bracket, Drags
  <1>13. queue' \in Seq(KeyEvents) /\ Len(queue') < QueueSize
    BY <1>1 DEF FrameInv, Types
  <1> QED BY <1>3, <1>10, <1>11, <1>12, <1>13 DEF Input

(* A motion goes on with the drag that is open, or opens one when a button  *)
(* is down and the pointer has gone far from where it went down.            *)
LEMMA MotionInput ==
  ASSUME FrameInv, DragInv, NEW p \in Place, Motion(p)
  PROVE  Input
  <1> DEFINE starts == mouse.button /\ ~mouse.dragging /\ Far(p, mouse.start)
             on == mouse.dragging \/ starts
             m == [mouse EXCEPT !.at = p, !.dragging = on]
             type == IF starts THEN "DRAG_START" ELSE IF m.dragging THEN "DRAG_MOVE" ELSE "MOTION"
             e == Pointer(type, m)
  <1>1. mouse' = m /\ Report(e) /\ Track(e) /\ UNCHANGED queue
    BY DEF Motion
  <1>2. mouse \in Mouse
    BY DEF FrameInv, Types
  <1>3. on \in BOOLEAN
    BY Zenon
  <1>4. m \in Mouse /\ m.at = p /\ m.start = mouse.start /\ m.dragging = on
    <2> HIDE DEF on
    <2> QED BY <1>2, <1>3 DEF Mouse
  <1>5. e.type = type /\ e.at = p /\ e.start = mouse.start
    <2> HIDE DEF type, m
    <2> QED BY <1>4, EventFacts DEF Pointer
  <1>6. type = IF starts THEN "DRAG_START" ELSE IF mouse.dragging THEN "DRAG_MOVE" ELSE "MOTION"
    BY <1>4
  <1> HIDE DEF m, e, type
  <1>7. mouse.start \in Place
    BY <1>2 DEF Mouse
  <1>8. mouse.dragging => dragged = mouse.start /\ dragged # Nowhere
    BY <1>7, PlacesAreSomewhere DEF DragInv
  <1>9. ~mouse.dragging => dragged = Nowhere
    BY DEF DragInv
  <1>10. inputs' = inputs + 1 /\ delivered' = e /\ widget' = session_dispatch(widget, e)
    BY <1>1 DEF Report, Deliver
  <1>11. dragged' = IF starts THEN mouse.start ELSE dragged
    BY <1>1, <1>5, <1>6 DEF Track
  <1>12. DragInv'
    BY <1>1, <1>4, <1>8, <1>9, <1>11 DEF DragInv
  <1>13. Bracket
    BY <1>5, <1>6, <1>8, <1>9, <1>10 DEF Bracket
  <1>14. queue' \in Seq(KeyEvents) /\ Len(queue') < QueueSize
    BY <1>1 DEF FrameInv, Types
  <1> QED BY <1>1, <1>4, <1>10, <1>12, <1>13, <1>14 DEF Input

-----------------------------------------------------------------------------
(* The steps.                                                              *)

Buffer == [h : Heights, pixels : Int]

(* The session takes an event while the frame it has drawn stays. *)
LEMMA Served ==
  ASSUME FrameInv, Serving, Serving', NEW e, widget' = session_dispatch(widget, e),
         UNCHANGED <<tree, last_h>>, inputs' \in Nat, mouse' \in Mouse,
         queue' \in Seq(KeyEvents), Len(queue') < QueueSize,
         pb' \in Buffer, lost' \in BOOLEAN,
         pb'.pixels = pb'.h \/ lost', drm_data' = "freed" => lost'
  PROVE  FrameInv'
  <1>1. widget \in Menu
    BY DEF FrameInv, Types
  <1>2. widget' \in Menu /\ (~widget'.dirty => ~widget.dirty /\ widget'.selected = widget.selected)
    BY <1>1, SessionKeeps
  <1>3. Types'
    BY <1>2 DEF FrameInv, Types, Buffer
  <1>4. CopyIsShown'
    BY <1>2 DEF FrameInv, CopyIsShown
  <1>5. PixelsFit'
    BY DEF PixelsFit
  <1>6. OutsideLoop'
    BY DEF OutsideLoop, Serving
  <1> QED BY <1>3, <1>4, <1>5, <1>6 DEF FrameInv

(* An event of a device, with what it did to the pixels. *)
LEMMA InputServed ==
  ASSUME FrameInv, Reads, Input, UNCHANGED <<phase, tree, last_h>>,
         pb' \in Buffer, lost' \in BOOLEAN,
         pb'.pixels = pb'.h \/ lost', drm_data' = "freed" => lost'
  PROVE  FrameInv' /\ DragInv' /\ Bracket
  <1>1. PICK e : widget' = session_dispatch(widget, e)
    BY DEF Input
  <1>2. Serving /\ Serving'
    BY DEF Serving, Reads, Ready
  <1>3. inputs' \in Nat
    BY DEF FrameInv, Types, Input
  <1> QED BY <1>1, <1>2, <1>3, Served DEF Input

(* What is there before an event. *)
LEMMA BeforeInput ==
  ASSUME FrameInv, Reads
  PROVE  /\ Ready /\ pb \in Buffer /\ lost \in BOOLEAN /\ mouse \in Mouse
         /\ pb.pixels = pb.h \/ lost
         /\ drm_data = "freed" => lost
  BY DEF FrameInv, Types, PixelsFit, Serving, Reads, Ready, Buffer

(* Where the pointer can be reported. *)
LEMMA PointsArePlaces == Points \subseteq Place
  <1>1. ASSUME NEW p \in Points PROVE p \in Place
    <2>1. p[1] \in 0 .. Width - 1 /\ p[2] \in UNION {0 .. h : h \in Heights} /\ p = <<p[1], p[2]>>
      BY DEF Points
    <2>2. PICK h \in Heights : p[2] \in 0 .. h
      BY <2>1
    <2>3. h \in Nat /\ Width \in Nat
      BY GCoreAssumption
    <2>4. p[1] \in Nat /\ p[2] \in Nat
      BY <2>1, <2>2, <2>3
    <2> QED BY <2>1, <2>4 DEF Place
  <1> QED BY <1>1

LEMMA NoDrags ==
  /\ NoEvent.type \notin Drags
  /\ \A t \in {"SCROLL", "RESIZE"} : EventOf(t).type \notin Drags
  /\ \A c : Key(c).type \notin Drags
  /\ Pointer("BUTTON", mouse).type \notin Drags
  BY EventFacts DEF NoEvent, EventOf, Key, Pointer, Drags

(* DRM: a screen that is plugged in changes the pixels before the event. *)
LEMMA DrmKeeps ==
  ASSUME FrameInv, DragInv, DrmNextEvent
  PROVE  FrameInv' /\ DragInv' /\ Bracket
  <1>1. PICK after \in check_hotplug :
           /\ pb' = after.pb /\ drm_data' = after.drm /\ lost' = after.lost
           /\ \/ \E k \in Keys : PressKey(k, drm_key(k))
              \/ \E dx, dy \in -2 .. 2 :
                   Motion(<<Clamp(mouse.at[1] + dx, Width),
                            Clamp(mouse.at[2] + dy, after.pb.h)>>)
              \/ ButtonPress(mouse.at)
              \/ ButtonRelease(Pointer("BUTTON", mouse))
              \/ Report(EventOf("SCROLL")) /\ UNCHANGED <<mouse, queue, dragged, pressed>>
              \/ \E p \in Points : process_touch_event(p)
    BY DEF DrmNextEvent
  <1>2. Reads /\ UNCHANGED <<phase, tree, last_h>>
    BY DEF DrmNextEvent
  <1>3. /\ Ready /\ pb \in Buffer /\ lost \in BOOLEAN /\ mouse \in Mouse
        /\ pb.pixels = pb.h \/ lost
        /\ drm_data = "freed" => lost
    BY <1>2, BeforeInput
  <1>4. /\ after.pb \in Buffer /\ after.lost \in BOOLEAN
        /\ after.pb.pixels = after.pb.h \/ after.lost
        /\ after.drm = "freed" => after.lost
    <2>1. CASE after = [pb |-> pb, drm |-> drm_data, lost |-> lost]
      BY <1>3, <2>1
    <2>2. ASSUME NEW d \in setup_drm,
                 after = [pb |-> [h |-> d.h, pixels |-> IF d.ok THEN d.h ELSE Freed],
                          drm |-> IF d.ok THEN "live" ELSE "freed", lost |-> ~d.ok]
          PROVE  /\ after.pb \in Buffer /\ after.lost \in BOOLEAN
                 /\ after.pb.pixels = after.pb.h \/ after.lost
                 /\ after.drm = "freed" => after.lost
      <3>1. d.h \in Heights /\ d.h \in Int
        <4>1. d.h \in Heights
          BY DEF setup_drm
        <4> QED BY <4>1, HeightsArePositive
      <3>2. CASE d.ok
        BY <2>2, <3>1, <3>2 DEF Buffer
      <3>3. CASE ~d.ok
        <4> DEFINE none == [h |-> d.h, pixels |-> -1]
        <4>1. none \in Buffer
          BY <3>1 DEF Buffer
        <4>2. after.pb = none
          BY <2>2, <3>3 DEF Freed
        <4>3. after.lost = TRUE
          BY <2>2, <3>3
        <4> HIDE DEF none
        <4> QED BY <4>1, <4>2, <4>3
      <3> QED BY <3>2, <3>3
    <2> QED BY <2>1, <2>2 DEF check_hotplug
  <1>5. mouse.at \in Place
    BY <1>3 DEF Mouse
  <1>6. Input
    <2>1. CASE \E k \in Keys : PressKey(k, drm_key(k))
      BY <2>1, KeyInput
    <2>2. ASSUME NEW dx \in -2 .. 2, NEW dy \in -2 .. 2,
                 Motion(<<Clamp(mouse.at[1] + dx, Width), Clamp(mouse.at[2] + dy, after.pb.h)>>)
          PROVE  Input
      <3> DEFINE p == <<Clamp(mouse.at[1] + dx, Width), Clamp(mouse.at[2] + dy, after.pb.h)>>
      <3>1. mouse.at[1] + dx \in Int /\ mouse.at[2] + dy \in Int
        BY <1>5 DEF Place
      <3>2. Width \in Nat \ {0} /\ after.pb.h \in Nat \ {0}
        BY <1>4, GCoreAssumption DEF Buffer
      <3>3. \A i \in Int, n \in Nat \ {0} : Clamp(i, n) \in Nat
        BY DEF Clamp
      <3>4. p \in Place
        BY <3>1, <3>2, <3>3 DEF Place
      <3> HIDE DEF p
      <3> QED BY <2>2, <3>4, MotionInput DEF p
    <2>3. CASE ButtonPress(mouse.at)
      BY <1>3, <1>5, <2>3, PressInput
    <2>4. CASE ButtonRelease(Pointer("BUTTON", mouse))
      BY <2>4, ReleaseInput, NoDrags
    <2>5. CASE Report(EventOf("SCROLL")) /\ UNCHANGED <<mouse, queue, dragged, pressed>>
      <3>1. EventOf("SCROLL").type \notin Drags
        BY NoDrags
      <3> QED BY <1>3, <2>5, <3>1, PlainInput
    <2>6. ASSUME NEW p \in Points, process_touch_event(p) PROVE Input
      <3>1. p \in Place
        BY PointsArePlaces
      <3> QED BY <1>3, <2>6, <3>1, TouchInput
    <2> QED BY <1>1, <2>1, <2>2, <2>3, <2>4, <2>5, <2>6
  <1> QED BY <1>1, <1>2, <1>4, <1>6, InputServed

(* X11: a window that is resized gets new pixels, or none. *)
LEMMA X11Keeps ==
  ASSUME FrameInv, DragInv, X11NextEvent
  PROVE  FrameInv' /\ DragInv' /\ Bracket
  <1>1. Reads /\ UNCHANGED <<phase, drm_data, tree, last_h>>
    BY DEF X11NextEvent
  <1>2. /\ Ready /\ pb \in Buffer /\ lost \in BOOLEAN /\ mouse \in Mouse
        /\ pb.pixels = pb.h \/ lost
        /\ drm_data = "freed" => lost
    BY <1>1, BeforeInput
  <1>3. ASSUME UNCHANGED <<pb, lost>>, Input PROVE FrameInv' /\ DragInv' /\ Bracket
    BY <1>1, <1>2, <1>3, InputServed
  <1>4. ASSUME NEW k, NEW code, PressKey(k, code) PROVE Input
    BY <1>4, KeyInput
  <1>5. ASSUME NEW p \in Points, Motion(p) \/ ButtonPress(p) PROVE Input
    <2>1. p \in Place
      BY PointsArePlaces
    <2> QED BY <1>2, <1>5, <2>1, MotionInput, PressInput
  <1>6. ASSUME ButtonRelease(NoEvent) PROVE Input
    BY <1>6, ReleaseInput, NoDrags
  <1>7. ASSUME NEW h \in Heights, NEW allocated \in BOOLEAN, ConfigureNotify(h, allocated)
        PROVE  FrameInv' /\ DragInv' /\ Bracket
    <2> DEFINE e == IF h = pb.h THEN NoEvent ELSE EventOf("RESIZE")
    <2>1. Report(e) /\ UNCHANGED <<mouse, queue, dragged>>
      BY <1>7 DEF ConfigureNotify
    <2>2. e.type \notin Drags
      BY NoDrags
    <2> HIDE DEF e
    <2>3. Input
      BY <1>2, <2>1, <2>2, PlainInput
    <2>4. lost' \in BOOLEAN /\ (lost => lost')
      BY <1>2, <1>7 DEF ConfigureNotify
    <2>5. pb' \in Buffer /\ (pb'.pixels = pb'.h \/ lost')
      <3>1. CASE h = pb.h
        BY <1>2, <1>7, <2>4, <3>1 DEF ConfigureNotify
      <3>2. CASE h # pb.h /\ allocated
        <4>1. pb' = [h |-> h, pixels |-> h] /\ h \in Int
          BY <1>7, <3>2, GCoreAssumption DEF ConfigureNotify
        <4> QED BY <4>1 DEF Buffer
      <3>3. CASE h # pb.h /\ ~allocated
        <4>1. pb' = [h |-> h, pixels |-> 0] /\ lost'
          BY <1>7, <3>3 DEF ConfigureNotify, Null
        <4> QED BY <4>1 DEF Buffer
      <3> QED BY <3>1, <3>2, <3>3
    <2> QED BY <1>1, <1>2, <2>3, <2>4, <2>5, InputServed
  <1> QED BY <1>3, <1>4, <1>5, <1>6, <1>7 DEF X11NextEvent

(* What the sizes of one dispatch leave of the pixels. *)
LEMMA ConfiguredFits ==
  ASSUME FrameInv, Reads, NEW c \in Configured
  PROVE  /\ c.pb \in Buffer /\ c.lost \in BOOLEAN
         /\ c.pb.pixels = c.pb.h \/ c.lost
         /\ lost => c.lost
  <1>1. /\ pb \in Buffer /\ lost \in BOOLEAN /\ (pb.pixels = pb.h \/ lost)
    BY BeforeInput
  <1>2. CASE c = [pb |-> pb, lost |-> lost]
    BY <1>1, <1>2
  <1>3. ASSUME NEW h \in Heights, NEW mapped \in BOOLEAN, NEW before \in BOOLEAN,
               c = [pb |-> [h |-> h, pixels |-> IF mapped THEN h ELSE Null],
                    lost |-> lost \/ ~mapped \/ before]
        PROVE  /\ c.pb \in Buffer /\ c.lost \in BOOLEAN
               /\ c.pb.pixels = c.pb.h \/ c.lost
               /\ lost => c.lost
    <2> DEFINE bad == lost \/ ~mapped \/ before
               room == IF mapped THEN h ELSE Null
    <2>1. bad \in BOOLEAN /\ (lost => bad) /\ (~mapped => bad)
      BY Zenon
    <2>2. room \in Int /\ (mapped => room = h)
      BY HeightsArePositive DEF Null
    <2>3. c = [pb |-> [h |-> h, pixels |-> room], lost |-> bad]
      BY <1>3, Zenon
    <2> HIDE DEF bad, room
    <2>4. c.pb = [h |-> h, pixels |-> room] /\ c.lost = bad
      BY <2>3
    <2>5. c.pb \in Buffer /\ c.pb.h = h /\ c.pb.pixels = room
      BY <2>2, <2>4 DEF Buffer
    <2> QED BY <2>1, <2>2, <2>4, <2>5
  <1> QED BY <1>2, <1>3 DEF Configured

(* Wayland: one dispatch, and one event of it. *)
LEMMA WaylandKeeps ==
  ASSUME FrameInv, DragInv, WaylandNextEvent
  PROVE  FrameInv' /\ DragInv' /\ Bracket
  <1>1. Reads /\ UNCHANGED <<phase, drm_data, tree, last_h>>
    BY DEF WaylandNextEvent
  <1>2. /\ Ready /\ mouse \in Mouse /\ (drm_data = "freed" => lost)
    BY <1>1, BeforeInput
  <1>3. PICK w \in wl_display_dispatch :
          /\ pb' = w.size.pb /\ lost' = w.size.lost
          /\ \/ /\ Report(EventOf("RESIZE"))
                /\ mouse' = [mouse EXCEPT !.at = w.at]
                /\ UNCHANGED <<queue, pressed, dragged>>
             \/ /\ Report(Key(KeyCode.Escape))
                /\ mouse' = [mouse EXCEPT !.at = w.at]
                /\ UNCHANGED <<queue, dragged>>
             \/ ButtonPress(w.at)
             \/ /\ Report(IF w.key = "none" THEN NoEvent ELSE Key(wayland_key(w.key)))
                /\ mouse' = [mouse EXCEPT !.at = w.at]
                /\ UNCHANGED <<queue, dragged>>
    BY DEF WaylandNextEvent
  <1>4. w.size \in Configured /\ w.at \in Points \cup {mouse.at}
    BY DEF wl_display_dispatch
  <1>5. /\ pb' \in Buffer /\ lost' \in BOOLEAN /\ (pb'.pixels = pb'.h \/ lost')
        /\ lost => lost'
    BY <1>1, <1>3, <1>4, ConfiguredFits
  <1>6. w.at \in Place
    BY <1>2, <1>4, PointsArePlaces DEF Mouse
  <1>7. ASSUME NEW e, e.type \notin Drags, Report(e), mouse' = [mouse EXCEPT !.at = w.at],
               UNCHANGED <<queue, dragged>>
        PROVE  Input
    <2>1. mouse' \in Mouse /\ mouse'.start = mouse.start /\ mouse'.dragging = mouse.dragging
      BY <1>2, <1>6, <1>7, PointerAt
    <2> QED BY <1>7, <2>1, PlainInput
  <1>8. Input
    <2>1. CASE Report(EventOf("RESIZE")) /\ mouse' = [mouse EXCEPT !.at = w.at]
               /\ UNCHANGED <<queue, pressed, dragged>>
      BY <1>7, <2>1, NoDrags
    <2>2. CASE Report(Key(KeyCode.Escape)) /\ mouse' = [mouse EXCEPT !.at = w.at]
               /\ UNCHANGED <<queue, dragged>>
      BY <1>7, <2>2, NoDrags
    <2>3. CASE ButtonPress(w.at)
      BY <1>2, <1>6, <2>3, PressInput
    <2>4. CASE Report(IF w.key = "none" THEN NoEvent ELSE Key(wayland_key(w.key)))
               /\ mouse' = [mouse EXCEPT !.at = w.at] /\ UNCHANGED <<queue, dragged>>
      <3> DEFINE e == IF w.key = "none" THEN NoEvent ELSE Key(wayland_key(w.key))
      <3>1. e.type \notin Drags
        BY NoDrags
      <3> HIDE DEF e
      <3> QED BY <1>7, <2>4, <3>1 DEF e
    <2> QED BY <1>3, <2>1, <2>2, <2>3, <2>4
  <1> QED BY <1>1, <1>2, <1>5, <1>8, InputServed

LEMMA WaylandClosedKeeps ==
  ASSUME FrameInv, DragInv, WaylandClosed
  PROVE  FrameInv' /\ DragInv' /\ Bracket
  <1>1. Reads /\ UNCHANGED <<phase, pb, drm_data, tree, last_h, lost>>
    BY DEF WaylandClosed
  <1>2. Input
    BY KeyInput DEF WaylandClosed
  <1>3. /\ pb \in Buffer /\ lost \in BOOLEAN /\ (pb.pixels = pb.h \/ lost)
        /\ drm_data = "freed" => lost
    BY <1>1, BeforeInput
  <1> QED BY <1>1, <1>2, <1>3, InputServed

(* Events from the ring, and pastes. *)
LEMMA RingStepKeeps ==
  ASSUME FrameInv, DragInv, dequeue_event \/ SelectionNotify
  PROVE  FrameInv' /\ DragInv' /\ Bracket
  <1>1. /\ Serving /\ Serving' /\ UNCHANGED <<pb, drm_data, mouse, tree, last_h, inputs, dragged, lost>>
    BY DEF dequeue_event, SelectionNotify, Serving, Ready
  <1>2. PICK e : widget' = session_dispatch(widget, e)
    BY DEF dequeue_event, SelectionNotify, Deliver
  <1>3. /\ queue \in Seq(KeyEvents) /\ Len(queue) < QueueSize /\ inputs \in Nat
        /\ pb \in Buffer /\ lost \in BOOLEAN /\ mouse \in Mouse
        /\ pb.pixels = pb.h \/ lost
        /\ drm_data = "freed" => lost
    BY <1>1 DEF FrameInv, Types, Buffer, PixelsFit
  <1>4. queue' \in Seq(KeyEvents) /\ Len(queue') < QueueSize
    <2>1. CASE dequeue_event
      <3>1. queue # <<>> /\ queue' = Tail(queue)
        BY <2>1 DEF dequeue_event
      <3>2. Tail(queue) \in Seq(KeyEvents) /\ Len(Tail(queue)) = Len(queue) - 1
        BY <1>3, <3>1
      <3> QED BY <1>3, <3>1, <3>2, GCoreAssumption
    <2>2. CASE SelectionNotify
      <3>1. PICK n \in Pastes : queue' = enqueue_event(queue, Repeat(n, Key(KEY_CHAR)))
        BY <2>2 DEF SelectionNotify
      <3>2. n \in Int
        BY GCoreAssumption
      <3>3. Key(KEY_CHAR) \in KeyEvents
        BY DEF KeyEvents
      <3> DEFINE es == Repeat(n, Key(KEY_CHAR))
      <3>4. es \in Seq(KeyEvents)
        BY <3>2, <3>3, RepeatIsSeq
      <3> HIDE DEF es
      <3> QED BY <1>3, <3>1, <3>4, RingKeeps DEF es
    <2> QED BY <2>1, <2>2
  <1>5. FrameInv'
    BY <1>1, <1>2, <1>3, <1>4, Served
  <1>6. DragInv' /\ Bracket
    BY <1>1 DEF DragInv, Bracket
  <1> QED BY <1>5, <1>6

(* While a paste is awaited every other event is thrown away. *)
LEMMA PasteKeeps ==
  ASSUME FrameInv, DragInv, CtrlV \/ PasteDiscards
  PROVE  FrameInv' /\ DragInv' /\ Bracket
  <1>1. /\ Serving /\ Serving' /\ inputs' = inputs + 1 /\ delivered' = NoEvent
        /\ UNCHANGED <<pb, drm_data, queue, mouse, tree, widget, last_h, dragged, lost>>
    BY DEF CtrlV, PasteDiscards, Serving, Reads, Ready
  <1>2. Types' /\ CopyIsShown' /\ PixelsFit'
    BY <1>1 DEF FrameInv, Types, CopyIsShown, PixelsFit
  <1>3. OutsideLoop'
    BY <1>1 DEF OutsideLoop, Serving
  <1>4. Bracket
    BY <1>1, NoDrags DEF Bracket, Drags
  <1> QED BY <1>1, <1>2, <1>3, <1>4 DEF FrameInv, DragInv

(* Drawing makes the copy the frame of the widget; it only follows pixels    *)
(* that are there unless memory ran out.                                     *)
LEMMA DrawKeeps ==
  ASSUME FrameInv, DragInv, Draw
  PROVE  FrameInv' /\ DragInv' /\ Bracket
  <1>1. /\ phase = "run" /\ tree' = menu_render(widget.selected, pb.h)
        /\ phase' = (IF pb.pixels \in {Null, Freed} THEN "crashed" ELSE phase)
        /\ widget' = [widget EXCEPT !.dirty = FALSE] /\ last_h' = pb.h
        /\ UNCHANGED <<pb, drm_data, queue, mouse, inputs, dragged, lost>>
    BY DEF Draw, gcore_backend_draw
  <1>2. widget \in Menu /\ pb \in Buffer
    BY DEF FrameInv, Types, Buffer
  <1>3. widget' \in Menu /\ widget'.selected = widget.selected
    BY <1>1, <1>2 DEF Menu
  <1>4. Types'
    BY <1>1, <1>2, <1>3 DEF FrameInv, Types, Buffer
  <1>5. CopyIsShown'
    BY <1>1, <1>3 DEF CopyIsShown
  <1>6. /\ pb.pixels = pb.h \/ lost
        /\ drm_data = "freed" => lost
    BY <1>1 DEF FrameInv, PixelsFit, Serving
  <1>7. PixelsFit'
    BY <1>1, <1>6 DEF PixelsFit
  <1>8. OutsideLoop'
    <2>1. pb.h \in Nat /\ pb.h > 0
      BY <1>2, HeightsArePositive DEF Buffer
    <2>2. phase' = "crashed" => lost
      BY <1>1, <1>6, <2>1 DEF Null, Freed
    <2>3. phase' # "start"
      BY <1>1
    <2> QED BY <1>1, <2>2, <2>3 DEF OutsideLoop
  <1>9. DragInv' /\ Bracket
    BY <1>1 DEF DragInv, Bracket
  <1> QED BY <1>4, <1>5, <1>7, <1>8, <1>9 DEF FrameInv

(* The process that dies of a device released twice has lost its pixels. *)
LEMMA EndKeeps ==
  ASSUME FrameInv, DragInv, HotplugAgain \/ gcore_backend_destroy
  PROVE  FrameInv' /\ DragInv' /\ Bracket
  <1>1. /\ Serving /\ phase' \in {"crashed", "ended"} /\ (phase' = "crashed" => drm_data = "freed")
        /\ UNCHANGED <<queue, mouse, widget, last_h, inputs, dragged, lost>>
    BY DEF HotplugAgain, gcore_backend_destroy, Serving, Reads, Ready
  <1>2. pb' \in Buffer
    <2>1. pb \in Buffer
      BY DEF FrameInv, Types, Buffer
    <2>2. pb' = pb \/ pb' = [pb EXCEPT !.pixels = Null]
      BY DEF HotplugAgain, gcore_backend_destroy
    <2> QED BY <2>1, <2>2 DEF Buffer, Null
  <1>3. Types'
    BY <1>1, <1>2 DEF FrameInv, Types, Buffer
  <1>4. ~Serving'
    BY <1>1 DEF Serving
  <1>5. CopyIsShown' /\ PixelsFit'
    BY <1>4 DEF CopyIsShown, PixelsFit
  <1>6. OutsideLoop'
    BY <1>1 DEF FrameInv, PixelsFit, OutsideLoop
  <1>7. DragInv' /\ Bracket
    BY <1>1 DEF DragInv, Bracket
  <1> QED BY <1>3, <1>5, <1>6, <1>7 DEF FrameInv

(* The backend that starts has pixels, or the process is not yet serving. *)
LEMMA StartKeeps ==
  ASSUME FrameInv, DragInv, gcore_backend_init
  PROVE  FrameInv' /\ DragInv' /\ Bracket
  <1>1. phase = "start" /\ UNCHANGED <<queue, mouse, tree, widget, inputs, dragged, lost>>
    BY DEF gcore_backend_init
  <1>2. inputs = 0 /\ widget.dirty
    BY <1>1 DEF FrameInv, OutsideLoop
  <1>3. PICK h \in Heights, null \in BOOLEAN :
          /\ pb' = [h |-> h, pixels |-> IF null THEN Null ELSE h]
          /\ phase' \in {"failed", "crashed", "run"} /\ (phase' = "run" => ~null)
          /\ drm_data' \in {"live", "null"} /\ last_h' = h
    <2>1. PICK named \in SUBSET {"WAYLAND", "X11"}, li \in setup_libinput,
               w \in setup_wayland, x \in setup_x11, d \in setup_drm :
            LET out == IF "WAYLAND" \in named /\ w.ok THEN "WAYLAND"
                       ELSE IF "X11" \in named /\ x.ok THEN "X11"
                       ELSE IF d.ok /\ li THEN "DRM" ELSE "none"
                h == CASE out = "WAYLAND" -> w.h [] out = "X11" -> x.h [] OTHER -> d.h
                null == out = "none" \/ (out = "WAYLAND" /\ ~w.mapped)
            IN /\ phase' = IF out = "none" THEN "failed" ELSE IF null THEN "crashed" ELSE "run"
               /\ pb' = [h |-> h, pixels |-> IF null THEN Null ELSE h]
               /\ drm_data' = IF out = "DRM" THEN "live" ELSE "null"
               /\ last_h' = h
      BY DEF gcore_backend_init
    <2> DEFINE out == IF "WAYLAND" \in named /\ w.ok THEN "WAYLAND"
                      ELSE IF "X11" \in named /\ x.ok THEN "X11"
                      ELSE IF d.ok /\ li THEN "DRM" ELSE "none"
               h == CASE out = "WAYLAND" -> w.h [] out = "X11" -> x.h [] OTHER -> d.h
               null == out = "none" \/ (out = "WAYLAND" /\ ~w.mapped)
    <2>2. w.h \in Heights /\ x.h \in Heights /\ d.h \in Heights
      <3>1. w.h \in Heights
        BY DEF setup_wayland
      <3>2. x.h = Default
        BY DEF setup_x11
      <3>3. d.h \in Heights
        BY DEF setup_drm
      <3> QED BY <3>1, <3>2, <3>3, GCoreAssumption
    <2>3. /\ phase' = (IF out = "none" THEN "failed" ELSE IF null THEN "crashed" ELSE "run")
          /\ pb' = [h |-> h, pixels |-> IF null THEN Null ELSE h]
          /\ drm_data' = (IF out = "DRM" THEN "live" ELSE "null")
          /\ last_h' = h
      BY <2>1
    <2>4. null \in BOOLEAN
      BY Zenon
    <2> HIDE DEF out
    <2>5. h \in Heights
      BY <2>2
    <2> HIDE DEF h
    <2>6. phase' = "run" => ~null
      BY <2>3
    <2> HIDE DEF null
    <2>7. phase' \in {"failed", "crashed", "run"} /\ drm_data' \in {"live", "null"}
      BY <2>3
    <2> QED BY <2>3, <2>4, <2>5, <2>6, <2>7
  <1>4. pb' \in Buffer /\ (~null => pb'.pixels = pb'.h) /\ last_h' \in Heights
    <2>1. h \in Int
      BY HeightsArePositive
    <2>2. CASE null
      BY <1>3, <2>1, <2>2 DEF Buffer, Null
    <2>3. CASE ~null
      BY <1>3, <2>1, <2>3 DEF Buffer
    <2> QED BY <2>2, <2>3
  <1>5. Types'
    BY <1>1, <1>4 DEF FrameInv, Types, Buffer
  <1>6. CopyIsShown'
    BY <1>1, <1>2 DEF CopyIsShown
  <1>7. PixelsFit'
    BY <1>3, <1>4 DEF PixelsFit, Serving
  <1>8. OutsideLoop'
    BY <1>1, <1>2, <1>3 DEF OutsideLoop
  <1>9. DragInv' /\ Bracket
    BY <1>1 DEF DragInv, Bracket
  <1> QED BY <1>5, <1>6, <1>7, <1>8, <1>9 DEF FrameInv

-----------------------------------------------------------------------------
(* The theorems.                                                           *)

LEMMA StartsInOrder == ASSUME Init PROVE FrameInv /\ DragInv
  <1>1. /\ phase = "start" /\ pb = [h |-> Default, pixels |-> 0] /\ queue = <<>>
        /\ widget = [selected |-> 0, dirty |-> TRUE, answer |-> "none"]
        /\ mouse = [at |-> <<0, 0>>, button |-> FALSE, start |-> <<0, 0>>, dragging |-> FALSE]
        /\ last_h = Default /\ inputs = 0 /\ dragged = Nowhere /\ lost = FALSE
    BY DEF Init, Null
  <1>2. Default \in Heights /\ Rows \in Nat \ {0} /\ QueueSize \in Nat \ {0, 1}
    BY GCoreAssumption
  <1>3. pb \in Buffer
    BY <1>1, <1>2 DEF Buffer
  <1>4. widget \in Menu /\ widget.dirty
    BY <1>1, <1>2 DEF Menu
  <1>5. mouse \in Mouse /\ ~mouse.dragging
    BY <1>1 DEF Mouse, Place
  <1>6. queue \in Seq(KeyEvents) /\ Len(queue) < QueueSize
    BY <1>1, <1>2
  <1>7. Types
    BY <1>1, <1>2, <1>3, <1>4, <1>5, <1>6 DEF Types, Buffer
  <1>8. CopyIsShown /\ PixelsFit /\ OutsideLoop
    BY <1>1, <1>4 DEF CopyIsShown, PixelsFit, OutsideLoop, Serving
  <1> QED BY <1>1, <1>5, <1>7, <1>8 DEF FrameInv, DragInv

LEMMA StepsKeepOrder ==
  ASSUME FrameInv, DragInv, [Next]_vars
  PROVE  FrameInv' /\ DragInv' /\ (Bracket \/ UNCHANGED vars)
  <1>1. CASE Next
    BY <1>1, StartKeeps, DrawKeeps, RingStepKeeps, DrmKeeps, EndKeeps, X11Keeps, PasteKeeps,
       WaylandKeeps, WaylandClosedKeeps DEF Next
  <1>2. CASE UNCHANGED vars
    <2>1. UNCHANGED <<phase, pb, drm_data, queue, mouse, tree, widget, last_h, inputs, dragged, lost>>
      BY <1>2 DEF vars
    <2> QED BY <1>2, <2>1 DEF FrameInv, Types, CopyIsShown, PixelsFit, OutsideLoop, Serving,
                              DragInv
  <1> QED BY <1>1, <1>2

LEMMA FrameFollows == ASSUME FrameInv PROVE FrameCurrent
  <1>1. widget.selected \in 0 .. Rows - 1 /\ Len(queue) < QueueSize
    BY DEF FrameInv, Types, Menu
  <1>2. ASSUME Ready
        PROVE  tree = menu_render(widget.selected, pb.h) /\ (pb.pixels = pb.h \/ lost)
    BY <1>2 DEF Ready, FrameInv, CopyIsShown, PixelsFit, Serving
  <1> QED BY <1>1, <1>2 DEF FrameInv, OutsideLoop, FrameCurrent

(* On DRM, X11 and Wayland alike, with screens and windows that change size,  *)
(* allocations that fail, clicks, touches and pastes in any order: a device   *)
(* is only read while the copy of the tree is the frame on the screen, the    *)
(* pixels have the size of the window, the ring never overflows, and the      *)
(* process dies on its pixels only after an allocation has failed.            *)
THEOREM FrameStaysCurrent == Spec => []FrameCurrent
  <1>1. Init => FrameInv /\ DragInv
    BY StartsInOrder
  <1>2. FrameInv /\ DragInv /\ [Next]_vars => FrameInv' /\ DragInv'
    BY StepsKeepOrder
  <1>3. FrameInv => FrameCurrent
    BY FrameFollows
  <1> QED BY <1>1, <1>2, <1>3, PTL DEF Spec

(* Every drag that session_run is told of is opened once, beyond the dead     *)
(* zone, goes on from where it was opened, and is closed or given up before   *)
(* the next.                                                                  *)
THEOREM DragsAreWhole == Spec => DragBracketed
  <1>1. Init => FrameInv /\ DragInv
    BY StartsInOrder
  <1>2. FrameInv /\ DragInv /\ [Next]_vars => FrameInv' /\ DragInv'
    BY StepsKeepOrder
  <1>3. FrameInv /\ DragInv /\ [Next]_vars => [Bracket]_vars
    BY StepsKeepOrder
  <1>4. [][Bracket]_vars => DragBracketed
    BY DEF Bracket, DragBracketed
  <1> QED BY <1>1, <1>2, <1>3, <1>4, PTL DEF Spec

=============================================================================
