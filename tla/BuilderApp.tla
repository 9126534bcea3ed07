----------------------------- MODULE BuilderApp ----------------------------
(***************************************************************************)
(* filly-build, the visual builder: the canvas, the connection graph and   *)
(* the property editor over one project, and the program around them that  *)
(* routes events, validates, exports, saves and quits.  Every event is one *)
(* step of builder_handle_event, with the redraw session_run makes before  *)
(* the next one.                                                           *)
(*                                                                         *)
(* Pixels are abstracted: what the pointer meets (an item's edge or        *)
(* middle, a port, a wire, a node, nothing) is chosen, which stands for    *)
(* every position, zoom and scroll.  session_run hands the builder no Tab, *)
(* motion, drag or right button; they are steps here all the same, since   *)
(* builder_handle_event answers to them.                                   *)
(***************************************************************************)
EXTENDS BuilderProject

LOCAL INSTANCE SequencesExt

CONSTANTS Palette,      \* palette_types
          Starts,       \* the project files the builder may be started on; writing one succeeds
          Deltas,       \* how far a drag goes on either axis
          Handles,      \* which parts of an item a press may meet
          Users,        \* "adds" (and deletes), "drags", or "wires"
          MaxText,      \* bound on an edge's texts
          MaxEdits      \* bound on the changes each user makes to the project

ASSUME BuilderAssumption ==
  /\ Palette # {}
  /\ MaxText \in Nat /\ \A u \in Users : MaxEdits[u] \in Nat
  /\ Deltas \subseteq Int

VARIABLES project,        \* the BuilderProject
          canvas, graph,  \* the editors over it
          mode, active_pane,
          project_dirty,
          file,           \* the project file
          plugin,         \* what the last event exported
          open,           \* is the builder running
          edits,          \* how often the project was changed so far
          user            \* what the user works on

vars == <<project, canvas, graph, mode, active_pane, project_dirty, file, plugin, open, edits, user>>

Modes == {"edit", "wire"}   \* the two previews leave the panes without an editor
None == "none"
NoFile == <<>>
Torn == [torn |-> TRUE]   \* a file cut off in the middle
NoPlugin == <<>>

---------------------------------------------------------------------------
(* The parts, as main makes them over a project.                           *)
canvas_new == [selected_items |-> <<>>, selected_item |-> -1, action |-> None, dragging |-> FALSE,
               band |-> FALSE, orig |-> <<>>, show_grid |-> TRUE]

PortCount(p, n) == FoldLeft(LAMBDA sum, node : sum + Len(node.ports), 0, SubSeq(p.nodes, 1, n))

graph_sync_nodes(g, p) == [g EXCEPT !.node_count = Len(p.nodes), !.total_ports = PortCount(p, Len(p.nodes))]

(* drag_node_id is read only while dragging_node is set: -1 stands for a   *)
(* dragging_node that is not.                                              *)
graph_new(p) ==
  graph_sync_nodes([node_count |-> 0, total_ports |-> 0, selected_node |-> -1, selected_edge |-> -1,
                    wire_start_node |-> -1, wire_start_port |-> -1, drag_node_id |-> -1,
                    editing_edge_idx |-> -1, edit_field |-> 0, edit_len |-> 0], p)

(* The panes the keys go to: the palette, the canvas, and on the right the *)
(* graph or the property editor.                                           *)
Pane(m, pane) == mode = m /\ active_pane = pane

(* project_load gives nothing for a file that is not there or is cut off.  *)
Opened(f) == IF f \in {NoFile, Torn} THEN project_new ELSE project_load(f)

Init ==
  /\ file \in Starts
  /\ project = Opened(file)
  /\ canvas = canvas_new /\ graph = graph_new(project)
  /\ mode = "edit" /\ active_pane = 1
  /\ project_dirty = FALSE
  /\ plugin = NoPlugin /\ open = TRUE /\ edits = 0 /\ user \in Users

---------------------------------------------------------------------------
(* builder_handle_event: an event while the builder runs.                  *)
Event == open /\ plugin' = NoPlugin /\ UNCHANGED <<open, user>>
Keep == UNCHANGED <<mode, active_pane, file>>
KeepEditors == UNCHANGED <<canvas, graph>>

(* k and then the key to bind, whichever it is; Esc binds none.            *)
KeymapBind ==
  /\ Event /\ project' = project_add_keymap(project, "key") /\ project_dirty' = TRUE
  /\ Keep /\ KeepEditors

(* s, e, v and k come before the panes, so they cannot be typed in one.    *)
(* What v and s validate is shown and nothing more: the report's pane is   *)
(* left out, with the Esc that closes it and the keys that scroll it.      *)
(* Mutant of KeySave: only what was marked as modified is written.         *)
SaveSkips ==
  /\ Event /\ (IF file = NoFile THEN file' = project_save(project) ELSE UNCHANGED file) /\ project_dirty' = FALSE
  /\ KeepEditors /\ UNCHANGED <<project, mode, active_pane>>

KeySave ==
  /\ Event /\ file' = project_save(project) /\ project_dirty' = FALSE
  /\ KeepEditors /\ UNCHANGED <<project, mode, active_pane>>

(* e validates the project as it is and exports it if there is no error.   *)
KeyExport ==
  /\ open /\ UNCHANGED <<open, user, project, project_dirty>> /\ Keep /\ KeepEditors
  /\ plugin' = IF validator_check_all(project).errors = {} THEN codegen_c_plugin(project) ELSE NoPlugin

(* F1 and F2, which looks at the project's nodes again.                    *)
KeyMode(m) ==
  /\ Event /\ mode' = m
  /\ active_pane' = IF m = "edit" THEN 1 ELSE 2
  /\ graph' = IF m = "wire" THEN graph_sync_nodes(graph, project) ELSE graph
  /\ UNCHANGED <<project, canvas, project_dirty, file>>

(* Esc: first the wire being drawn goes, then the builder, which saves if  *)
(* it thinks there is something to save.  (The property editor's turn      *)
(* never comes: no edit of it outlives a redraw.)                          *)
DrawingWire == mode = "wire" /\ graph.wire_start_node >= 0

EscWire ==
  /\ Event /\ DrawingWire
  /\ graph' = [graph EXCEPT !.wire_start_node = -1, !.wire_start_port = -1]
  /\ Keep /\ UNCHANGED <<project, canvas, project_dirty>>

Gone ==
  /\ open /\ open' = FALSE /\ plugin' = NoPlugin
  /\ project' = project_new /\ canvas' = canvas_new /\ graph' = graph_new(project_new)
  /\ mode' = "edit" /\ active_pane' = 1 /\ project_dirty' = FALSE /\ UNCHANGED user

EscQuit ==
  /\ ~DrawingWire /\ Gone
  /\ IF project_dirty THEN file' = project_save(project) ELSE UNCHANGED file

(* Started again on the same file, or run on it with --export, which looks *)
(* at no report.                                                           *)
main ==
  /\ ~open /\ open' = TRUE /\ plugin' = NoPlugin
  /\ project' = Opened(file) /\ graph' = graph_new(project')
  /\ UNCHANGED <<canvas, mode, active_pane, project_dirty, file, user>>

CommandLineExport ==
  /\ ~open /\ plugin = NoPlugin /\ plugin' = codegen_c_plugin(Opened(file))
  /\ UNCHANGED <<project, canvas, graph, mode, active_pane, project_dirty, file, open, user>>

KeyTab ==
  /\ Event /\ active_pane' = (active_pane + 1) % 3
  /\ KeepEditors /\ UNCHANGED <<project, project_dirty, mode, file>>

---------------------------------------------------------------------------
(* Pane 0, the palette: Enter puts a widget of the type the cursor is on,  *)
(* any one, in the middle of the canvas and its node in the graph.         *)
snap_to_grid(v) == ((v + 4) \div 8) * 8

Snapped(it) ==
  IF canvas.show_grid THEN [it EXCEPT !.x = snap_to_grid(@), !.y = snap_to_grid(@)] ELSE it

canvas_add_widget(p, type) ==
  LET q == project_add_item(p, type, RootW \div 2, RootH \div 2) IN
  [q EXCEPT !.items[Len(q.items)] = Snapped(@)]

handle_palette_key(type) ==
  /\ Event /\ active_pane = 0
  /\ LET q == canvas_add_widget(project, type) IN
     project' = project_add_node(q, q.items[Len(q.items)].id)
  /\ project_dirty' = TRUE
  /\ Keep /\ KeepEditors

---------------------------------------------------------------------------
(* Pane 1, the canvas.                                                     *)
OnCanvas == Pane("edit", 1)

Select(c, ids, item) == [c EXCEPT !.selected_items = ids, !.selected_item = item]
canvas_deselect_all(c) == Select(c, <<>>, -1)
canvas_select_item(c, id) == Select(c, <<id>>, id)
Selected(id) == id \in ToSet(canvas.selected_items)

UpdateItems(p, Which(_), New(_)) ==
  [p EXCEPT !.items = [i \in DOMAIN @ |-> IF Which(@[i]) THEN New(@[i]) ELSE @[i]]]

(* An arrow key moves by one and then snaps, so with the grid shown an     *)
(* item on the grid stays where it is; the project is modified all the     *)
(* same.                                                                   *)
canvas_key_move(dx, dy) ==
  UpdateItems(project, LAMBDA it : Selected(it.id) /\ ~it.locked,
                       LAMBDA it : Snapped([it EXCEPT !.x = @ + dx, !.y = @ + dy]))

CanvasArrow(dx, dy) ==
  /\ Event /\ OnCanvas
  /\ project' = canvas_key_move(dx, dy) /\ project_dirty' = TRUE
  /\ Keep /\ KeepEditors

(* Delete takes the selected items, their nodes stay.                      *)
canvas_delete_selected ==
  /\ project' = FoldLeft(project_remove_item, project, canvas.selected_items)
  /\ canvas' = canvas_deselect_all(canvas)

CanvasDelete ==
  /\ Event /\ OnCanvas /\ canvas_delete_selected /\ project_dirty' = TRUE
  /\ Keep /\ UNCHANGED graph

OnlyCanvas ==
  /\ Event /\ OnCanvas
  /\ Keep /\ UNCHANGED <<project, graph, project_dirty>>

canvas_toggle_grid ==
  OnlyCanvas /\ canvas' = [canvas EXCEPT !.show_grid = ~@]

canvas_select_all ==
  /\ OnlyCanvas
  /\ LET ids == [i \in DOMAIN project.items |-> project.items[i].id] IN
     canvas' = Select(canvas, ids, IF ids = <<>> THEN canvas.selected_item ELSE ids[1])

(* A press: on an item that is shown and not locked (which becomes the     *)
(* selection unless it is part of it already), or beside all of them.      *)
(* (The middle button pans.)                                                      *)
Hittable == {i \in DOMAIN project.items : ~project.items[i].locked /\ project.items[i].visible}

Pressed(c, action) == [c EXCEPT !.action = action, !.dragging = TRUE, !.band = FALSE]

canvas_mouse_down(i, handle) ==
  LET it == project.items[i]
      c == IF Selected(it.id) THEN canvas ELSE canvas_select_item(canvas, it.id) IN
  /\ OnlyCanvas
  /\ canvas' = [Pressed(c, handle) EXCEPT !.orig = <<it.x, it.y, it.w, it.h>>]

CanvasPressBeside == OnlyCanvas /\ canvas' = Pressed(canvas, "rubber")

(* A motion with the button down: every selected item takes the place or   *)
(* the size that the drag gives the pressed one.                           *)
West == {"w", "nw", "sw"}
East == {"e", "ne", "se"}
North == {"n", "nw", "ne"}
South == {"s", "sw", "se"}
AtLeast20(n) == IF n < 20 THEN 20 ELSE n

Dragged(it, dx, dy) ==
  LET o == canvas.orig
      h == canvas.action IN
  IF h = "move" THEN Snapped([it EXCEPT !.x = o[1] + dx, !.y = o[2] + dy])
  ELSE [it EXCEPT !.x = IF h \in West THEN o[1] + dx ELSE @,
                  !.y = IF h \in North THEN o[2] + dy ELSE @,
                  !.w = AtLeast20(IF h \in West THEN o[3] - dx ELSE IF h \in East THEN o[3] + dx ELSE @),
                  !.h = AtLeast20(IF h \in North THEN o[4] - dy ELSE IF h \in South THEN o[4] + dy ELSE @)]

Drags == Event /\ OnCanvas /\ canvas.dragging

canvas_mouse_move(dx, dy) ==
  /\ Drags /\ canvas.action # "rubber"
  /\ project' = UpdateItems(project, LAMBDA it : Selected(it.id), LAMBDA it : Dragged(it, dx, dy))
  /\ Keep /\ KeepEditors /\ UNCHANGED project_dirty

CanvasBand == OnlyCanvas /\ Drags /\ canvas.action = "rubber" /\ canvas' = [canvas EXCEPT !.band = TRUE]

Idle(c) == [c EXCEPT !.action = None, !.dragging = FALSE, !.band = FALSE, !.orig = <<>>]

CanvasMoveUp == OnlyCanvas /\ Drags /\ canvas' = Idle(canvas)

(* A release: the items the band met, if it was drawn, or none.            *)
Banded(met) == [k \in 1 .. Cardinality(met) |-> project.items[SetToSortSeq(met, <)[k]].id]

canvas_mouse_up(met) ==
  /\ OnlyCanvas
  /\ met \subseteq Hittable /\ (met # {} => canvas.action = "rubber" /\ canvas.dragging /\ canvas.band)
  /\ LET ids == Banded(met) IN
     canvas' = IF canvas.action = "rubber" /\ canvas.dragging
               THEN Select(Idle(canvas), ids, IF ids = <<>> THEN -1 ELSE Last(ids))
               ELSE Idle(canvas)

---------------------------------------------------------------------------
(* Pane 2 in wire mode, the connection graph.                              *)
OnGraph == Pane("wire", 2)
Ports(n) == project.nodes[n + 1].ports
GraphPorts == {np \in (0 .. graph.node_count - 1) \X (0 .. graph.total_ports - 1) : np[2] < Len(Ports(np[1]))}
Editing == graph.editing_edge_idx >= 0

OnlyGraph == Event /\ OnGraph /\ Keep /\ UNCHANGED canvas

graph_ports_compatible(src, dst) ==
  /\ src.is_output /\ ~dst.is_output
  /\ \/ src.type = "trigger" \/ src.type = dst.type
     \/ src.type \in {"bool", "int"} /\ dst.type = "string"

(* A press while an edge is edited ends that.  On an output port it begins *)
(* a wire; on an input it does nothing.                                    *)
GraphPressEditing ==
  /\ OnlyGraph /\ Editing /\ graph' = [graph EXCEPT !.editing_edge_idx = -1]
  /\ UNCHANGED <<project, project_dirty>>

GraphPressPort(n, k) ==
  /\ OnlyGraph /\ ~Editing /\ <<n, k>> \in GraphPorts /\ UNCHANGED <<project, project_dirty>>
  /\ graph' = IF Ports(n)[k + 1].is_output
              THEN [graph EXCEPT !.wire_start_node = n, !.wire_start_port = k] ELSE graph

(* An edge can be met while the places of its two ports, counted over the  *)
(* nodes the graph knows, are among the ports it knows.                    *)
PortIndex(n, k) == PortCount(project, IF n < graph.node_count THEN n ELSE graph.node_count) + k

graph_find_edge_at ==
  {i \in DOMAIN project.edges : LET e == project.edges[i] IN
     /\ PortIndex(e.from_node, e.from_port) < graph.total_ports
     /\ PortIndex(e.to_node, e.to_port) < graph.total_ports}

GraphPressEdge(i) ==
  /\ OnlyGraph /\ ~Editing /\ i \in graph_find_edge_at /\ UNCHANGED <<project, project_dirty>>
  /\ graph' = [graph EXCEPT !.selected_edge = i - 1, !.selected_node = -1, !.editing_edge_idx = i - 1,
                            !.edit_len = 0, !.edit_field = 0]

(* Which node is under the pointer, or none.                               *)
graph_find_node_at == -1 .. graph.node_count - 1

GraphPressNode(n) ==
  /\ OnlyGraph /\ ~Editing /\ n \in graph_find_node_at /\ UNCHANGED <<project, project_dirty>>
  /\ graph' = [graph EXCEPT !.selected_node = n, !.selected_edge = -1, !.drag_node_id = IF n >= 0 THEN n ELSE @]

(* A motion takes a wire's end along, or else the node that is dragged:    *)
(* the place of a node is pixels, but the index it is written at may lie   *)
(* past the graph's places by now, and then the builder may go on or die.  *)
Dies == Gone /\ UNCHANGED file

graph_mouse_move ==
  /\ OnGraph
  /\ \/ OnlyGraph /\ UNCHANGED <<project, graph, project_dirty>>
     \/ ~DrawingWire /\ graph.drag_node_id >= graph.node_count /\ Dies

(* A release on an input port joins the wire to it.  The search goes on at *)
(* the next node with the same count, so a node that begins with an input  *)
(* is joined as well.  A wire whose first node is gone reads past the      *)
(* nodes: it may or may not be found to fit, or the builder dies of it.    *)
Joins(n, k) ==
  {<<n, k>>} \cup
  {<<m, 0>> : m \in {m \in n + 1 .. graph.node_count - 1 :
     \A j \in n + 1 .. m : Len(Ports(j)) > 0 /\ ~Ports(j)[1].is_output}}

WireHeld == HasPort(project, graph.wire_start_node, graph.wire_start_port)

Fits(n, k, fit) ==
  IF WireHeld
  THEN fit = graph_ports_compatible(PortAt(project, graph.wire_start_node, graph.wire_start_port), Ports(n)[k + 1])
  ELSE fit \in BOOLEAN

Wired(joined) ==
  FoldLeft(LAMBDA p, np : project_add_edge(p, graph.wire_start_node, graph.wire_start_port, np[1], np[2]),
           project, SetToSortSeq(joined, LAMBDA a, b : a[1] < b[1]))

graph_mouse_up(n, k) ==
  /\ OnGraph /\ DrawingWire /\ <<n, k>> \in GraphPorts /\ ~Ports(n)[k + 1].is_output
  /\ \/ /\ OnlyGraph
        /\ \E joined \in SUBSET Joins(n, k) :
             /\ \A np \in Joins(n, k) : Fits(np[1], np[2], np \in joined)
             /\ project' = Wired(joined)
        /\ graph' = [graph EXCEPT !.wire_start_node = -1, !.wire_start_port = -1]
        /\ UNCHANGED project_dirty
     \/ ~WireHeld /\ Dies

(* Anywhere else it drops the wire; without a wire it drops the node.      *)
GraphDropWire ==
  /\ OnlyGraph /\ DrawingWire /\ graph' = [graph EXCEPT !.wire_start_node = -1, !.wire_start_port = -1]
  /\ UNCHANGED <<project, project_dirty>>

GraphDropNode ==
  /\ OnlyGraph /\ ~DrawingWire /\ graph' = [graph EXCEPT !.drag_node_id = -1]
  /\ UNCHANGED <<project, project_dirty>>

(* graph_key.  An edge's condition is typed first, then its transform.     *)
GraphKey == OnlyGraph /\ project_dirty' = TRUE

EdgeEnter ==
  /\ GraphKey /\ Editing
  /\ IF graph.edit_field = 0
     THEN /\ project' = [project EXCEPT !.edges[graph.editing_edge_idx + 1].condition = graph.edit_len]
          /\ graph' = [graph EXCEPT !.edit_len = 0, !.edit_field = 1]
     ELSE /\ project' = [project EXCEPT !.edges[graph.editing_edge_idx + 1].transform = graph.edit_len]
          /\ graph' = [graph EXCEPT !.editing_edge_idx = -1]

EdgeType(d) ==
  /\ GraphKey /\ Editing /\ graph.edit_len + d \in 0 .. MaxText
  /\ graph' = [graph EXCEPT !.edit_len = @ + d] /\ UNCHANGED project

(* Mutant of graph_delete_selected: the graph's count of nodes is left.    *)
DeleteWithoutSync ==
  CASE graph.selected_edge >= 0 ->
         /\ project' = project_remove_edge(project, graph.selected_edge)
         /\ graph' = [graph EXCEPT !.selected_edge = -1]
    [] graph.selected_edge < 0 /\ graph.selected_node >= 0 ->
         /\ project' = project_remove_node(project, project.nodes[graph.selected_node + 1].id)
         /\ graph' = [graph EXCEPT !.selected_node = -1]
    [] OTHER -> UNCHANGED <<project, graph>>

(* Delete takes the selected edge, or else the node with the selected      *)
(* one's id; edges keep their indexes, and so do a wire and a drag.        *)
graph_delete_selected ==
  CASE graph.selected_edge >= 0 ->
         /\ project' = project_remove_edge(project, graph.selected_edge)
         /\ graph' = [graph EXCEPT !.selected_edge = -1]
    [] graph.selected_edge < 0 /\ graph.selected_node >= 0 ->
         /\ project' = project_remove_node(project, project.nodes[graph.selected_node + 1].id)
         /\ graph' = graph_sync_nodes([graph EXCEPT !.selected_node = -1], project')
    [] OTHER -> UNCHANGED <<project, graph>>

GraphDelete == GraphKey /\ ~Editing /\ graph_delete_selected

---------------------------------------------------------------------------
(* Pane 2 in the other modes, the property editor: a key always counts as  *)
(* a change of the project.  Nothing else is left of it: an Enter begins   *)
(* to edit a field, and the redraw sets the editor to the selected item    *)
(* again, which ends the edit before its first character.                  *)
handle_prop_key ==
  /\ Event /\ active_pane = 2 /\ mode # "wire" /\ project_dirty' = TRUE
  /\ Keep /\ KeepEditors /\ UNCHANGED project

---------------------------------------------------------------------------
Steps == {<<-1, 0>>, <<1, 0>>, <<0, -1>>, <<0, 1>>}

ShellStep ==
  \/ KeySave \/ KeyExport \/ EscWire \/ EscQuit \/ KeyTab \/ main \/ CommandLineExport
  \/ \E m \in Modes : KeyMode(m)
  \/ handle_prop_key

AddStep == \E type \in Palette : handle_palette_key(type)

PickStep == CanvasDelete \/ canvas_select_all \/ (user = "adds" /\ KeymapBind)

DragStep ==
  \/ canvas_toggle_grid
  \/ \E d \in Steps : CanvasArrow(d[1], d[2])
  \/ \E i \in Hittable, h \in Handles : canvas_mouse_down(i, h)
  \/ CanvasPressBeside
  \/ \E dx, dy \in Deltas : canvas_mouse_move(dx, dy)
  \/ CanvasBand \/ CanvasMoveUp
  \/ \E met \in SUBSET Hittable : canvas_mouse_up(met)

GraphStep ==
  \/ GraphPressEditing \/ GraphDropWire \/ GraphDropNode \/ graph_mouse_move
  \/ \E np \in GraphPorts : GraphPressPort(np[1], np[2]) \/ graph_mouse_up(np[1], np[2])
  \/ \E i \in DOMAIN project.edges : GraphPressEdge(i)
  \/ \E n \in graph_find_node_at : GraphPressNode(n)
  \/ EdgeEnter \/ (\E d \in {-1, 1} : EdgeType(d)) \/ GraphDelete

(* What a user works on, beside saving, exporting, leaving and coming back:*)
(* the parts meet in the project only, so each keeps to a few of them.     *)
Next ==
  /\ \/ ShellStep
     \/ user # "drags" /\ AddStep
     \/ user # "wires" /\ PickStep
     \/ user = "drags" /\ DragStep
     \/ user = "wires" /\ GraphStep
  /\ edits' = edits + (IF open /\ open' /\ project' # project THEN 1 ELSE 0)
  /\ edits' =< MaxEdits[user]

Spec == Init /\ [][Next]_vars

---------------------------------------------------------------------------
(* Type correctness of the builder's own state; a project's parts have the *)
(* kinds BuilderProject gives them.                                        *)
TypeOK ==
  /\ DOMAIN project = DOMAIN project_new
  /\ \A i \in DOMAIN project.items : {project.items[i].x, project.items[i].y} \subseteq Int
  /\ canvas.action \in Handles \cup {None, "rubber"} /\ canvas.dragging \in BOOLEAN
  /\ mode \in Modes /\ active_pane \in 0 .. 2
  /\ graph.edit_field \in 0 .. 1 /\ graph.edit_len \in 0 .. MaxText
  /\ {project_dirty, open} \subseteq BOOLEAN
  /\ edits \in 0 .. MaxEdits[user]

(* Items never share an id, through deletions, saves and loads:            *)
(* project_find_item, the selection and the nodes know them by it.         *)
ItemIdsUnique ==
  \A i, j \in DOMAIN project.items : project.items[i].id = project.items[j].id => i = j

(* What is selected is on the canvas: no deletion, band, click or Select   *)
(* all leaves the id of an item that is gone, which the property editor    *)
(* is set to and a later item could take over.                             *)
SelectionExists ==
  /\ \A id \in ToSet(canvas.selected_items) : project_find_item(project, id) # 0
  /\ canvas.selected_item = -1 \/ Selected(canvas.selected_item)
  /\ (canvas.selected_item = -1) = (canvas.selected_items = <<>>)

(* The graph's indexes stay inside the project's arrays however nodes and  *)
(* edges come and go: its own count of nodes, which it takes only when     *)
(* told to, and the node and edge it has selected or is editing.           *)
GraphIndexesValid ==
  /\ graph.node_count =< Len(project.nodes) /\ graph.total_ports =< PortCount(project, Len(project.nodes))
  /\ graph.selected_node < graph.node_count
  /\ graph.selected_edge < Len(project.edges) /\ graph.editing_edge_idx < Len(project.edges)
  /\ ~(graph.selected_node >= 0 /\ graph.selected_edge >= 0)

(* What the editors keep of the project stays true of it, and an id names  *)
(* one item.  The two indexes that are held while a button is down, and    *)
(* the ids by which nodes name items, do not: HeldNodeExists, NodeFitsItem.*)
ReferencesValid == TypeOK /\ ItemIdsUnique /\ SelectionExists /\ GraphIndexesValid

(* build-spec.md:550: "**Drag node header:** move node".  A wire starts at *)
(* a node and a drag moves one: no deletion takes the node whose index the *)
(* graph holds while the button is down.                                   *)
(* Refuted by TLC: graph_delete_selected resets neither index.             *)
HeldNodeExists ==
  /\ DrawingWire => WireHeld
  /\ graph.drag_node_id < graph.node_count

(* build-spec.md:565: for a new item "the graph editor automatically       *)
(* creates a corresponding `GraphNode` with ports from the                 *)
(* `WidgetPortInfo` table".                                                *)
(* A node that names an item has the ports of that item's type, which is   *)
(* what it was made with.                                                  *)
(* Refuted by TLC: after a reload the largest id that was deleted is given *)
(* to the next item, and the node of the deleted one names it.             *)
Names(ports) == [j \in DOMAIN ports |-> ports[j].name]

NodeFitsItem ==
  \A n \in DOMAIN project.nodes, i \in DOMAIN project.items :
    project.nodes[n].type = "widget" /\ project.nodes[n].widget_id = project.items[i].id =>
      Names(project.nodes[n].ports) = Names(project_get_widget_ports(project.items[i].widget_type))

(* build-spec.md:879: "Project save/load round-trip with all item types".  *)
(* Saving and loading gives back every project the builder can make, with  *)
(* its locks, ports, texts of edges and bindings; only the next id starts  *)
(* again after the largest in use.                                         *)
(* Refuted by TLC: project_load reads no port's description.               *)
RoundTrip ==
  LET p == project_load(project_save(project)) IN
  \A k \in DOMAIN project \ {"next_item_id"} : p[k] = project[k]

(* The last words of the status line.                                      *)
update_status == IF project_dirty THEN "MODIFIED" ELSE "saved"

(* While the status line says "saved" the file has every item, node and    *)
(* binding, by id, type and name: an Esc then loses no widget, no node and *)
(* no key.  (It may lose a wire, or the place or size a drag gave an item.)*)
Same(s, t, f) == Len(s) = Len(t) /\ \A i \in DOMAIN s : f \in DOMAIN s[i] => s[i][f] = t[i][f]

LossIsBounded ==
  open /\ update_status = "saved" /\ file \notin {NoFile, Torn} =>
    /\ \A f \in {"id", "widget_type", "instance_name"} : Same(file.items, project.items, f)
    /\ \A f \in {"id", "type", "label", "widget_id"} : Same(file.nodes, project.nodes, f)
    /\ file.keymaps = project.keymaps

(* build-spec.md:781: "Export is blocked if any errors exist."  Only a     *)
(* project without errors is exported, by the key or by the command line.  *)
(* Refuted by TLC: --export asks for no report.                            *)
ExportBlocked ==
  plugin # NoPlugin => validator_check_all(IF open THEN project ELSE Opened(file)).errors = {}
=============================================================================
