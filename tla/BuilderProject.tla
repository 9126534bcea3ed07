--------------------------- MODULE BuilderProject --------------------------
(***************************************************************************)
(* The project of filly-build: widgets on a canvas, a graph of nodes whose *)
(* ports are joined by edges, key bindings and store variables.  project.c *)
(* changes it, validator.c judges it and codegen.c turns it into a plugin; *)
(* all are sequential functions of the project, operators here.  Items and *)
(* nodes are found by id, edges name their nodes and ports by index (from  *)
(* 0, as in the code).  The calls of project.c that nothing calls are left *)
(* out: moving, resizing and re-parenting by id, store nodes, removing     *)
(* bindings.                                                               *)
(***************************************************************************)
EXTENDS Integers, Sequences, FiniteSets

LOCAL INSTANCE SequencesExt

CONSTANT RootW, RootH  \* root_width, root_height

ASSUME RootAssumption == RootW \in Nat \ {0} /\ RootH \in Nat \ {0}

---------------------------------------------------------------------------
(* port_registry, of three of the forty types and some of their ports: the *)
(* outputs come first.  A type that is not in it gets one input.  Every    *)
(* port has a description.                                                 *)
Port(name, type, is_output) ==
  [name |-> name, type |-> type, is_output |-> is_output, description |-> "text"]

port_registry ==
  [input  |-> <<Port("on_submit", "trigger", TRUE), Port("value", "string", TRUE),
                Port("set_value", "string", FALSE)>>,
   toggle |-> <<Port("on_toggle", "trigger", TRUE), Port("set_value", "bool", FALSE)>>,
   gauge  |-> <<Port("percent", "int", TRUE), Port("set_visible", "bool", FALSE)>>]

project_get_widget_ports(type) ==
  IF type \in DOMAIN port_registry THEN port_registry[type] ELSE <<Port("set_visible", "bool", FALSE)>>

(* The calls that change a project.                                        *)
project_new ==
  [items |-> <<>>, next_item_id |-> 1, nodes |-> <<>>, edges |-> <<>>, keymaps |-> <<>>, store_vars |-> <<>>]

Item(id, type, x, y) ==
  [id |-> id, widget_type |-> type, instance_name |-> <<type, id>>, x |-> x, y |-> y, w |-> 200, h |-> 120,
   parent_id |-> -1, tab_index |-> 0, locked |-> FALSE, visible |-> TRUE]

project_add_item(p, type, x, y) ==
  [p EXCEPT !.items = Append(@, Item(p.next_item_id, type, x, y)), !.next_item_id = @ + 1]

(* The first with that id goes, and nothing else does: no node and no edge.*)
RemoveById(s, id) == RemoveFirstMatch(s, LAMBDA x : x.id = id)

project_remove_item(p, item_id) == [p EXCEPT !.items = RemoveById(@, item_id)]

project_find_item(p, item_id) == SelectInSeq(p.items, LAMBDA it : it.id = item_id)

WidgetNode(id, item) ==
  [id |-> id, type |-> "widget", label |-> item.instance_name, widget_id |-> item.id,
   store_key |-> "null", fil_script |-> "null", ports |-> project_get_widget_ports(item.widget_type)]

project_add_node(p, widget_id) ==
  LET i == project_find_item(p, widget_id) IN
  IF i = 0 THEN p
  ELSE [p EXCEPT !.nodes = Append(@, WidgetNode(Len(@) + 1, p.items[i]))]

project_remove_node(p, node_id) == [p EXCEPT !.nodes = RemoveById(@, node_id)]

(* An edge's condition and transform are texts; here, their lengths.       *)
project_add_edge(p, from_node, from_port, to_node, to_port) ==
  [p EXCEPT !.edges = Append(@, [from_node |-> from_node, from_port |-> from_port, to_node |-> to_node,
                                 to_port |-> to_port, condition |-> 0, transform |-> 0])]

project_remove_edge(p, idx) ==
  IF idx + 1 \in DOMAIN p.edges THEN [p EXCEPT !.edges = RemoveAt(@, idx + 1)] ELSE p

project_add_keymap(p, key) == [p EXCEPT !.keymaps = Append(@, key)]

---------------------------------------------------------------------------
(* The project file: next_item_id is not in it, nor the widget_id of a     *)
(* node that has none or the description of a port that has none.          *)
Without(r, field) == [k \in DOMAIN r \ {field} |-> r[k]]

SavedPort(port) == IF port.description = "null" THEN Without(port, "description") ELSE port

SavedNode(node) ==
  LET n == [node EXCEPT !.ports = [j \in DOMAIN @ |-> SavedPort(@[j])]] IN
  IF n.widget_id >= 0 THEN n ELSE Without(n, "widget_id")

project_save(p) == [Without(p, "next_item_id") EXCEPT !.nodes = [i \in DOMAIN @ |-> SavedNode(@[i])]]

(* What is read back: an id for the next item, -1 for the widget_id that   *)
(* is missing, and no description, whether it is in the file or not.       *)
NextItemId(items) == FoldLeft(LAMBDA next, it : IF it.id >= next THEN it.id + 1 ELSE next, 0, items)

LoadedPort(port) == [f \in DOMAIN port \cup {"description"} |-> IF f = "description" THEN "null" ELSE port[f]]

LoadedNode(node) ==
  [f \in DOMAIN node \cup {"widget_id"} |->
     CASE f = "ports" -> [j \in DOMAIN node.ports |-> LoadedPort(node.ports[j])]
       [] f \notin DOMAIN node -> -1
       [] OTHER -> node[f]]

project_load(file) ==
  [k \in DOMAIN file \cup {"next_item_id"} |->
     CASE k = "next_item_id" -> NextItemId(file.items)
       [] k = "nodes" -> [i \in DOMAIN file.nodes |-> LoadedNode(file.nodes[i])]
       [] OTHER -> file[k]]

---------------------------------------------------------------------------
(* validator_check_all, as the set of its issues: what, and about which    *)
(* items, nodes or edges.                                                  *)
rects_overlap(a, b) ==
  ~(a.x + a.w <= b.x \/ b.x + b.w <= a.x \/ a.y + a.h <= b.y \/ b.y + b.h <= a.y)

Pairs(s) == {ij \in (DOMAIN s) \X (DOMAIN s) : ij[1] < ij[2]}

Interactive == {"input", "password", "menu", "checklist", "toggle", "checkbox", "button", "yesno"}

ItemErrors(p) ==
  {<<"own_parent", i>> : i \in {i \in DOMAIN p.items : p.items[i].id = p.items[i].parent_id}}
    \cup {<<"dimensions", i>> : i \in {i \in DOMAIN p.items : p.items[i].w <= 0 \/ p.items[i].h <= 0}}

ItemWarnings(p) ==
  LET it == p.items IN
  {<<"overlap", ij>> : ij \in {ij \in Pairs(it) : /\ it[ij[1]].parent_id = it[ij[2]].parent_id
                                                  /\ rects_overlap(it[ij[1]], it[ij[2]])}}
    \cup {<<"bounds", i>> : i \in {i \in DOMAIN it : it[i].x + it[i].w > RootW \/ it[i].y + it[i].h > RootH}}
    \cup {<<"tab", ij>> : ij \in {ij \in Pairs(it) : it[ij[1]].tab_index > 0
                                                     /\ it[ij[1]].tab_index = it[ij[2]].tab_index}}
    \cup {<<"needs_tab", i>> : i \in {i \in DOMAIN it : it[i].widget_type \in Interactive
                                                        /\ it[i].tab_index = 0}}
    \cup (IF p.keymaps = <<>> /\ it # <<>> THEN {<<"no_keys">>} ELSE {})

Infos(p) ==
  {<<"no_tab", i>> : i \in {i \in DOMAIN p.items : p.items[i].tab_index = 0}}
    \cup {<<"unconnected", n>> : n \in {n \in DOMAIN p.nodes :
             /\ p.nodes[n].type = "widget"
             /\ \E j \in DOMAIN p.nodes[n].ports : p.nodes[n].ports[j].is_output
             /\ \A e \in DOMAIN p.edges : p.edges[e].from_node # n - 1}}
    \cup {<<"unused", v>> : v \in {v \in DOMAIN p.store_vars :
             \A n \in DOMAIN p.nodes : p.nodes[n].store_key # p.store_vars[v]}}

(* An edge is on a cycle if it comes back to its own node, or a later edge *)
(* goes the other way: longer cycles are not looked for.                   *)
Cycles(p) ==
  {<<"cycle", i>> : i \in {i \in DOMAIN p.edges :
     \/ p.edges[i].from_node = p.edges[i].to_node
     \/ \E j \in DOMAIN p.edges : /\ j > i
                                  /\ p.edges[j].from_node = p.edges[i].to_node
                                  /\ p.edges[j].to_node = p.edges[i].from_node}}

ScriptErrors(p) ==
  {<<"fil", n>> : n \in {n \in DOMAIN p.nodes : p.nodes[n].type = "fil" /\ p.nodes[n].fil_script = "wrong"}}

validator_check_all(p) ==
  [errors |-> ItemErrors(p) \cup Cycles(p) \cup ScriptErrors(p), warnings |-> ItemWarnings(p), infos |-> Infos(p)]

---------------------------------------------------------------------------
(* codegen_fil_script: one block for each edge that joins an output to an  *)
(* input of nodes that are there, then the scripts of the FIL nodes.       *)
PortAt(p, node, port) == p.nodes[node + 1].ports[port + 1]
HasPort(p, node, port) ==
  node >= 0 /\ node < Len(p.nodes) /\ port >= 0 /\ port < Len(p.nodes[node + 1].ports)

Generates(p, e) ==
  /\ HasPort(p, e.from_node, e.from_port) /\ PortAt(p, e.from_node, e.from_port).is_output
  /\ HasPort(p, e.to_node, e.to_port) /\ ~PortAt(p, e.to_node, e.to_port).is_output

FilBlock(p, e) ==
  LET src == p.nodes[e.from_node + 1]
      dst == p.nodes[e.to_node + 1]
      from == PortAt(p, e.from_node, e.from_port)
      to == PortAt(p, e.to_node, e.to_port)
      Does(action) == <<src.label, from.name, action, dst.label>> IN
  CASE src.type = "widget" /\ from.type = "trigger" ->
         (CASE dst.type = "store" /\ to.name = "set" -> Does("set store to value")
            [] dst.type = "widget" /\ to.name = "set_visible" -> Does("show")
            [] dst.type = "widget" /\ to.name = "play_animation" -> Does("animate")
            [] OTHER -> Does("comment"))
    [] src.type = "store" /\ from.name = "value" ->
         (IF dst.type = "widget" /\ to.name = "set_value" THEN Does("set value") ELSE Does("comment"))
    [] OTHER -> Does("edge comment")

codegen_fil_script(p) ==
  LET live == SelectSeq(p.edges, LAMBDA e : Generates(p, e))
      fil == SelectSeq(p.nodes, LAMBDA n : n.type = "fil" /\ n.fil_script # "null") IN
  [i \in DOMAIN live |-> FilBlock(p, live[i])] \o [i \in DOMAIN fil |-> <<fil[i].fil_script>>]

(* The plugin: the items without a parent, each as text, and the script.   *)
codegen_c_plugin(p) ==
  LET top == SelectSeq(p.items, LAMBDA it : it.parent_id = -1) IN
  [children |-> [i \in DOMAIN top |-> <<top[i].instance_name, top[i].x, top[i].y>>],
   fil_script |-> codegen_fil_script(p)]
=============================================================================
