----------------------------- MODULE MCBuilder -----------------------------
(* The builder started without a file, or on a project of two widgets of   *)
(* which one is locked.                                                    *)
EXTENDS BuilderApp

MCPalette == {"toggle", "msg"}
MCHandles == {"move", "nw"}
MCUsers == {"adds", "drags", "wires"}
MCAdds == {"adds"}    \* enough to refute NodeFitsItem
MCWires == {"wires"}  \* ... HeldNodeExists and ExportBlocked
MCMaxEdits == [adds |-> 3, drags |-> 2, wires |-> 2]
MCDeltas == {190}

AddBoth(p, type) == LET q == project_add_item(p, type, 0, 0) IN project_add_node(q, q.items[Len(q.items)].id)
TwoWidgets ==
  project_save([AddBoth(AddBoth(project_new, "toggle"), "input") EXCEPT !.items[1].locked = TRUE])
MCStarts == {NoFile, Torn, TwoWidgets}
=============================================================================
