----------------------------- MODULE PluginHubs ----------------------------
(***************************************************************************)
(* install_hub and forge_hub: hubs that edit their items themselves, one   *)
(* editing mode per widget type, and hand only the types they do not know  *)
(* to a sub-widget from the registry.  The values are strings, here        *)
(* sequences.  The two plugins are separate copies of one design; what     *)
(* they share is stated once, what differs is a parameter.                 *)
(***************************************************************************)
EXTENDS ViewWidgets

Yes == <<"y">>
No == <<"n">>

(* An item: its id, the widget that edits it, its choices, first value and *)
(* condition.  disk_picker items take their choices from lsblk.            *)
NoEdit == [sel |-> 0, text |-> <<>>, cursor |-> 0, pass1 |-> <<>>, pass2 |-> <<>>,
           yes |-> FALSE, filtered |-> <<>>, marks |-> {}]

(* The factories: every item's value goes into the table of values, where  *)
(* a profile may add keys that belong to no item.                          *)
PluginHub(kind, categories, actions, extra) ==
  LET items == UNION {{categories[c][i] : i \in DOMAIN categories[c]} : c \in DOMAIN categories} IN
  [kind |-> kind, categories |-> categories, actions |-> actions, cat_idx |-> 0, item_idx |-> 0,
   vals |-> [id \in {it.id : it \in items} \cup extra |->
               IF \E it \in items : it.id = id THEN (CHOOSE it \in items : it.id = id).value ELSE <<>>],
   mode |-> "browsing", edit |-> NoEdit, sub_widget |-> View("null")]

(* The keys profiles write.                                                *)
ProfileKeys == {"FS_TYPE", "USE_LUKS", "WM_DE", "EXTRAS"}

install_hub_factory(categories, actions) ==
  PluginHub("install_hub", categories, actions, ProfileKeys)
forge_hub_factory(categories, actions) == PluginHub("forge_hub", categories, actions, {})

---------------------------------------------------------------------------
(* Opening an item: the editing mode its widget type asks for, set up from *)
(* the item's current value.                                               *)
Position(choices, value) ==
  LET at == {i \in DOMAIN choices : choices[i] = value} IN
  IF at = {} THEN 0 ELSE (CHOOSE i \in at : \A j \in at : i <= j) - 1

(* hub_update_filter and fh_update_filter, called by the handlers here and *)
(* not by render.                                                          *)
hub_update_filter(choices, edit) ==
  LET found == Matching(choices, edit.text) IN
  [edit EXCEPT !.filtered = found, !.sel = ClampTo(@, Len(found))]

fh_update_filter(choices, edit) == hub_update_filter(choices, edit)

(* The sub-widgets of this model: toggle answers true or false, the slider *)
(* a number, and a type the registry does not know gives none.             *)
HubSub(item) ==
  CASE item.widget = "toggle" -> toggle_widget_new(FALSE)
    [] item.widget = "range_slider" -> range_slider_widget_new(0, 1, 0)
    [] OTHER -> View("null")

Opened(d, item) ==
  LET current == d.vals[item.id]
      at == IF item.disk_picker THEN 0 ELSE Position(item.choices, current) IN
  CASE item.widget = "menu"   -> [d EXCEPT !.mode = "menu", !.edit = [NoEdit EXCEPT !.sel = at]]
    [] item.widget = "filter" ->
         [d EXCEPT !.mode = "filter",
                   !.edit = hub_update_filter(item.choices, [NoEdit EXCEPT !.sel = at])]
    [] item.widget = "input"  ->
         [d EXCEPT !.mode = "input", !.edit = [NoEdit EXCEPT !.text = current, !.cursor = Len(current)]]
    [] item.widget \in {"password", "password_confirm"} -> [d EXCEPT !.mode = "password", !.edit = NoEdit]
    [] item.widget = "yesno"  -> [d EXCEPT !.mode = "yesno", !.edit = [NoEdit EXCEPT !.yes = current = Yes]]
    [] item.widget = "multiselect" ->
         [d EXCEPT !.mode = "multiselect", !.edit = hub_update_filter(item.choices, NoEdit)]
    [] OTHER -> [d EXCEPT !.mode = "sub_widget", !.sub_widget = HubSub(item)]

hub_enter_edit(d, item) == Marked(Opened(d, item))
fh_enter_edit(d, item) == Marked(Opened(d, item))

---------------------------------------------------------------------------
(* hub_apply_profile: the defaults first, then what the profile sets; what *)
(* neither sets keeps the value an earlier profile gave it.  The profile's *)
(* name and variant are the item's id and choice ("B" stands for Full).    *)
(* Of the eighteen profiles three are kept, and of the keys they set those *)
(* with a default (one of them an item's) and those without.               *)
Default == [FS_TYPE |-> <<"ext4">>, USE_LUKS |-> No]
Profile ==
  [QUICK_PROFILE_XFCE |-> [WM_DE |-> <<"xfce4">>, EXTRAS |-> <<"git">>, full |-> <<"git", "firefox">>],
   QUICK_PROFILE_LXQT |-> [WM_DE |-> <<"lxqt">>],
   QUICK_PROFILE_TESTING |-> [WM_DE |-> <<"mango">>, EXTRAS |-> <<"kitty">>, FS_TYPE |-> <<"xfs">>,
                              USE_LUKS |-> Yes]]

ProfileSets(key, variant) ==
  LET pf == Profile[key] IN
  [k \in ProfileKeys \cap DOMAIN pf |-> IF k = "EXTRAS" /\ variant = <<"B">> /\ "full" \in DOMAIN pf
                                        THEN pf.full ELSE pf[k]]

hub_apply_profile(d, key, variant) ==
  LET set == ProfileSets(key, variant) IN
  [d EXCEPT !.vals = [k \in DOMAIN @ |-> IF k \in DOMAIN set THEN set[k]
                                         ELSE IF k \in DOMAIN Default THEN Default[k] ELSE @[k]]]

IsProfile(item) == item.id \in DOMAIN Profile

(* Storing an edited value ends the editing; install_hub applies the       *)
(* profile when the item names one.                                        *)
Stored(d, item, value, profiles) ==
  LET set == [Browse(d) EXCEPT !.vals[item.id] = value] IN
  Marked(IF profiles /\ IsProfile(item) THEN hub_apply_profile(set, item.id, value) ELSE set)

Step(d, e, n) ==
  Marked([d EXCEPT !.edit.sel = IF e = "up" /\ @ > 0 THEN @ - 1
                                ELSE IF e = "down" /\ @ + 1 < n THEN @ + 1 ELSE @])

EditMenu(d, item, e, profiles) ==
  CASE e \in {"up", "down"} -> Step(d, e, Len(item.choices))
    [] e = "enter" -> IF item.choices = <<>> THEN Undefined(Stored(d, item, <<"?">>, profiles))
                      ELSE Stored(d, item, item.choices[d.edit.sel + 1], profiles)
    [] OTHER -> event_result_unhandled(d)

(* The moves of the text cursor do not ask for a redraw.                   *)
EditInput(d, item, e, profiles) ==
  LET c == d.edit.cursor
      MoveTo(i) == event_result_handled([d EXCEPT !.edit.cursor = i]) IN
  CASE e = "enter" -> Stored(d, item, d.edit.text, profiles)
    [] IsChar(e)   -> Marked([d EXCEPT !.edit.text = InsertAfter(@, c, e), !.edit.cursor = @ + 1])
    [] e = "backspace" -> MarkedIf(c > 0, d, [d EXCEPT !.edit.text = DeleteAt(@, c), !.edit.cursor = @ - 1])
    [] e = "left"  -> MoveTo(IF c > 0 THEN c - 1 ELSE c)
    [] e = "right" -> MoveTo(IF c < Len(d.edit.text) THEN c + 1 ELSE c)
    [] e = "home"  -> MoveTo(0)
    [] e = "end"   -> MoveTo(Len(d.edit.text))
    [] OTHER -> event_result_unhandled(d)

(* Two fields, and Tab to go from one to the other: which session_run      *)
(* keeps for itself, so the second field is never typed into.              *)
EditPassword(d, item, e) ==
  CASE e = "enter" -> IF d.edit.pass1 # <<>> /\ d.edit.pass1 = d.edit.pass2
                      THEN Stored(d, item, d.edit.pass1, FALSE) ELSE event_result_handled(d)
    [] IsChar(e)   -> Marked([d EXCEPT !.edit.pass1 = Append(@, e)])
    [] e = "backspace" -> Marked([d EXCEPT !.edit.pass1 = Front0(@)])
    [] OTHER -> event_result_unhandled(d)

EditYesno(d, item, e) ==
  CASE e \in {"left", "right"} -> Marked([d EXCEPT !.edit.yes = ~@])
    [] e = "enter" -> Stored(d, item, IF d.edit.yes THEN Yes ELSE No, FALSE)
    [] e = "y" -> Stored(d, item, Yes, FALSE)
    [] e = "n" -> Stored(d, item, No, FALSE)
    [] OTHER -> event_result_unhandled(d)

Requeried(d, item, query) ==
  [d EXCEPT !.edit = hub_update_filter(item.choices, [@ EXCEPT !.text = query, !.sel = 0])]

Chosen(d, item) == Highlighted(d.edit.filtered, d.edit.sel)

EditFilter(d, item, e) ==
  CASE e \in {"up", "down"} -> Step(d, e, Len(d.edit.filtered))
    [] e = "enter" -> IF Chosen(d, item) # 0 THEN Stored(d, item, item.choices[Chosen(d, item)], FALSE)
                      ELSE Marked(Browse(d))
    [] IsChar(e)   -> Marked(Requeried(d, item, Append(d.edit.text, e)))
    [] e = "backspace" -> MarkedIf(d.edit.text # <<>>, d, Requeried(d, item, Front0(d.edit.text)))
    [] OTHER -> event_result_unhandled(d)

(* The marked choices are stored as a JSON array, in the order of the list.*)
JsonArray(marks, n) == <<"json">> \o SelectSeq([i \in 1..n |-> i], LAMBDA i : i \in marks)

EditMultiselect(d, item, e) ==
  LET i == Chosen(d, item) IN
  CASE e \in {"up", "down"} -> Step(d, e, Len(d.edit.filtered))
    [] e = "enter" -> Stored(d, item, JsonArray(d.edit.marks, Len(item.choices)), FALSE)
    [] e = " "     -> MarkedIf(i # 0, d, [d EXCEPT !.edit.marks = IF i \in @ THEN @ \ {i} ELSE @ \cup {i}])
    [] IsChar(e) /\ e # " " -> Marked(Requeried(d, item, Append(d.edit.text, e)))
    [] e = "backspace" -> MarkedIf(d.edit.text # <<>>, d, Requeried(d, item, Front0(d.edit.text)))
    [] OTHER -> event_result_unhandled(d)

(* A sub-widget's answer: a string is stored as it is, true and false as   *)
(* yes and no, an array or object as JSON, and a number not at all.        *)
EditSub(d, item, e) ==
  LET s == d.sub_widget
      r == IF s.kind = "toggle" THEN toggle_handle_event(s, e) ELSE rs_handle_event(s, e)
      gone == [d EXCEPT !.sub_widget = View("null")] IN
  IF r.result.type # "response" THEN event_result_handled([d EXCEPT !.sub_widget = r.d])
  ELSE IF s.kind = "toggle" /\ ~r.result.cancelled
  THEN Stored(gone, item, IF r.result.value THEN Yes ELSE No, FALSE)
  ELSE Marked(Browse(gone))

EditModes == {"menu", "input", "password", "yesno", "filter", "multiselect"}
EditsSub(d) == d.mode = "sub_widget" /\ d.sub_widget.kind # "null"

Edit(d, e, profiles) ==
  LET item == hub_get_item(d) IN
  CASE EditsSub(d) -> EditSub(d, item, e)
    [] ~EditsSub(d) /\ e = "esc" -> Marked(Browse(d))
    [] ~EditsSub(d) /\ e # "esc" ->
       CASE d.mode = "menu"     -> EditMenu(d, item, e, profiles)
         [] d.mode = "input"    -> EditInput(d, item, e, profiles)
         [] d.mode = "password" -> EditPassword(d, item, e)
         [] d.mode = "yesno"    -> EditYesno(d, item, e)
         [] d.mode = "filter"   -> EditFilter(d, item, e)
         [] d.mode = "multiselect" -> EditMultiselect(d, item, e)

hub_handle_edit_event(d, e) == Edit(d, e, TRUE)
fh_handle_edit_event(d, e) == Edit(d, e, FALSE)

---------------------------------------------------------------------------
(* Browsing and the two questions are those of the core hub, except for    *)
(* the opening of an item.                                                 *)
BrowseOr(d, e, opened) ==
  IF e = "enter" THEN IF hub_get_item(d).id = "null" THEN event_result_handled(d) ELSE opened
  ELSE HubBrowse(d, e)

Asked(d, e) ==
  IF e # "y" THEN Marked(Browse(d))
  ELSE IF d.mode = "quit" THEN Cancelled(d) ELSE event_result_response(d, d.vals)

install_hub_handle_event(d, e) ==
  CASE EditsSub(d) \/ d.mode \in EditModes -> hub_handle_edit_event(d, e)
    [] d.mode \in {"quit", "proceed"} -> Asked(d, e)
    [] OTHER -> BrowseOr(d, e, hub_enter_edit(d, hub_get_item(d)))

(* forge_hub adds the log and the build queue, and keys of its own that    *)
(* answer with what to do about the build; they come before the actions.   *)
ForgeKeys(d, e) ==
  CASE e = "f2"  -> Marked([d EXCEPT !.mode = "log"])
    [] e = "f3"  -> Marked([d EXCEPT !.mode = "queue"])
    [] e = "f5"  -> event_result_response(d, "retry_failed")
    [] e = "f10" -> event_result_response(d, "abort_build")
    [] OTHER     -> BrowseOr(d, e, fh_enter_edit(d, hub_get_item(d)))

ForgeView(d, e) ==
  CASE e = "esc" -> Marked(Browse(d))
    [] e = "f5" /\ d.mode = "queue" -> event_result_response(d, "retry_failed")
    [] e = "f4" /\ d.mode = "queue" -> event_result_response(d, "skip_package")
    [] OTHER -> event_result_handled(d)

fh_handle_event(d, e) ==
  CASE EditsSub(d) \/ d.mode \in EditModes -> fh_handle_edit_event(d, e)
    [] d.mode \in {"log", "queue"} -> ForgeView(d, e)
    [] d.mode \in {"quit", "proceed"} -> Asked(d, e)
    [] OTHER -> ForgeKeys(d, e)

(* A frame shows the editor of the open item over everything else; of the  *)
(* passwords only the lengths.                                             *)
YesnoOverlay(ed) == <<ed.yes>>
ListOverlay(ed) == <<ed.text, ed.filtered, ed.sel, ed.marks>>

hub_render_overlay(d) ==
  LET ed == d.edit IN
  Frame(<<d.mode, hub_get_item(d).id,
          CASE d.mode = "input"    -> <<ed.text, ed.cursor>>
            [] d.mode = "password" -> <<Len(ed.pass1), Len(ed.pass2)>>
            [] d.mode = "yesno"    -> YesnoOverlay(ed)
            [] OTHER               -> ListOverlay(ed) >>, "null")

SubOverlay(s) == IF s.kind = "toggle" THEN toggle_render(s) ELSE rs_render(s)

install_hub_render(d) ==
  CASE EditsSub(d) -> Frame(<<d.mode, d.sub_widget.kind, SubOverlay(d.sub_widget)>>, "null")
    [] d.mode \in EditModes -> hub_render_overlay(d)
    [] d.mode \in {"proceed", "quit"} -> Frame(<<d.mode>>, "null")
    [] OTHER -> Frame(<<"browsing", d.cat_idx, d.item_idx, Visible(d)>>, d.vals)

(* The log and the queue are drawn like editors.                           *)
fh_render_overlay(d) ==
  IF d.mode \in {"log", "queue"} THEN Frame(<<d.mode>>, "null") ELSE hub_render_overlay(d)

fh_render(d) ==
  IF ~EditsSub(d) /\ d.mode \in EditModes \cup {"log", "queue"}
  THEN fh_render_overlay(d) ELSE install_hub_render(d)
=============================================================================
