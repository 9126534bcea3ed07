---------------------------- MODULE ViewWidgets ----------------------------
(***************************************************************************)
(* The widgets that only show something and are dismissed, and the three   *)
(* that hold others: tabs, split_panes and hub.                            *)
(***************************************************************************)
EXTENDS ListWidgets, ValueWidgets

(* What they draw is fixed when they are made (image and canvas load their *)
(* pixels at the first frame and keep them).                               *)
View(kind) == [kind |-> kind]
Picture(d) == Frame(d, "null")

(* Any key dismisses.                                                      *)
Dismissed(d, e) ==
  IF IsKey(e) THEN event_result_response(d, "null") ELSE event_result_unhandled(d)

msg_widget_new == View("msg")
msg_render(d) == Picture(d)
msg_handle_event(d, e) == Dismissed(d, e)

badge_widget_new == View("badge")
badge_render(d) == Picture(d)
badge_handle_event(d, e) == Dismissed(d, e)

gauge_widget_new == View("gauge")
gauge_render(d) == Picture(d)
gauge_handle_event(d, e) == Dismissed(d, e)

markdown_widget_new == View("markdown")
markdown_render(d) == Picture(d)
markdown_handle_event(d, e) == Dismissed(d, e)

plot_widget_new == View("plot")
plot_render(d) == Picture(d)
plot_handle_event(d, e) == Dismissed(d, e)

rich_text_widget_new == View("rich_text")
rich_text_render(d) == Picture(d)
rich_text_handle_event(d, e) == Dismissed(d, e)

tooltip_widget_new == View("tooltip")
tooltip_render(d) == Picture(d)
tooltip_handle_event(d, e) == Dismissed(d, e)

video_widget_new == View("video")
video_render(d) == Picture(d)
video_handle_event(d, e) == Dismissed(d, e)

canvas_widget_new == View("canvas")
canvas_render(d) == Picture(d)
canvas_handle_event(d, e) ==
  IF e = "mouse" THEN event_result_handled(d) ELSE Dismissed(d, e)

image_widget_new == View("image")
image_render(d) == Picture(d)
image_handle_event(d, e) == event_result_response(d, "null")

separator_widget_new == View("separator")
separator_render(d) == Picture(d)
separator_handle_event(d, e) ==
  IF e = "esc" THEN event_result_response(d, "null") ELSE event_result_unhandled(d)

summary_widget_new == View("summary")
summary_render(d) == Picture(d)
summary_handle_event(d, e) == IF e = "esc" THEN Cancelled(d) ELSE Dismissed(d, e)

(* The spinner turns at every event, whatever it is.                       *)
spinner_widget_new == [kind |-> "spinner", frame |-> 0]
spinner_render(d) == Picture(d)
spinner_handle_event(d, e) ==
  LET turned == [d EXCEPT !.frame = (@ + 1) % 10] IN
  IF e = "esc" THEN [Cancelled(turned) EXCEPT !.mark = TRUE] ELSE Marked(turned)

(* A notification is over once its duration has passed, which only an      *)
(* event makes it look at.                                                 *)
notification_widget_new == [kind |-> "notification", expired |-> FALSE]
notification_render(d) == Picture(d)
notification_handle_event(d, e) ==
  IF d.expired THEN event_result_response(d, "null") ELSE event_result_handled(d)

---------------------------------------------------------------------------
(* tabs and split_panes, over the messages their factories fill them with. *)
(* A key the container does not take goes to the active child.             *)
tabs_widget_new(n) == [kind |-> "tabs", tab_count |-> n, active |-> 0]
tabs_render(d) == Frame(<<d.tab_count, d.active, msg_render(msg_widget_new)>>, "null")

tabs_handle_event(d, e) ==
  CASE e = "left" /\ d.active > 0 -> Marked([d EXCEPT !.active = @ - 1])
    [] e = "right" /\ d.active + 1 < d.tab_count -> Marked([d EXCEPT !.active = @ + 1])
    [] OTHER -> [msg_handle_event(msg_widget_new, e) EXCEPT !.d = d]

split_panes_widget_new == [kind |-> "split_panes", active_pane |-> 0]
sp_render(d) == Frame(<<msg_render(msg_widget_new), msg_render(msg_widget_new)>>, "null")

sp_handle_event(d, e) ==
  LET r == msg_handle_event(msg_widget_new, e) IN
  CASE e = "esc" -> event_result_response(d, "null")
    [] e = "f1"  -> Marked([d EXCEPT !.active_pane = 0])
    [] e = "f2"  -> Marked([d EXCEPT !.active_pane = 1])
    [] OTHER     -> [r EXCEPT !.d = d, !.mark = r.result.type # "unhandled"]

---------------------------------------------------------------------------
(* hub: categories of items, each edited by a widget of its own.  An item  *)
(* is visible while another item has one of the values it asks for; the    *)
(* item being edited is found again by its place among the visible ones.   *)
(* An item is a record of its id, the widget that edits it, its first      *)
(* value and the condition on the others (visible_if: none, or an id and   *)
(* the values that show the item).                                         *)
hub_widget_new(categories, actions) ==
  LET items == UNION {{categories[c][i] : i \in DOMAIN categories[c]} : c \in DOMAIN categories} IN
  [kind |-> "hub", categories |-> categories, actions |-> actions, cat_idx |-> 0,
   item_idx |-> 0, vals |-> [id \in {it.id : it \in items} |->
                               (CHOOSE it \in items : it.id = id).value],
   mode |-> "browsing", sub_widget |-> View("null")]

hub_visible(d, item) ==
  \A cond \in item.visible_if : d.vals[cond.key] \in cond.vals

Visible(d) ==
  SelectSeq(d.categories[d.cat_idx + 1], LAMBDA item : hub_visible(d, item))
hub_visible_count(d) == Len(Visible(d))

(* hub_get_item: NULL when item_idx is beyond the visible items.           *)
hub_get_item(d) ==
  IF d.item_idx < hub_visible_count(d) THEN Visible(d)[d.item_idx + 1] ELSE [id |-> "null"]

hub_set(d, key, value) == [d EXCEPT !.vals[key] = value]

(* widget_registry_create for the widgets this model's items ask for; an   *)
(* unknown type gives no widget.                                           *)
Sub(item) ==
  CASE item.widget = "menu"   -> menu_widget_new(item.choices, 0)
    [] item.widget = "yesno"  -> yesno_widget_new(TRUE)
    [] item.widget = "filter" -> filter_widget_new(<<<<"a">>, <<"b">>>>)
    [] OTHER -> View("null")

SubFrame(s) ==
  CASE s.kind = "menu" -> menu_render(s)
    [] s.kind = "yesno" -> yesno_render(s)
    [] OTHER -> filter_render(s)

(* What a frame of the sub-widget does to it (filter_update).              *)
SubDrawn(s) == IF s.kind = "filter" THEN filter_update(s) ELSE s

SubHandle(s, e) ==
  CASE s.kind = "menu"  -> menu_handle_event(s, e)
    [] s.kind = "yesno" -> yesno_handle_event(s, e)
    [] OTHER            -> filter_handle_event(s, e)

hub_render(d) ==
  CASE d.mode = "editing" -> Frame(<<d.mode, SubFrame(d.sub_widget)>>, Confirms(SubFrame(d.sub_widget)))
    [] d.mode \in {"proceed", "quit"} -> Frame(<<d.mode>>, "null")
    [] OTHER -> Frame(<<d.mode, d.cat_idx, d.item_idx, Visible(d)>>, d.vals)

Browse(d) == [d EXCEPT !.mode = "browsing"]

(* HUB_EDITING: the sub-widget takes the event.  Its dirty flag is its     *)
(* own: the hub marks itself only when the sub-widget answers.             *)
HubEdit(d, e) ==
  LET r == SubHandle(d.sub_widget, e)
      item == hub_get_item(d)
      Closed(result) ==
        LET stored == item.id # "null" /\ ~result.cancelled
        IN Marked([Browse(IF stored THEN hub_set(d, item.id, result.value) ELSE d)
                   EXCEPT !.sub_widget = View("null")])
  IN CASE r.result.type = "response"  -> Closed(r.result)
       [] r.result.type = "undefined" -> Undefined(Closed(r.result.survives))
       [] OTHER -> event_result_handled([d EXCEPT !.sub_widget = r.d])

HubBrowse(d, e) ==
  LET cats == Len(d.categories)
      item == hub_get_item(d) IN
  CASE e = "esc"   -> Marked([d EXCEPT !.mode = "quit"])
    [] e = "up"    -> Marked([d EXCEPT !.item_idx = IF @ > 0 THEN @ - 1 ELSE @])
    [] e = "down"  -> Marked([d EXCEPT !.item_idx = IF @ + 1 < hub_visible_count(d) THEN @ + 1 ELSE @])
    [] e = "left"  -> Marked([d EXCEPT !.cat_idx = IF @ > 0 THEN @ - 1 ELSE cats - 1, !.item_idx = 0])
    [] e = "right" -> Marked([d EXCEPT !.cat_idx = IF @ + 1 < cats THEN @ + 1 ELSE 0, !.item_idx = 0])
    [] e = "enter" -> IF item.id = "null" \/ Sub(item).kind = "null" THEN event_result_handled(d)
                      ELSE Marked([d EXCEPT !.mode = "editing", !.sub_widget = Sub(item)])
    [] e \in DOMAIN d.actions -> IF d.actions[e] = "Proceed"
                                 THEN Marked([d EXCEPT !.mode = "proceed"])
                                 ELSE event_result_response(d, d.actions[e])
    [] OTHER       -> event_result_unhandled(d)

hub_handle_event(d, e) ==
  CASE d.mode = "quit"    -> IF e = "y" THEN Cancelled(d) ELSE Marked(Browse(d))
    [] d.mode = "proceed" -> IF e = "y" THEN event_result_response(d, d.vals) ELSE Marked(Browse(d))
    [] d.mode = "editing" -> HubEdit(d, e)
    [] OTHER              -> HubBrowse(d, e)
=============================================================================
