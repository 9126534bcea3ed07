--------------------------- MODULE WidgetSession ---------------------------
(***************************************************************************)
(* One widget under session_run: drawn whenever it is dirty, handed one    *)
(* event at a time when it is not, several without a redraw by a paste,    *)
(* and woken by resizes, mouse motion and what goes on outside the         *)
(* program.  Each behaviour is about one widget, chosen from Kinds with    *)
(* one of its possible parameters.                                         *)
(***************************************************************************)
EXTENDS PluginWidgets, EditorWidgets

LOCAL INSTANCE SequencesExt

CONSTANTS Kinds,      \* the widgets a behaviour may be about
          MaxCount,   \* how many choices, rows, fields or items a widget has
          MaxOutput   \* how much a terminal's child may write

ASSUME WidgetSessionAssumption == MaxCount \in Nat \ {0} /\ MaxOutput \in Nat

VARIABLES w,       \* the widget's data
          dirty,   \* base.dirty
          shown,   \* the frame last drawn
          answer   \* the response session_run returns, with the key it came from

vars == <<w, dirty, shown, answer>>

NoAnswer == [key |-> "none"]
Open == answer.key = "none"

---------------------------------------------------------------------------
(* register_builtin_widgets and the factories: what a request can make.    *)
Texts == <<<<"a">>, <<"b">>, <<"a", "b">>>>
Dates == {<<2024, 2, 1>>, <<2023, 2, 28>>, <<2024, 4, 15>>, <<2024, 12, 31>>}
Items ==
  << <<[id |-> "crypt", widget |-> "filter", value |-> 0, visible_if |-> {[key |-> "disk", vals |-> {1}]}],
       [id |-> "disk", widget |-> "menu", choices |-> 2, value |-> 0, visible_if |-> {}],
       [id |-> "boot", widget |-> "menu", choices |-> 0, value |-> 0, visible_if |-> {}]>>,
     <<[id |-> "net", widget |-> "yesno", value |-> FALSE, visible_if |-> {}],
       [id |-> "odd", widget |-> "nosuch", value |-> 0, visible_if |-> {[key |-> "disk", vals |-> {0}]}]>> >>

Counts == 0..MaxCount
SliderEnds == {0, MaxCount}

(* The constructors, with parameters of every kind they tell apart.        *)
Constructed(kind) ==
  CASE kind = "menu"         -> {menu_widget_new(n, k) : n \in Counts, k \in 0..MaxCount}
    [] kind = "radio_group"  -> {radio_group_widget_new(n, k) : n \in Counts, k \in 0..MaxCount}
    [] kind = "context_menu" -> {context_menu_widget_new(n) : n \in Counts}
    [] kind = "checklist"    -> {checklist_widget_new(MaxCount, m, x, ds) : m \in {0, 1, 2},
                                 x \in {0, 1, 2}, ds \in {{}, {0}, 0..MaxCount - 1}}
                                \cup {checklist_widget_new(0, 0, x, {}) : x \in {0, 1}}
    [] kind = "filter"       -> {filter_widget_new(Texts)}
    [] kind = "multiselect"  -> {multiselect_widget_new(Texts, m, x) : m \in {0, 1}, x \in {0, 2}}
    [] kind = "table"        -> {table_widget_new(r, c) : r \in 0..MaxCount, c \in 0..MaxCount}
    [] kind = "tree"         -> {tree_widget_new([i \in 1..n |-> 0]) : n \in Counts}
    [] kind = "file_picker"  -> {file_picker_widget_new(<<>>), file_picker_widget_new(<<"sub">>)}
    [] kind = "yesno"        -> {yesno_widget_new(b) : b \in BOOLEAN}
    [] kind = "toggle"       -> {toggle_widget_new(b) : b \in BOOLEAN}
    [] kind = "calendar"     -> {calendar_widget_new(t) : t \in Dates}
    [] kind = "color_picker" -> {color_picker_widget_new}
    [] kind = "range_slider" -> {range_slider_widget_new(lo, hi, v) : lo \in SliderEnds, hi \in SliderEnds,
                                 v \in -1..MaxCount + 1}
    [] kind = "input"        -> {input_widget_new(t, v) : t \in {<<>>, <<"a">>}, v \in {"any", "word"}}
    [] kind = "password"     -> {password_widget_new}
    [] kind = "form"         -> {form_widget_new(n) : n \in 0..2}
    [] kind = "disk"         -> {disk_widget_new(p, f, r) : p \in 0..2, f \in 0..2, r \in BOOLEAN}
    [] kind = "spinner"      -> {spinner_widget_new}
    [] kind = "notification" -> {notification_widget_new}
    [] kind = "tabs"         -> {tabs_widget_new(n) : n \in Counts}
    [] kind = "split_panes"  -> {split_panes_widget_new}
    [] kind = "hub"          -> {hub_widget_new(Items, [f1 |-> "Proceed", f2 |-> "Back"])}
    [] kind = "text_editor"  -> {text_editor_widget_new(t) : t \in {<<<<>>>>, <<<<"a">>, <<>>, <<"a">>>>}}
    [] kind = "terminal_emulator" -> {terminal_emulator_widget_new}
    [] kind = "progress"     -> {progress_widget_new(p) : p \in {<<"usr", "bin", "ls">>, <<"opt", "run">>}}
    [] kind = "macro_recorder" -> {macro_recorder_widget_new(b) : b \in BOOLEAN}
    [] kind = "widget_builder" -> {widget_builder_new}
    [] OTHER -> {View(kind)}

(* The registry's one name that is not the factory's own.                  *)
register_builtin_widgets(name) == Constructed(IF name = "text" THEN "text_editor" ELSE name)

(* register_plugins, of the three plugins.                                 *)
PluginKinds ==
  {"install_hub", "forge_hub", "gforge_hub", "anvil", "forge_anvil", "poweruser", "iso", "recovery",
   "migration_desktop", "migration_init", "password_confirm", "user_manager", "kernel_picker",
   "profile_picker", "stage3_picker", "use_flags", "cflags"}

Item(id, widget, value, cond) ==
  [id |-> id, widget |-> widget, value |-> value, visible_if |-> cond, disk_picker |-> id = "TARGET_DISK",
   choices |-> IF id = "TARGET_DISK" THEN <<>> ELSE <<<<"a">>, <<"B">>>>]  \* no disk is found

(* Three hubs, small enough to go through: the conditions and the quick    *)
(* profiles, and the other widget types on two of them.                    *)
ProfileHub ==
  << <<Item("LUKS_PASS", "password", <<>>, {[key |-> "USE_LUKS", vals |-> {Yes}]}),
       Item("USE_LUKS", "yesno", No, {}),
       Item("TARGET_DISK", "menu", <<>>, {})>>,
     <<Item("QUICK_PROFILE_XFCE", "menu", <<>>, {}), Item("QUICK_PROFILE_LXQT", "menu", <<>>, {}),
       Item("QUICK_PROFILE_TESTING", "menu", <<>>, {})>> >>
TextHub ==
  << <<Item("HOSTNAME", "input", <<"a">>, {}), Item("PACKAGES", "multiselect", <<>>, {})>>,
     <<Item("ODD", "nosuch", <<>>, {})>> >>
SubHub ==
  << <<Item("LOCALE", "filter", <<"B">>, {}), Item("USERS", "toggle", No, {})>>,
     <<Item("ZRAM_PERCENT", "range_slider", <<"b">>, {})>> >>
HubActions == [f1 |-> "Proceed", f4 |-> "Back"]

CategoryCounts == {<<>>, <<2, 0>>, <<1, 2>>}

register_plugins(kind) ==
  CASE kind = "install_hub" -> {install_hub_factory(c, HubActions) : c \in {ProfileHub, TextHub, SubHub}}
    [] kind = "forge_hub"   -> {forge_hub_factory(c, HubActions) : c \in {TextHub, SubHub}}
    [] kind = "gforge_hub"  -> {gforge_hub_factory(SubSeq(Items, 1, 1), HubActions)}
    [] kind = "anvil"       -> {anvil_factory(n) : n \in CategoryCounts}
    [] kind = "forge_anvil" -> {forge_anvil_factory(n) : n \in CategoryCounts}
    [] kind = "poweruser"   -> {poweruser_factory(n) : n \in CategoryCounts}
    [] kind = "iso"         -> {iso_factory(n) : n \in CategoryCounts}
    [] kind = "recovery"    -> {recovery_factory(n, {"f1", "f2"}) : n \in 0..MaxCount}
    [] kind = "migration_desktop" -> {migration_desktop_factory(s) : s \in 0..1}
    [] kind = "migration_init" -> {migration_init_factory(s) : s \in 0..1}
    [] kind = "password_confirm" -> {password_confirm_factory}
    [] kind = "user_manager" -> {user_manager_factory}
    [] kind = "kernel_picker" -> {kernel_factory(n) : n \in 0..MaxCount}
    [] kind = "profile_picker" -> {profile_factory(n) : n \in 0..MaxCount}
    [] kind = "stage3_picker" -> {stage3_factory(n) : n \in 0..MaxCount}
    [] kind = "use_flags"   -> {use_flags_factory(n, m, x) : n \in Counts, m \in {0, 1}, x \in {1, 2}}
    [] OTHER -> {cflags_factory}

widget_registry_create(kind) ==
  IF kind \in PluginKinds THEN register_plugins(kind) ELSE register_builtin_widgets(kind)

(* The vtable.                                                             *)
render(d) ==
  LET k == d.kind IN
  CASE k = "menu" -> menu_render(d)           [] k = "radio_group" -> radio_group_render(d)
    [] k = "context_menu" -> cm_render(d)     [] k = "checklist" -> checklist_render(d)
    [] k = "filter" -> filter_render(d)       [] k = "multiselect" -> multiselect_render(d)
    [] k = "table" -> table_render(d)         [] k = "tree" -> tree_render(d)
    [] k = "file_picker" -> file_picker_render(d) [] k = "yesno" -> yesno_render(d)
    [] k = "toggle" -> toggle_render(d)       [] k = "calendar" -> calendar_render(d)
    [] k = "color_picker" -> cp_render(d)     [] k = "range_slider" -> rs_render(d)
    [] k = "input" -> input_render(d)         [] k = "password" -> password_render(d)
    [] k = "form" -> form_render(d)           [] k = "disk" -> disk_render(d)
    [] k = "tabs" -> tabs_render(d)           [] k = "split_panes" -> sp_render(d)
    [] k = "hub" -> hub_render(d)             [] k = "text_editor" -> text_editor_render(d)
    [] k = "terminal_emulator" -> terminal_emulator_render(d)
    [] k = "progress" -> progress_render(d)   [] k = "macro_recorder" -> mr_render(d)
    [] k = "widget_builder" -> builder_render(d)
    [] k = "install_hub" -> install_hub_render(d) [] k = "forge_hub" -> fh_render(d)
    [] k = "gforge_hub" -> hub_render(d)      [] k = "anvil" -> anvil_render(d)
    [] k = "forge_anvil" -> fa_render(d)      [] k = "poweruser" -> power_render(d)
    [] k = "iso" -> iso_render(d)             [] k = "recovery" -> rec_render(d)
    [] k = "migration_desktop" -> md_render(d) [] k = "migration_init" -> mi_render(d)
    [] k = "password_confirm" -> password_confirm_render(d)
    [] k = "user_manager" -> um_render(d)     [] k = "kernel_picker" -> kern_render(d)
    [] k = "profile_picker" -> prof_render(d) [] k = "stage3_picker" -> s3_render(d)
    [] k = "use_flags" -> uf_render(d)        [] k = "cflags" -> cf_render(d)
    [] OTHER -> Picture(d)

(* What rendering does to the data besides drawing it.                     *)
Drawn(d) ==
  CASE d.kind = "filter"      -> filter_update(d)
    [] d.kind = "multiselect" -> ms_update(d)
    [] d.kind = "tree"        -> [d EXCEPT !.flat = Flatten(d)]
    [] d.kind = "text_editor" -> te_clamp_cursor(d)
    [] d.kind \in {"hub", "gforge_hub"} -> [d EXCEPT !.sub_widget = SubDrawn(@)]
    [] d.kind = "progress"    -> ProgressDrawn(d)
    [] d.kind = "terminal_emulator" -> te_read_output(d)
    [] OTHER -> d

TakesMouse == {"image", "canvas", "spinner", "notification", "progress", "split_panes",
               "widget_builder"}

handle_event(d, e) ==
  LET k == d.kind IN
  CASE ~IsKey(e) /\ k \notin TakesMouse -> event_result_unhandled(d)
    [] OTHER ->
  CASE k = "menu" -> menu_handle_event(d, e)
    [] k = "radio_group" -> radio_group_handle_event(d, e)
    [] k = "context_menu" -> cm_handle_event(d, e)
    [] k = "checklist" -> checklist_handle_event(d, e)
    [] k = "filter" -> filter_handle_event(d, e)
    [] k = "multiselect" -> multiselect_handle_event(d, e)
    [] k = "table" -> table_handle_event(d, e)
    [] k = "tree" -> tree_handle_event(d, e)
    [] k = "file_picker" -> file_picker_handle_event(d, e)
    [] k = "yesno" -> yesno_handle_event(d, e)
    [] k = "toggle" -> toggle_handle_event(d, e)
    [] k = "calendar" -> calendar_handle_event(d, e)
    [] k = "color_picker" -> cp_handle_event(d, e)
    [] k = "range_slider" -> rs_handle_event(d, e)
    [] k = "input" -> input_handle_event(d, e)
    [] k = "password" -> password_handle_event(d, e)
    [] k = "form" -> form_handle_event(d, e)
    [] k = "disk" -> disk_handle_event(d, e)
    [] k = "spinner" -> spinner_handle_event(d, e)
    [] k = "notification" -> notification_handle_event(d, e)
    [] k = "tabs" -> tabs_handle_event(d, e)
    [] k = "split_panes" -> sp_handle_event(d, e)
    [] k = "hub" -> hub_handle_event(d, e)
    [] k = "text_editor" -> text_editor_handle_event(d, e)
    [] k = "terminal_emulator" -> terminal_emulator_handle_event(d, e)
    [] k = "progress" -> progress_handle_event(d, e)
    [] k = "macro_recorder" -> mr_handle_event(d, e)
    [] k = "widget_builder" -> builder_handle_event(d, e)
    [] k = "install_hub" -> install_hub_handle_event(d, e)
    [] k = "forge_hub" -> fh_handle_event(d, e)
    [] k = "gforge_hub" -> hub_handle_event(d, e)
    [] k = "anvil" -> anvil_handle(d, e)
    [] k = "forge_anvil" -> fa_handle(d, e)
    [] k = "poweruser" -> power_handle(d, e)
    [] k = "iso" -> iso_handle(d, e)
    [] k = "recovery" -> rec_handle(d, e)
    [] k = "migration_desktop" -> md_handle(d, e)
    [] k = "migration_init" -> mi_handle(d, e)
    [] k = "password_confirm" -> password_confirm_handle(d, e)
    [] k = "user_manager" -> um_handle(d, e)
    [] k = "kernel_picker" -> kern_handle(d, e)
    [] k = "profile_picker" -> prof_handle(d, e)
    [] k = "stage3_picker" -> s3_handle(d, e)
    [] k = "use_flags" -> uf_handle(d, e)
    [] k = "cflags" -> cf_handle(d, e)
    [] k = "canvas" -> canvas_handle_event(d, e)
    [] k = "image" -> image_handle_event(d, e)
    [] k = "separator" -> separator_handle_event(d, e)
    [] k = "summary" -> summary_handle_event(d, e)
    [] OTHER -> msg_handle_event(d, e)

---------------------------------------------------------------------------
(* The characters worth typing: those the widget tells apart and one more. *)
Typed(kind) ==
  CASE kind \in {"filter", "multiselect"} -> {"a", "b", "B", " "}
    [] kind \in {"password", "form"} -> {"a"}
    [] kind = "input" -> {"a", "5"}
    [] kind = "disk" -> {"a", "5", "n", "d", "r", "w", "q", "y"}
    [] kind \in {"hub", "gforge_hub"} -> {"a", "B", "y", "n"}
    [] kind \in {"install_hub", "forge_hub"} -> {"a", "B", "y", "n", " "}
    [] kind = "user_manager" -> {"a", "d", "y"}
    [] kind = "password_confirm" -> {"a"}
    [] kind = "text_editor" -> {"a", "^s", "^d"}
    [] kind = "terminal_emulator" -> {"a", "/", "^d"}
    [] kind = "macro_recorder" -> {"r", "s", "w", "p", "a"}
    [] kind = "widget_builder" -> {"a", "s"}
    [] OTHER -> {"a", " ", "y", "n"}

Sent == Keys \cup Typed(w.kind) \cup {"mouse"}

(* The bounds of an instance: texts, lists and positions stay small.       *)
Small(s) == Len(s) <= MaxText
Bounded(d) ==
  CASE d.kind \in {"filter", "multiselect", "input", "password", "terminal_emulator"} -> Small(d.text)
    [] d.kind = "macro_recorder" -> Small(d.text) /\ d.files \subseteq {<<"a">>, <<"w">>}
    [] d.kind = "form" -> \A i \in DOMAIN d.fields : Small(d.fields[i])
    [] d.kind = "disk" -> /\ Len(d.partitions) <= 3 /\ Len(d.text) <= 1
                         /\ \A i \in DOMAIN d.text : d.text[i] \in {"5", "n"}
    [] d.kind = "file_picker" -> Small(d.current_dir)
    [] d.kind \in {"hub", "gforge_hub"} -> d.sub_widget.kind = "filter" => Small(d.sub_widget.text)
    [] d.kind \in {"install_hub", "forge_hub"} ->
         /\ Len(d.edit.text) <= 1 /\ Len(d.edit.pass1) <= 1
    [] d.kind = "password_confirm" -> Small(d.pass1)
    [] d.kind = "user_manager" ->
         LET s == d.add_state IN
         {s.name, s.pass} \subseteq {<<>>, <<"a">>} /\ s.confirm_pass \in {<<>>, <<"a">>, <<"d">>}
    [] d.kind = "text_editor" -> Len(d.lines) <= 3 /\ \A i \in DOMAIN d.lines : Small(d.lines[i])
    [] d.kind = "widget_builder" ->
         /\ Len(d.items) <= 2 /\ Len(d.text) <= 1
         /\ \A i \in DOMAIN d.items : /\ d.items[i].at \in {<<0, 0>>, <<1, 0>>, <<0, 1>>}
                                      /\ Len(d.items[i].titles) <= 2
    [] OTHER -> TRUE

---------------------------------------------------------------------------
Init ==
  /\ \E kind \in Kinds : w \in widget_registry_create(kind)
  /\ dirty = TRUE
  /\ shown = <<"nothing">>
  /\ answer = NoAnswer

(* The top of the loop: a dirty widget is drawn and its flag cleared.      *)
Draw ==
  /\ Open /\ dirty
  /\ w' = Drawn(w)
  /\ shown' = render(w')
  /\ dirty' = FALSE
  /\ UNCHANGED answer

(* load_default_keymap: for a widget that does not accept text, q is Esc   *)
(* and the five other letters are keys that are sent anyhow.  The disk     *)
(* editor's q is the one letter of Chars this takes away.                  *)
Translated(e) == IF w.kind = "disk" /\ e = "q" THEN "esc" ELSE e

(* What is left when the process ends.                                     *)
Crashed == [key |-> "crash", cancelled |-> TRUE, value |-> "null"]

(* One event through handle_event; a response ends the session, and so may *)
(* what is undefined.                                                      *)
Deliver(e) ==
  /\ Open /\ ~dirty
  /\ LET o == handle_event(w, Translated(e))
         undefined == o.result.type = "undefined"
         result == IF undefined THEN o.result.survives ELSE o.result
         given == IF result.type = "response"
                  THEN [key |-> Translated(e), cancelled |-> result.cancelled, value |-> result.value]
                  ELSE NoAnswer IN
     /\ Bounded(o.d)
     /\ w' = o.d
     /\ dirty' = o.mark
     /\ answer' \in {given} \cup (IF undefined THEN {Crashed} ELSE {})
  /\ UNCHANGED shown

(* Ctrl-V: the clipboard goes in character by character, with no redraw    *)
(* between and every response dropped.                                     *)
Pastes == {<<c>> : c \in Typed(w.kind) \cap {"a", "y", "q", "B"}} \cup {<<"a", "a">>, <<"a", "y">>}

Paste(text) ==
  /\ Open /\ ~dirty
  /\ w' = FoldLeft(LAMBDA d, c : handle_event(d, c).d, w, text)
  /\ Bounded(w')
  /\ dirty' = TRUE
  /\ UNCHANGED <<shown, answer>>

(* A resize or the mouse moving makes the loop draw again.                 *)
Wake ==
  /\ Open /\ ~dirty
  /\ dirty' = TRUE
  /\ UNCHANGED <<w, shown, answer>>

(* Time passing, and the child of a terminal writing or ending.            *)
Outside ==
  /\ Open
  /\ \/ /\ w.kind = "notification" /\ ~w.expired
        /\ w' = [w EXCEPT !.expired = TRUE]
     \/ /\ w.kind = "terminal_emulator" /\ w.alive
        /\ w.sb_len + w.unread < MaxOutput
        /\ w' = [w EXCEPT !.unread = @ + 1]
     \/ /\ w.kind = "terminal_emulator" /\ w.alive
        /\ w' = [w EXCEPT !.alive = FALSE]
  /\ UNCHANGED <<dirty, shown, answer>>

Next ==
  \/ Draw \/ Wake \/ Outside
  \/ \E e \in Sent : Deliver(e)
  \/ \E text \in Pastes : Paste(text)

Spec == Init /\ [][Next]_vars

---------------------------------------------------------------------------
(* The kinds that change what they would draw without setting their flag:  *)
(* the moves of input's cursor, the hub's sub-widget, a notification's     *)
(* clock and the output of a terminal's child.                             *)
Unmarked == {"input", "notification", "terminal_emulator", "hub", "gforge_hub", "install_hub",
             "forge_hub"}

(* The kinds, flags and answers are the ones the code has, and the         *)
(* channels of a colour stay between their ends.                           *)
TypeOK ==
  /\ w.kind \in Kinds
  /\ w.kind = "color_picker" => w.channel \in 0..2 /\ w.rgb \in [0..2 -> 0..ChannelMax]
  /\ dirty \in BOOLEAN
  /\ Open \/ (answer.key \in Events \cup {"crash"} /\ answer.cancelled \in BOOLEAN)

(* Every place a handler will index stays inside what it indexes, whatever *)
(* keys, pastes and redraws come before: the cursors of the lists (which   *)
(* shrink under them by filtering, deleting and changing directory), the   *)
(* editor's row and column, the partition being resized, the selected day. *)
(* In a list without elements the cursor is at 0, where there is none: the *)
(* handlers of the Unchecked kinds index it there all the same, the others *)
(* look first.                                                             *)
Unchecked == {"menu", "radio_group", "context_menu", "checklist", "use_flags"}
Hollow(d) == d.kind \in Unchecked /\ d.count = 0

Within(i, n) == i \in 0..n - 1 \/ (n = 0 /\ i = 0)


(* What a widget answers is the value it had when it was last drawn, the   *)
(* one the user was looking at as far as the frame has room for it: a      *)
(* multiselect draws the marks of the rows its query leaves, an editor the *)
(* lines of its window.  (The Naming widgets have keys that name their     *)
(* answer themselves: y and n, the hubs' function keys, F1 of cflags; a    *)
(* list without choices has no value.)  And a file picker answers with a   *)
(* file of the directory it is in, however the user got there, through     *)
(* directories that cannot be opened included.                             *)
Naming == {"yesno", "hub", "gforge_hub", "install_hub", "forge_hub", "cflags"}

Picked(path) ==
  LET here == Resolve(Front0(path)) IN
  /\ here \in DOMAIN Listing
  /\ path[Len(path)] \in {Listing[here][i] : i \in DOMAIN Listing[here]}

AnswerIsShown ==
  (~Open /\ ~answer.cancelled /\ w.kind \notin Naming /\ ~Hollow(w)) =>
    /\ answer.value = Confirms(shown)
    /\ w.kind = "file_picker" => Picked(answer.value)

(* A widget can always be left: in every state a short series of keys      *)
(* (each drawn before the next) makes it answer.  A notification only      *)
(* closes once its time is over.                                           *)
Leaving == {<<"esc">>, <<"esc", "esc">>, <<"esc", "y">>, <<"esc", "esc", "y">>,
            <<"^d", "esc">>, <<"esc", "^d", "esc">>}

After(d, keys) ==
  FoldLeft(LAMBDA o, e : IF o.result.type = "response" THEN o ELSE handle_event(Drawn(o.d), e),
           event_result_unhandled(d), keys)


(* Backspace takes back a typed character and a line break, wherever in    *)
(* the text the cursor is.                                                 *)
EditorInverse ==
  w.kind = "text_editor" =>
    \A d \in {EditorType(w, "a"), EditorEnter(w)} :
      LET back == EditorBackspace(d) IN
      <<back.lines, back.row, back.col>> = <<w.lines, w.row, w.col>>

(* src/spec.md:814: "Buffer overflow protection via arena bounds           *)
(* checking."  The knob of a slider is drawn on its bar, which rs_render   *)
(* takes from the session's arena: on the narrowest bar and the widest.    *)
(* Refuted by TLC: a request may ask for a value outside the range.        *)
KnobOnBar ==
  (w.kind = "range_slider" /\ ~dirty) =>
    \A cells \in {3, 46} : Knob(w, cells) \in 0..cells - 1

(* Every widget keeps the contract session_run draws by, the Unmarked ones *)
(* as far as their frames are left out.                                    *)
Contract ==
  INSTANCE WidgetContract
  WITH frame <- IF w.kind \in Unmarked THEN <<>> ELSE render(Drawn(w)), answered <- ~Open

KeepsContract == Contract!Spec
=============================================================================
