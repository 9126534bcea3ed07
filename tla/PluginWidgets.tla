--------------------------- MODULE PluginWidgets ---------------------------
(***************************************************************************)
(* The other widgets of the ArtixForge, ForgeLFS and GForge plugins.       *)
(***************************************************************************)
EXTENDS PluginHubs

CONSTANT MaxChoices  \* how many entries of a built-in list an instance keeps

ASSUME MaxChoicesAssumption == MaxChoices \in Nat \ {0}

(* Lists in categories: a category index and an index within it, 0 for     *)
(* every new category.  counts may be empty, and so may a category.        *)
Categories(kind, counts) ==
  [kind |-> kind, counts |-> counts, cat_idx |-> 0, idx |-> 0, mode |-> "main", key |-> <<>>]

InCategory(d) == d.cat_idx < Len(d.counts) /\ d.idx < d.counts[d.cat_idx + 1]

CategoryMove(d, e) ==
  Marked(CASE e = "up"    -> [d EXCEPT !.idx = IF @ > 0 THEN @ - 1 ELSE 0]
           [] e = "down"  -> [d EXCEPT !.idx = IF d.counts # <<>> /\ @ + 1 < d.counts[d.cat_idx + 1]
                                               THEN @ + 1 ELSE @]
           [] e = "left"  -> [d EXCEPT !.cat_idx = IF @ > 0 THEN @ - 1 ELSE 0, !.idx = 0]
           [] e = "right" -> [d EXCEPT !.cat_idx = IF @ + 1 < Len(d.counts) THEN @ + 1 ELSE @, !.idx = 0])

Arrows == {"up", "down", "left", "right"}

(* anvil and forge_anvil: Enter asks before it answers, for the action     *)
(* that was under the cursor then.                                         *)
anvil_factory(counts) == Categories("anvil", counts)
forge_anvil_factory(counts) == Categories("forge_anvil", counts)

anvil_render(d) == Frame(<<d.mode, d.counts, d.cat_idx, d.idx>>, d.key)
fa_render(d) == anvil_render(d)

anvil_handle(d, e) ==
  CASE d.mode = "confirm" -> IF e = "y" THEN event_result_response(d, d.key)
                             ELSE Marked([d EXCEPT !.mode = "main"])
    [] d.mode = "main" ->
       CASE e = "esc" -> Cancelled(d)
         [] e \in Arrows -> CategoryMove(d, e)
         [] e = "enter" -> MarkedIf(InCategory(d), d,
                                    [d EXCEPT !.key = <<d.cat_idx, d.idx>>, !.mode = "confirm"])
         [] OTHER -> event_result_unhandled(d)

fa_handle(d, e) == anvil_handle(d, e)

(* poweruser and iso: Enter answers with the item for the caller to edit,  *)
(* F1 asks and then answers with all the values, which nothing here edits. *)
poweruser_factory(counts) == Categories("poweruser", counts)
iso_factory(counts) == Categories("iso", counts)

power_render(d) ==
  Frame(<<d.mode, d.counts, d.cat_idx, d.idx>>,
        IF d.mode = "confirm" THEN <<"values">> ELSE IF InCategory(d) THEN <<d.cat_idx, d.idx>> ELSE <<>>)
iso_render(d) == power_render(d)

power_handle(d, e) ==
  CASE d.mode = "confirm" -> IF e = "y" THEN event_result_response(d, <<"values">>)
                             ELSE Marked([d EXCEPT !.mode = "main"])
    [] d.mode = "main" ->
       CASE e = "esc" -> Cancelled(d)
         [] e \in Arrows -> CategoryMove(d, e)
         [] e = "enter" -> IF InCategory(d) THEN event_result_response(d, <<d.cat_idx, d.idx>>)
                           ELSE event_result_handled(d)
         [] e = "f1" -> Marked([d EXCEPT !.mode = "confirm"])
         [] OTHER -> event_result_unhandled(d)

iso_handle(d, e) == power_handle(d, e)

(* recovery: a list to read, and repairs on the function keys, each asked  *)
(* for.                                                                    *)
recovery_factory(status, repairs) ==
  [kind |-> "recovery", status_count |-> status, repairs |-> repairs, selected |-> 0,
   mode |-> "main", key |-> "null"]

rec_render(d) == Frame(<<d.mode, d.status_count, d.selected>>, d.key)

rec_handle(d, e) ==
  CASE d.mode = "confirm" -> IF e = "y" THEN event_result_response(d, d.key)
                             ELSE Marked([d EXCEPT !.mode = "main"])
    [] d.mode = "main" ->
       CASE e = "esc"  -> Cancelled(d)
         [] e = "up"   -> Marked([d EXCEPT !.selected = IF @ > 0 THEN @ - 1 ELSE @])
         [] e = "down" -> Marked([d EXCEPT !.selected = IF @ + 1 < d.status_count THEN @ + 1 ELSE @])
         [] e \in d.repairs -> Marked([d EXCEPT !.key = e, !.mode = "confirm"])
         [] OTHER -> event_result_unhandled(d)

---------------------------------------------------------------------------
(* The migrations: rows of choices, row 0 the source, which is fixed.  The *)
(* first choice row is the target; migrating to the source is refused.     *)
Rows(kind, source, counts) ==
  [kind |-> kind, source |-> source, counts |-> counts, choice |-> [i \in DOMAIN counts |-> 0], field |-> 0]

Kept(n) == IF n < MaxChoices THEN n ELSE MaxChoices

migration_desktop_factory(source) ==
  Rows("migration_desktop", source, [i \in 1..5 |-> Kept(<<18, 5, 4, 4, 5>>[i])])
migration_init_factory(source) ==
  [Rows("migration_init", source, <<Kept(4)>>) EXCEPT !.field = 1]

md_render(d) == Frame(<<d.field, d.source>>, <<d.source, d.choice>>)
mi_render(d) == md_render(d)

md_handle(d, e) ==
  LET i == d.field IN
  CASE e = "esc"   -> Cancelled(d)
    [] e = "up"    -> Marked([d EXCEPT !.field = IF @ > 0 THEN @ - 1 ELSE 0])
    [] e = "down"  -> Marked([d EXCEPT !.field = IF @ < Len(d.counts) THEN @ + 1 ELSE @])
    [] e = "left"  -> Marked(IF i > 0 THEN [d EXCEPT !.choice[i] = IF @ > 0 THEN @ - 1 ELSE @] ELSE d)
    [] e = "right" -> Marked(IF i > 0 THEN [d EXCEPT !.choice[i] = IF @ + 1 < d.counts[i] THEN @ + 1 ELSE @]
                             ELSE d)
    [] e = "enter" -> IF d.choice[1] = d.source THEN event_result_handled(d)
                      ELSE event_result_response(d, <<d.source, d.choice>>)
    [] OTHER       -> event_result_unhandled(d)

mi_handle(d, e) == md_handle(d, e)

---------------------------------------------------------------------------
(* password_confirm: as in the hubs, Tab never reaches the widget.         *)
filly_hash_password(pass) == <<"hash">> \o pass

password_confirm_factory == [kind |-> "password_confirm", pass1 |-> <<>>, pass2 |-> <<>>]
password_confirm_render(d) == Frame(<<Len(d.pass1), Len(d.pass2)>>, filly_hash_password(d.pass1))

password_confirm_handle(d, e) ==
  CASE e = "esc"       -> Cancelled(d)
    [] e = "enter"     -> IF d.pass1 # <<>> /\ d.pass1 = d.pass2
                          THEN event_result_response(d, filly_hash_password(d.pass1))
                          ELSE event_result_handled(d)
    [] IsChar(e)       -> Marked([d EXCEPT !.pass1 = Append(@, e)])
    [] e = "backspace" -> Marked([d EXCEPT !.pass1 = Front0(@)])
    [] OTHER           -> event_result_unhandled(d)

(* user_manager: the list of users, the form that adds and edits one, and  *)
(* the question before one is deleted.  The groups have no field in the   *)
(* form and are left out.                                                  *)
NoUser == [name |-> <<>>, pass |-> <<>>, confirm_pass |-> <<>>, shell_idx |-> 0, sudo |-> TRUE, field |-> 0]

user_manager_factory ==
  [kind |-> "user_manager", users |-> <<>>, mode |-> "list", selected |-> 0, del_idx |-> 0,
   add_state |-> NoUser]

Listed(users) == [i \in DOMAIN users |-> <<users[i].name, users[i].shell_idx, users[i].sudo>>]

um_render(d) ==
  LET s == d.add_state IN
  CASE d.mode = "form" -> Frame(<<d.mode, s.name, Len(s.pass), Len(s.confirm_pass), s.shell_idx, s.sudo, s.field>>,
                                d.users)
    [] d.mode = "delete" -> Frame(<<d.mode, d.users[d.del_idx + 1].name>>, d.users)
    [] OTHER -> Frame(<<d.mode, Listed(d.users), d.selected>>, d.users)

UserDelete(d, e) ==
  LET left == DeleteAt(d.users, d.del_idx + 1) IN
  Marked(IF e = "y" THEN [d EXCEPT !.mode = "list", !.users = left,
                                   !.selected = IF @ >= Len(left) /\ @ > 0 THEN @ - 1 ELSE @]
         ELSE [d EXCEPT !.mode = "list"])

UserList(d, e) ==
  LET some == d.selected < Len(d.users)
      u == d.users[d.selected + 1] IN
  CASE e = "esc"  -> event_result_response(d, d.users)
    [] e = "up"   -> Marked([d EXCEPT !.selected = IF @ > 0 THEN @ - 1 ELSE @])
    [] e = "down" -> Marked([d EXCEPT !.selected = IF @ + 1 < Len(d.users) THEN @ + 1 ELSE @])
    [] e = "a"    -> Marked([d EXCEPT !.mode = "form", !.add_state = NoUser])
    [] e = "d"    -> IF some THEN Marked([d EXCEPT !.mode = "delete", !.del_idx = d.selected])
                     ELSE event_result_unhandled(d)
    [] e = "enter" -> MarkedIf(some, d,
         [d EXCEPT !.mode = "form",
                   !.add_state = [NoUser EXCEPT !.name = u.name, !.shell_idx = u.shell_idx, !.sudo = u.sudo]])
    [] OTHER -> event_result_unhandled(d)

(* Enter in the form: the entry replaces the selected user if there is     *)
(* one, whichever way the form was opened.                                 *)
UserSave(d) ==
  LET s == d.add_state
      entry == [name |-> s.name, pass |-> filly_hash_password(s.pass), shell_idx |-> s.shell_idx,
                sudo |-> s.sudo] IN
  MarkedIf(s.name # <<>> /\ s.pass # <<>> /\ s.pass = s.confirm_pass, d,
           [d EXCEPT !.mode = "list",
                     !.users = IF d.selected < Len(@) THEN [@ EXCEPT ![d.selected + 1] = entry]
                               ELSE Append(@, entry)])

UserForm(d, e) ==
  LET field == d.add_state.field
      Edited(f(_)) ==
        CASE field = 0 -> [d EXCEPT !.add_state.name = f(@)]
          [] field = 1 -> [d EXCEPT !.add_state.pass = f(@)]
          [] field = 2 -> [d EXCEPT !.add_state.confirm_pass = f(@)]
          [] OTHER -> d
      Turned(n) ==
        CASE field = 3 -> [d EXCEPT !.add_state.shell_idx = (@ + n) % 3]
          [] field = 5 -> [d EXCEPT !.add_state.sudo = ~@]
          [] OTHER -> d
      Typing(s) == Append(s, e) IN
  CASE e = "esc"   -> Marked([d EXCEPT !.mode = "list"])
    [] e = "down"  -> Marked([d EXCEPT !.add_state.field = (@ + 1) % 6])
    [] e = "up"    -> Marked([d EXCEPT !.add_state.field = (@ + 5) % 6])
    [] e = "enter" -> UserSave(d)
    [] e = "left"  -> Marked(Turned(2))
    [] e = "right" -> Marked(Turned(1))
    [] IsChar(e)   -> Marked(Edited(Typing))
    [] e = "backspace" -> Marked(Edited(Front0))
    [] OTHER       -> event_result_unhandled(d)

um_handle(d, e) ==
  CASE d.mode = "delete" -> UserDelete(d, e)
    [] d.mode = "list"   -> UserList(d, e)
    [] OTHER             -> UserForm(d, e)

---------------------------------------------------------------------------
(* GForge: three pickers that differ in their titles only, the use flags   *)
(* and the compiler flags, whose fields the caller edits.                  *)
Picker(kind, count) == [kind |-> kind, count |-> count, selected |-> 0]
kernel_factory(count) == Picker("kernel_picker", count)
profile_factory(count) == Picker("profile_picker", count)
stage3_factory(count) == Picker("stage3_picker", count)

kern_render(d) == Frame(<<d.count, d.selected>>, d.selected)
prof_render(d) == kern_render(d)
s3_render(d) == kern_render(d)

kern_handle(d, e) ==
  CASE e = "esc"   -> Cancelled(d)
    [] e = "up"    -> Marked([d EXCEPT !.selected = IF @ > 0 THEN @ - 1 ELSE @])
    [] e = "down"  -> Marked([d EXCEPT !.selected = IF @ + 1 < d.count THEN @ + 1 ELSE @])
    [] e = "enter" -> IF d.selected < d.count THEN event_result_response(d, d.selected)
                      ELSE event_result_handled(d)
    [] OTHER       -> event_result_unhandled(d)

prof_handle(d, e) == kern_handle(d, e)
s3_handle(d, e) == kern_handle(d, e)

use_flags_factory(count, min, max) ==
  [kind |-> "use_flags", count |-> count, cursor |-> 0, min |-> min, max |-> max, selected |-> {}]

uf_render(d) == Frame(<<d.count, d.cursor>>, d.selected)

(* Enter answers with whatever is marked: min only keeps marks from going. *)
uf_handle(d, e) ==
  CASE e = "esc"   -> Cancelled(d)
    [] e = "up"    -> Marked([d EXCEPT !.cursor = IF @ > 0 THEN @ - 1 ELSE @])
    [] e = "down"  -> Marked([d EXCEPT !.cursor = IF @ + 1 < d.count THEN @ + 1 ELSE @])
    [] e = " "     -> IF d.count = 0 THEN Undefined(Marked(d))
                      ELSE Marked([d EXCEPT !.selected = Toggled(@, d.cursor, d.min, d.max)])
    [] IsChar(e) /\ e # " " -> event_result_handled(d)
    [] e = "enter" -> event_result_response(d, d.selected)
    [] OTHER       -> event_result_unhandled(d)

cflags_factory == [kind |-> "cflags", field |-> 0]
cf_render(d) == Frame(d.field, d.field)

(* F1 answers with the four strings of the request (here 4), Enter with    *)
(* the name of the one to edit.                                            *)
cf_handle(d, e) ==
  CASE e = "esc"   -> Cancelled(d)
    [] e = "up"    -> Marked([d EXCEPT !.field = IF @ > 0 THEN @ - 1 ELSE @])
    [] e = "down"  -> Marked([d EXCEPT !.field = IF @ < 3 THEN @ + 1 ELSE @])
    [] e = "f1"    -> event_result_response(d, 4)
    [] e = "enter" -> event_result_response(d, d.field)
    [] OTHER       -> event_result_unhandled(d)

gforge_hub_factory(categories, actions) ==
  [hub_widget_new(categories, actions) EXCEPT !.kind = "gforge_hub"]
=============================================================================
