----------------------------- MODULE ThemeUse -----------------------------
(***************************************************************************)
(* The theme in use, g_active_theme, between the threads that draw with it *)
(* and the ones that replace it (src/backend/daemon/daemon.c,              *)
(* src/core/session.c).                                                    *)
(*                                                                         *)
(* Every connection has its thread.  Some run a session, whose frames are  *)
(* rendered, styled, laid out and drawn; some answer control messages:     *)
(* reload_theme and set_accessibility change the theme under the write     *)
(* half of theme_lock, reload_plugins without it.  The accept loop reloads *)
(* the theme, with the application's override, when it can read an event   *)
(* of the inotify watch.  session_run takes no half of theme_lock.         *)
(*                                                                         *)
(* Themes are heap blocks: `themes[i]` is the i-th one that g_active_theme *)
(* was set to, 0 is NULL.  `live` tells whether the block is allocated;    *)
(* the themes chained behind it in `next` are never freed.  A step that    *)
(* reads a freed block either finds the old contents or ends the process.  *)
(***************************************************************************)
EXTENDS Theme, FiniteSets

CONSTANTS
  Sessions,    \* client threads that run sessions
  Controls,    \* client threads that answer control messages
  Main,        \* the thread of the accept loop
  Nobody,      \* theme_lock is free
  Scenes,      \* what widgets render, and on what: [tree, w, h, pixel]
  Blank,       \* no tree
  StyleRoot(_, _),   \* a node with the styles a theme gives it
  StyleChild(_, _),  \* ... and those it gives all that is below the node
  Disks,       \* contents of the theme files: [base, others, more, app, user, profile, plugins]
  ThemePath,   \* is the daemon started with an application theme?
  MaxEdits,    \* bound: changes of the files
  MaxOps       \* bound: control messages and reloads by the accept loop

ASSUME FrameAssumption ==
  /\ Sessions \cap Controls = {}
  /\ Main \notin Sessions \cup Controls
  /\ Nobody \notin Sessions \cup Controls \cup {Main}
  /\ ThemePath \in BOOLEAN
  /\ MaxEdits \in Nat
  /\ MaxOps \in Nat

\* The files on a disk whose `extends` names others.
Extending(d) ==
  LET top == {f \in {d.base, d.others, d.app, d.user, d.profile} : f.present}
  IN {f \in top \cup UNION {{g.extends[i] : i \in DOMAIN g.extends} : g \in top} :
        f.present /\ f.extends # <<>>}

\* The files a theme file is read from, and the selectors of each, are in
\* an order.
ASSUME FilesAssumption ==
  LET IsList(s) == s \in Seq({s[i] : i \in DOMAIN s})
  IN \A d \in Disks : \A file \in {d.base, d.others, d.app, d.user, d.profile} :
       \A survives \in SUBSET Extending(d) :
         LET read == Lineage(file, survives)
         IN IsList(read) /\ \A i \in DOMAIN read : IsList(read[i].widgets)

VARIABLES
  disk,      \* the theme files
  edits,     \* how often they were changed
  event,     \* the first event of the watch: "none", "named", "bare", "over"
  themes,    \* every theme that was in use: [theme, live, stamp, layers]
  active,    \* g_active_theme
  registry,  \* the animations registered
  lock,      \* holder of the write half of theme_lock, or Nobody
  pc,        \* where each thread stands
  op,        \* the control message it serves
  since,     \* `edits` when that message was dispatched
  ops,       \* how many were
  tree,      \* the tree a session is drawing
  surface,   \* the size it draws it for
  at,        \* how many parts of it are styled
  ptr,       \* the theme it styles with
  promised,  \* the greatest `since` of the reloads answered
  freed,     \* a freed theme was used
  crashed    \* the process has ended in consequence

vars == <<disk, edits, event, themes, active, registry, lock,
          pc, op, since, ops, tree, surface, at, ptr, promised, freed, crashed>>

files == <<disk, edits, event>>
memory == <<themes, active, registry>>
control == <<op, since, ops, promised>>
drawing == <<tree, surface, at, ptr>>

Writers == Controls \cup {Main}
Threads == Sessions \cup Writers
NoSurface == [w |-> 0, h |-> 0, pixel |-> FALSE]

Steps == {"idle", "render", "check", "take", "style", "layout",
          "lock", "free", "load", "others", "default", "app", "user",
          "profile", "plugins", "unlock", "null", "chain"}

TypeOK ==
  /\ disk \in Disks /\ edits \in 0..MaxEdits
  /\ event \in {"none", "named", "bare", "over"}
  /\ active \in 0..Len(themes)
  /\ lock \in Writers \cup {Nobody}
  /\ pc \in [Threads -> Steps]
  /\ since \in [Writers -> 0..edits]
  /\ ops \in 0..MaxOps
  /\ promised \in 0..edits
  /\ ptr \in [Sessions -> 0..Len(themes)]
  /\ freed \in BOOLEAN
  /\ crashed => freed

-----------------------------------------------------------------------------
(* The heap.                                                               *)
Alive(t) == t # 0 /\ themes[t].live

Block(theme, layers) ==
  [theme |-> theme, live |-> TRUE, stamp |-> edits, layers |-> layers]

\* The files a theme was made of, layer by layer.
Layers == {"base", "app", "user", "profile"}
OnlyBase(read) == [l \in Layers |-> IF l = "base" THEN read ELSE <<>>]

\* Memory that was freed is used: the process ends, or it reads on.
Misused(gone) ==
  /\ freed' = (freed \/ gone)
  /\ IF gone THEN crashed' \in {crashed, TRUE} ELSE crashed' = crashed

Touches(t) == Misused(t # 0 /\ ~themes[t].live)

Goto(t, where) == pc' = [pc EXCEPT ![t] = where]

-----------------------------------------------------------------------------
(* Start: daemon_run loads the theme and the plugins before it accepts.    *)
\* A theme of a directory that is chained behind another one, where nothing
\* looks at it; what it extends is left out.
Chained(file) == IF file.present THEN <<theme_load(file, {})>> ELSE <<>>

\* `survives` are the files whose `extends` could still be read.
Booted(d, survives) ==
  LET app == IF ThemePath THEN d.app ELSE Absent
      file == IF d.base.present THEN d.base ELSE d.others
      base == IF d.base.present THEN theme_load(d.base, survives["base"])
              ELSE IF d.others.present
              THEN theme_load_directory(<<theme_load(d.others, survives["base"])>>
                                          \o Chained(d.more))
              ELSE theme_default
      merged == theme_merge_user_override(
                  theme_merge_app_override(base, app, survives["app"]),
                  d.user, survives["user"])
  IN [theme |-> theme_add_plugin_overrides(merged, Chained(d.plugins)), live |-> TRUE,
      stamp |-> 0,
      layers |-> [l \in Layers |-> CASE l = "base" -> Lineage(file, survives[l])
                                     [] l = "app" -> Lineage(app, survives[l])
                                     [] l = "user" -> Lineage(d.user, survives[l])
                                     [] OTHER -> <<>>]]

\* Merging an override frees it, and theme_free clears the registry.
AfterMerge(reg, file) == IF file.present THEN animation_registry_clear ELSE reg

Init ==
  /\ disk \in Disks
  /\ edits = 0 /\ event = "none"
  /\ \E survives \in [Layers -> SUBSET Extending(disk)] :
       /\ themes = <<Booted(disk, survives)>>
       /\ registry = LET app == IF ThemePath THEN disk.app ELSE Absent
                         loaded == IF disk.base.present
                                   THEN Animations(<<>>, disk.base, survives["base"])
                                   ELSE Animations(Animations(<<>>, disk.others, survives["base"]),
                                                   disk.more, {})
                     IN Animations(AfterMerge(AfterMerge(loaded, app), disk.user),
                                   disk.plugins, {})
  /\ active = 1
  /\ lock = Nobody
  /\ pc = [t \in Threads |-> IF t \in Sessions THEN "render" ELSE "idle"]
  /\ op = [t \in Writers |-> "none"]
  /\ since = [t \in Writers |-> 0]
  /\ ops = 0
  /\ tree = [c \in Sessions |-> Blank]
  /\ surface = [c \in Sessions |-> NoSurface]
  /\ at = [c \in Sessions |-> 0]
  /\ ptr = [c \in Sessions |-> 0]
  /\ promised = 0
  /\ freed = FALSE
  /\ crashed = FALSE

\* Somebody saves theme files, deletes them, or removes their directory.  The
\* inotify watch is on that directory: a file saved in it gives an event with
\* a name, one deleted none, its own removal an event without a name.
Edit ==
  LET Directory == {"base", "others", "more"}
      saved == \E f \in Directory : disk'[f] # disk[f] /\ disk'[f].present
      empty == \A f \in Directory : ~disk'[f].present
  IN /\ edits < MaxEdits
     /\ edits' = edits + 1
     /\ disk' \in Disks \ {disk}
     /\ event' \in IF event # "none" THEN {event}
                   ELSE IF saved THEN {"named"}
                   ELSE IF empty THEN {"none", "bare"} ELSE {"none"}
     /\ UNCHANGED <<memory, control, drawing, lock, pc, freed, crashed>>

-----------------------------------------------------------------------------
(* session_run: one frame after the other.                                 *)
\* w->vtable.render
Render(c) ==
  /\ pc[c] = "render"
  /\ \E s \in Scenes : /\ tree' = [tree EXCEPT ![c] = s.tree]
                       /\ surface' = [surface EXCEPT ![c] = [w |-> s.w, h |-> s.h, pixel |-> s.pixel]]
  /\ Goto(c, "check")
  /\ UNCHANGED <<files, memory, control, lock, at, ptr, freed, crashed>>

\* if (g_active_theme) ...
CheckTheme(c) ==
  /\ pc[c] = "check"
  /\ Goto(c, IF active = 0 THEN "layout" ELSE "take")
  /\ UNCHANGED <<files, memory, control, drawing, lock, freed, crashed>>

\* ... resolve_node_styles(&tree, g_active_theme), which reads it again.
TakeTheme(c) ==
  /\ pc[c] = "take"
  /\ ptr' = [ptr EXCEPT ![c] = active]
  /\ at' = [at EXCEPT ![c] = 0]
  /\ Goto(c, "style")
  /\ UNCHANGED <<files, memory, control, lock, tree, surface,
                 freed, crashed>>

\* The root, then its children one by one; a NULL theme gives the defaults.
Style(c) ==
  /\ pc[c] = "style"
  /\ LET theme == IF ptr[c] = 0 THEN theme_default ELSE themes[ptr[c]].theme
         root == tree[c]
     IN tree' = [tree EXCEPT ![c] =
                   IF at[c] = 0 THEN StyleRoot(root, theme)
                   ELSE [root EXCEPT !.kids[at[c]] = StyleChild(@, theme)]]
  /\ Touches(ptr[c])
  /\ at' = [at EXCEPT ![c] = @ + 1]
  /\ Goto(c, IF at[c] < Len(tree[c].kids) THEN "style" ELSE "layout")
  /\ UNCHANGED <<files, memory, control, lock, surface, ptr>>

\* layout_tree, draw and clear_dirty; the next frame follows an
\* event.
LayoutAndDraw(c) ==
  /\ pc[c] = "layout"
  /\ tree' = [tree EXCEPT ![c] = Blank]
  /\ surface' = [surface EXCEPT ![c] = NoSurface]
  /\ at' = [at EXCEPT ![c] = 0]
  /\ ptr' = [ptr EXCEPT ![c] = 0]
  /\ Goto(c, "render")
  /\ UNCHANGED <<files, memory, control, lock, freed, crashed>>

DrawStep(c) ==
  Render(c) \/ CheckTheme(c) \/ TakeTheme(c) \/ Style(c) \/ LayoutAndDraw(c)

-----------------------------------------------------------------------------
(* Control messages.                                                       *)
Begin(t, what, where) ==
  /\ pc[t] = "idle"
  /\ ops < MaxOps
  /\ ops' = ops + 1
  /\ op' = [op EXCEPT ![t] = what]
  /\ since' = [since EXCEPT ![t] = edits]
  /\ Goto(t, where)

Finish(t) ==
  /\ Goto(t, "idle")
  /\ op' = [op EXCEPT ![t] = "none"]
  /\ since' = [since EXCEPT ![t] = 0]

dispatch_message(c) ==
  /\ \/ Begin(c, "reload_theme", "lock")
     \/ Begin(c, "set_accessibility", "lock")
     \/ Begin(c, "reload_plugins", "null")
  /\ UNCHANGED <<files, memory, drawing, lock, promised, freed, crashed>>

\* The accept loop reads the event and reloads.  Its buffer has no room for a
\* name: an event that has one is never read and stays the first.
WatchFires ==
  /\ event = "bare"
  /\ event' = "over"
  /\ Begin(Main, "watch", "lock")
  /\ UNCHANGED <<disk, edits, memory, drawing, lock, promised, freed,
                 crashed>>

\* pthread_rwlock_wrlock
Lock(t) ==
  /\ pc[t] = "lock"
  /\ lock = Nobody
  /\ lock' = t
  /\ Goto(t, IF op[t] = "set_accessibility" THEN "profile" ELSE "free")
  /\ UNCHANGED <<files, memory, control, drawing, freed, crashed>>

\* Slip: the theme that is replaced is forgotten, not freed.
ForgetTheme(t) ==
  /\ pc[t] = "free"
  /\ Goto(t, "load")
  /\ UNCHANGED <<files, memory, control, drawing, lock, freed, crashed>>

\* if (g_active_theme) theme_free(g_active_theme): the pointer stays, and so
\* do the themes in `next`, which nothing points at any more.
theme_free(t) ==
  /\ pc[t] = "free"
  /\ IF active = 0 THEN UNCHANGED <<themes, registry>>
     ELSE /\ themes' = [themes EXCEPT ![active].live = FALSE]
          /\ registry' = animation_registry_clear
  /\ Touches(active)
  /\ Goto(t, "load")
  /\ UNCHANGED <<files, active, control, drawing, lock>>

Becomes(theme, file, survives) ==
  /\ themes' = Append(themes, Block(theme, OnlyBase(Lineage(file, survives))))
  /\ active' = Len(themes) + 1

Overridden(t) == IF op[t] = "watch" /\ ThemePath THEN "app" ELSE "user"

\* g_active_theme = theme_load("themes/forge.json"), NULL if it fails.
LoadBase(t) ==
  /\ pc[t] = "load"
  /\ IF disk.base.present
     THEN /\ \E survives \in SUBSET Extending(disk) :
               /\ Becomes(theme_load(disk.base, survives), disk.base, survives)
               /\ registry' = Animations(registry, disk.base, survives)
          /\ Goto(t, Overridden(t))
     ELSE /\ active' = 0
          /\ Goto(t, "others")
          /\ UNCHANGED <<themes, registry>>
  /\ UNCHANGED <<files, control, drawing, lock, freed, crashed>>

\* ... or theme_load_directory("themes"), or theme_default().
LoadOthers(t) ==
  /\ pc[t] = "others"
  /\ IF disk.others.present
     THEN \E survives \in SUBSET Extending(disk) :
            /\ Becomes(theme_load_directory(<<theme_load(disk.others, survives)>>
                                              \o Chained(disk.more)),
                       disk.others, survives)
            /\ registry' = Animations(Animations(registry, disk.others, survives),
                                      disk.more, {})
     ELSE Becomes(theme_default, Absent, {}) /\ UNCHANGED registry
  /\ Goto(t, Overridden(t))
  /\ UNCHANGED <<files, control, drawing, lock, freed, crashed>>

\* One override file merged into the theme in use, and the next step.
MergeLayer(t, layer, file, Merge(_, _, _), where) ==
  /\ \E survives \in SUBSET Extending(disk) :
       themes' = [themes EXCEPT ![active].theme = Merge(@, file, survives),
                                ![active].layers[layer] = @ \o Lineage(file, survives)]
  /\ registry' = AfterMerge(registry, file)
  /\ Touches(active)
  /\ Goto(t, where)
  /\ UNCHANGED <<files, active, control, drawing, lock>>

MergeApp(t) ==
  /\ pc[t] = "app"
  /\ MergeLayer(t, "app", disk.app, theme_merge_app_override, "user")

MergeUser(t) ==
  /\ pc[t] = "user"
  /\ MergeLayer(t, "user", disk.user, theme_merge_user_override, "plugins")

\* set_accessibility names a profile, or none.
MergeProfile(t) ==
  /\ pc[t] = "profile"
  /\ \/ MergeLayer(t, "profile", disk.profile, theme_merge_accessibility_profile, "unlock")
     \/ /\ Goto(t, "unlock")
        /\ UNCHANGED <<files, memory, control, drawing, lock, freed, crashed>>

\* theme_add_plugin_overrides: loaded, chained, and never looked at again.
AddPlugins(t) ==
  /\ pc[t] = "plugins"
  /\ themes' = [themes EXCEPT ![active].theme =
                  theme_add_plugin_overrides(@, Chained(disk.plugins))]
  /\ registry' = Animations(registry, disk.plugins, {})
  /\ Touches(active)
  /\ Goto(t, "unlock")
  /\ UNCHANGED <<files, active, control, drawing, lock>>

\* pthread_rwlock_unlock and, for a control message, send_ok.
Unlock(t) ==
  /\ pc[t] = "unlock"
  /\ lock' = Nobody
  /\ promised' = IF op[t] \in {"reload_theme", "watch"} /\ since[t] > promised
                 THEN since[t] ELSE promised
  /\ Finish(t)
  /\ UNCHANGED <<files, memory, ops, drawing, freed, crashed>>

ThemeStep(t) ==
  \/ Lock(t) \/ theme_free(t) \/ LoadBase(t) \/ LoadOthers(t) \/ MergeApp(t)
  \/ MergeUser(t) \/ MergeProfile(t) \/ AddPlugins(t) \/ Unlock(t)

-----------------------------------------------------------------------------
(* reload_plugins, which holds no lock: what it does to the theme once the *)
(* libraries are unloaded and loaded again.                                *)
\* if (g_active_theme) theme_add_plugin_overrides(g_active_theme, path): by
\* the time the argument is read a reload may have made it NULL.
load_plugins(t) ==
  /\ pc[t] = "null"
  /\ IF active = 0 THEN Finish(t) ELSE Goto(t, "chain") /\ UNCHANGED <<op, since>>
  /\ UNCHANGED <<files, memory, ops, promised, drawing, lock, freed, crashed>>

ChainThemes(t) ==
  /\ pc[t] = "chain"
  /\ IF active = 0 \/ ~disk.plugins.present
     THEN UNCHANGED <<themes, registry>>
     ELSE /\ themes' = [themes EXCEPT ![active].theme =
                          theme_add_plugin_overrides(@, Chained(disk.plugins))]
          /\ registry' = Animations(registry, disk.plugins, {})
  /\ Misused(disk.plugins.present /\ ~Alive(active))
  /\ Finish(t)
  /\ UNCHANGED <<files, active, ops, promised, drawing, lock>>

PluginStep(t) ==
  load_plugins(t) \/ ChainThemes(t)

-----------------------------------------------------------------------------
ThreadStep(t) == ThemeStep(t) \/ PluginStep(t)

Next ==
  /\ ~crashed
  /\ \/ Edit
     \/ WatchFires
     \/ \E s \in Sessions : DrawStep(s)
     \/ \E c \in Controls : dispatch_message(c)
     \/ \E t \in Writers : ThreadStep(t)

Spec == Init /\ [][Next]_vars

-----------------------------------------------------------------------------
(* Properties.                                                             *)

\* Nobody is half way through changing the theme.
Settled == lock = Nobody

\* Once a reload is answered, the theme in use was read from files at least
\* as new as when the message came, however reloads overlapped.
ReloadIsFresh == Settled => themes[active].stamp >= promised

\* The writers free every block they replace once, and put another in its
\* place whatever files are missing: at rest, of all the blocks that were
\* g_active_theme, only the present one is allocated.  (What was chained
\* behind the others is not freed with them: see Stranded.)
OneThemeAtRest ==
  Settled => {i \in DOMAIN themes : themes[i].live} = {active}

\* theme_lock is held exactly while its holder is between taking it and
\* giving it back, on every path through a handler: a request that leaves it
\* locked would stop every later reload.
LockIsReturned ==
  \A t \in Writers :
    lock = t <=> pc[t] \in {"free", "load", "others", "app", "user", "profile",
                            "plugins", "unlock"}

\* The writers leave things as they must: the lock given back, and one theme,
\* which is that of the files.
TidyAtRest == TypeOK /\ LockIsReturned /\ OneThemeAtRest /\ ReloadIsFresh

\* The files that are read of a theme's layers, in the order in which they
\* count.
Stack(layers) ==
  layers["base"] \o layers["app"] \o layers["user"] \o layers["profile"]

\* What a selector means for the size p, and the sizes that the selectors of
\* a file set for a node: all but the value that means "not set".
Meant(w, p) == IF p \in DOMAIN w.props THEN w.props[p] ELSE widgetstyle_default[p]

Saying(file, class, child, state, p) ==
  {i \in DOMAIN file.widgets : /\ Matches(file.widgets[i], class, child, state)
                               /\ Meant(file.widgets[i], p) # Unset[p]}

Said(file, class, child, state, p) ==
  {Meant(file.widgets[i], p) : i \in Saying(file, class, child, state, p)}

LastWins(theme, read, class, child, state, p) ==
  LET sayers == {i \in DOMAIN read : Said(read[i], class, child, state, p) # {}}
      size == theme_resolve(theme, class, child, state)[p]
  IN IF sayers = {} THEN size = widgetstyle_default[p]
     ELSE size \in Said(read[Latest(sayers)], class, child, state, p)

Selectors(read) ==
  UNION {{read[i].widgets[j] : j \in DOMAIN read[i].widgets} : i \in DOMAIN read}

\* Whatever files were edited, merged and reloaded in whatever order, each
\* size of a node is one that the last file with anything to say of it gives:
\* base theme, application, user and accessibility profile count in this
\* order, a file more than those it extends, and of those the first most.
\* A file that asks for the value merge_style takes for "not set" says
\* nothing; a file with any rule for the node says "no maximum" of the
\* maximum sizes it does not give.
OverridesWin ==
  Settled =>
    LET read == Stack(themes[active].layers)
    IN \A w \in Selectors(read) : \A p \in Sizes :
         LastWins(themes[active].theme, read, w.class, w.child, w.state, p)

\* src/spec.md:542: "JSON theme files with inheritance via `extends`. 8
\* built-in themes plus user overrides from
\* `~/.config/filly/theme-override.json`."  A size that the user's file asks
\* for is what a node gets, unless a profile is merged over it.
\* Refuted by TLC: merge_style passes over one that asks for the default.
UserOverrides ==
  Settled /\ themes[active].layers["profile"] = <<>> =>
    LET mine == themes[active].layers["user"]
    IN \A w \in Selectors(mine) : \A p \in Sizes \cap DOMAIN w.props :
         theme_resolve(themes[active].theme, w.class, w.child, w.state)[p]
           \in {v.props[p] : v \in {v \in Selectors(mine) : p \in DOMAIN v.props}}

\* The blocks whose chain was left behind when they were freed.
Stranded == {i \in DOMAIN themes : ~themes[i].live /\ themes[i].theme.next # <<>>}

\* src/CHANGELOG.md:43 promises a lock on the "theme registry": no thread
\* uses a theme that another one has freed.
\* Refuted by TLC: a session reads g_active_theme without the lock.
ThemeAlive == ~freed
=============================================================================
