-------------------------- MODULE ThemeUseProofs --------------------------
(***************************************************************************)
(* For any number of sessions and of connections that change the theme,    *)
(* whatever the theme files hold and however often they are edited: the    *)
(* writers of the theme give theme_lock back, leave one theme in use and   *)
(* free the ones it replaced, though not what was chained behind them, and *)
(* it is as new as the reloads that were answered (UseInv);                *)
(* and the overrides of that theme win in their order (LayerInv).          *)
(***************************************************************************)
EXTENDS ThemeUse, SequenceTheorems, WellFoundedInduction, TLAPS

\* Places of a thread that holds theme_lock.
Held == {"free", "load", "others", "app", "user", "profile", "plugins", "unlock"}

\* ... where g_active_theme is a theme that is whole ...
Holding == {"free", "app", "user", "profile", "plugins", "unlock"}

\* ... and, if the theme is being reloaded, one that was just read.
Reread == {"app", "user", "plugins", "unlock"}

Reloads == {"reload_theme", "watch"}
Messages == Reloads \cup {"none", "set_accessibility", "reload_plugins"}

\* Blocks of the heap, for the parsed themes T and the lists of files L.
Blocks(T, L) == [theme : T, live : BOOLEAN, stamp : Nat, layers : L]

HeapOf(s) == \E T, L : s \in Seq(Blocks(T, L))

Heap == HeapOf(themes)

Live == {i \in DOMAIN themes : themes[i].live}

\* One theme is left, the one in use, and no reload promised a newer one.
Whole ==
  /\ active \in DOMAIN themes
  /\ Live = {active}
  /\ promised <= themes[active].stamp

AtRest == lock = Nobody => Whole

\* How far the holder of the lock has come with the theme.
Progress(t) ==
  /\ pc[t] \in Holding => Whole
  /\ pc[t] = "load" => Live = {}
  /\ pc[t] = "others" => Live = {} /\ active = 0
  /\ pc[t] = "profile" => op[t] = "set_accessibility"
  /\ pc[t] \in Reread /\ op[t] \in Reloads => since[t] <= themes[active].stamp

UseInv ==
  /\ TypeOK
  /\ op \in [Writers -> Messages]
  /\ Heap
  /\ LockIsReturned
  /\ AtRest
  /\ \A t \in Writers : Progress(t)

-----------------------------------------------------------------------------
(* The heap.                                                               *)

\* Blocks may be rewritten, but none is allocated or freed and no stamp changes.
Alike(s, r) ==
  /\ HeapOf(r) /\ DOMAIN r = DOMAIN s /\ Len(r) = Len(s)
  /\ \A i \in DOMAIN s : r[i].live = s[i].live /\ r[i].stamp = s[i].stamp

Keeps == Alike(themes, themes')

\* Every thread but t stands where it stood.
OthersWait(t) ==
  \A u \in Writers \ {t} : pc'[u] = pc[u] /\ op'[u] = op[u] /\ since'[u] = since[u]

(* What a block of the heap holds. *)
LEMMA BlockFacts ==
  ASSUME NEW T, NEW L, NEW r \in Blocks(T, L)
  PROVE  r.live \in BOOLEAN /\ r.stamp \in Nat
  BY DEF Blocks

(* A block that is freed. *)
LEMMA LiveFacts ==
  ASSUME NEW T, NEW L, NEW r \in Blocks(T, L), NEW b \in BOOLEAN
  PROVE  /\ [r EXCEPT !.live = b] \in Blocks(T, L)
         /\ [r EXCEPT !.live = b].live = b
  <1>1. [r EXCEPT !.live = b]
          = [theme |-> r.theme, live |-> b, stamp |-> r.stamp, layers |-> r.layers]
    BY DEF Blocks
  <1> QED BY <1>1 DEF Blocks

(* The blocks of fewer contents are among those of more. *)
LEMMA BlocksGrow ==
  ASSUME NEW T, NEW L, NEW x
  PROVE  /\ Blocks(T, L) \subseteq Blocks(T \cup {x}, L)
         /\ Blocks(T, L) \subseteq Blocks(T, L \cup {x})
  BY DEF Blocks

(* One element of a sequence replaced. *)
LEMMA Replaced ==
  ASSUME NEW S, NEW R, S \subseteq R, NEW s \in Seq(S), NEW j \in DOMAIN s, NEW b \in R
  PROVE  LET r == [s EXCEPT ![j] = b]
         IN /\ r \in Seq(R) /\ DOMAIN r = DOMAIN s /\ Len(r) = Len(s)
            /\ \A i \in DOMAIN s : r[i] = IF i = j THEN b ELSE s[i]
  <1>1. s \in Seq(R)
    OBVIOUS
  <1> QED BY <1>1

(* A heap is a sequence of blocks, each alive or not and with its stamp. *)
LEMMA HeapFacts ==
  Heap => /\ DOMAIN themes = 1..Len(themes) /\ Len(themes) \in Nat
          /\ \A i \in DOMAIN themes : themes[i].live \in BOOLEAN /\ themes[i].stamp \in Nat
  <1> SUFFICES ASSUME Heap
      PROVE  /\ DOMAIN themes = 1..Len(themes) /\ Len(themes) \in Nat
             /\ \A i \in DOMAIN themes : themes[i].live \in BOOLEAN /\ themes[i].stamp \in Nat
    OBVIOUS
  <1>1. PICK T, L : themes \in Seq(Blocks(T, L))
    BY DEF Heap, HeapOf
  <1>2. \A i \in DOMAIN themes : themes[i] \in Blocks(T, L)
    BY <1>1
  <1>3. \A i \in DOMAIN themes : themes[i].live \in BOOLEAN /\ themes[i].stamp \in Nat
    BY <1>2, BlockFacts
  <1> QED BY <1>1, <1>3

(* Leaving the heap alone keeps it. *)
LEMMA SameHeap == ASSUME Heap, UNCHANGED themes PROVE Keeps
  BY DEF Heap, Keeps, Alike

(* Appending a block: it gets the next number, and the others stay. *)
LEMMA Allocated ==
  ASSUME Heap, NEW x, NEW y, NEW n \in Nat,
         themes' = Append(themes, [theme |-> x, live |-> TRUE, stamp |-> n, layers |-> y])
  PROVE  /\ Heap'
         /\ Len(themes') = Len(themes) + 1
         /\ DOMAIN themes' = DOMAIN themes \cup {Len(themes) + 1}
         /\ \A i \in DOMAIN themes : themes'[i] = themes[i]
         /\ themes'[Len(themes) + 1].live = TRUE
         /\ themes'[Len(themes) + 1].stamp = n
         /\ themes'[Len(themes) + 1].theme = x
         /\ themes'[Len(themes) + 1].layers = y
  <1> DEFINE b == [theme |-> x, live |-> TRUE, stamp |-> n, layers |-> y]
  <1>1. PICK T, L : themes \in Seq(Blocks(T, L))
    BY DEF Heap, HeapOf
  <1> DEFINE S == Blocks(T \cup {x}, L \cup {y})
  <1>2. b \in S
    BY DEF Blocks
  <1>3. Blocks(T, L) \subseteq S
    BY DEF Blocks
  <1>4. themes \in Seq(S)
    <2> HIDE DEF S
    <2> QED BY <1>1, <1>3
  <1>5. themes' = Append(themes, b)
    OBVIOUS
  <1>6. b.live = TRUE /\ b.stamp = n /\ b.theme = x /\ b.layers = y
    OBVIOUS
  <1>7. themes' \in Seq(S)
    <2> HIDE DEF S, b
    <2> QED BY <1>2, <1>4, <1>5
  <1>8. Heap'
    BY <1>7 DEF Heap, HeapOf
  <1>9. /\ Len(themes') = Len(themes) + 1
        /\ DOMAIN themes' = DOMAIN themes \cup {Len(themes) + 1}
        /\ \A i \in DOMAIN themes : themes'[i] = themes[i]
        /\ themes'[Len(themes) + 1] = b
    <2> HIDE DEF S, b
    <2> QED BY <1>2, <1>4, <1>5
  <1> QED BY <1>6, <1>8, <1>9

(* Rewriting the theme that a block holds keeps the heap. *)
LEMMA Rethemed ==
  ASSUME NEW s, HeapOf(s), NEW j \in DOMAIN s, NEW x
  PROVE  LET r == [s EXCEPT ![j].theme = x]
         IN Alike(s, r) /\ r[j].theme = x /\ r[j].layers = s[j].layers
  <1>1. PICK T, L : s \in Seq(Blocks(T, L))
    BY DEF HeapOf
  <1> DEFINE S == Blocks(T, L)
             R == Blocks(T \cup {x}, L)
             b == [s[j] EXCEPT !.theme = x]
             r == [s EXCEPT ![j] = b]
  <1>2. s[j] \in Blocks(T, L)
    BY <1>1
  <1>3. /\ b \in R /\ b.live = s[j].live /\ b.stamp = s[j].stamp
        /\ b.theme = x /\ b.layers = s[j].layers
    <2> DEFINE q == s[j]
    <2>1. q \in Blocks(T, L)
      BY <1>2
    <2> HIDE DEF q
    <2>2. /\ [q EXCEPT !.theme = x] \in R
          /\ [q EXCEPT !.theme = x].live = q.live /\ [q EXCEPT !.theme = x].stamp = q.stamp
          /\ [q EXCEPT !.theme = x].theme = x /\ [q EXCEPT !.theme = x].layers = q.layers
      BY <2>1 DEF Blocks
    <2> QED BY <2>2 DEF q
  <1>4. S \subseteq R
    BY BlocksGrow
  <1>5. s \in Seq(S)
    BY <1>1
  <1> HIDE DEF S, R, b
  <1>6. /\ r \in Seq(R) /\ DOMAIN r = DOMAIN s /\ Len(r) = Len(s)
        /\ \A i \in DOMAIN s : r[i] = IF i = j THEN b ELSE s[i]
    BY <1>3, <1>4, <1>5, Replaced
  <1>7. HeapOf(r)
    BY <1>6 DEF HeapOf, R
  <1> HIDE DEF r
  <1>8. Alike(s, r) /\ r[j].theme = x /\ r[j].layers = s[j].layers
    BY <1>3, <1>6, <1>7 DEF Alike
  <1> QED BY <1>8 DEF r, b

(* ... so does rewriting its list of files ... *)
LEMMA Relayered ==
  ASSUME NEW s, HeapOf(s), NEW j \in DOMAIN s, NEW y
  PROVE  LET r == [s EXCEPT ![j].layers = y]
         IN Alike(s, r) /\ r[j].theme = s[j].theme /\ r[j].layers = y
  <1>1. PICK T, L : s \in Seq(Blocks(T, L))
    BY DEF HeapOf
  <1> DEFINE S == Blocks(T, L)
             R == Blocks(T, L \cup {y})
             b == [s[j] EXCEPT !.layers = y]
             r == [s EXCEPT ![j] = b]
  <1>2. s[j] \in Blocks(T, L)
    BY <1>1
  <1>3. /\ b \in R /\ b.live = s[j].live /\ b.stamp = s[j].stamp
        /\ b.theme = s[j].theme /\ b.layers = y
    <2> DEFINE q == s[j]
    <2>1. q \in Blocks(T, L)
      BY <1>2
    <2> HIDE DEF q
    <2>2. /\ [q EXCEPT !.layers = y] \in R
          /\ [q EXCEPT !.layers = y].live = q.live /\ [q EXCEPT !.layers = y].stamp = q.stamp
          /\ [q EXCEPT !.layers = y].theme = q.theme /\ [q EXCEPT !.layers = y].layers = y
      BY <2>1 DEF Blocks
    <2> QED BY <2>2 DEF q
  <1>4. S \subseteq R
    BY BlocksGrow
  <1>5. s \in Seq(S)
    BY <1>1
  <1> HIDE DEF S, R, b
  <1>6. /\ r \in Seq(R) /\ DOMAIN r = DOMAIN s /\ Len(r) = Len(s)
        /\ \A i \in DOMAIN s : r[i] = IF i = j THEN b ELSE s[i]
    BY <1>3, <1>4, <1>5, Replaced
  <1>7. HeapOf(r)
    BY <1>6 DEF HeapOf, R
  <1> HIDE DEF r
  <1>8. Alike(s, r) /\ r[j].theme = s[j].theme /\ r[j].layers = y
    BY <1>3, <1>6, <1>7 DEF Alike
  <1> QED BY <1>8 DEF r, b

(* ... and one after the other. *)
LEMMA BothRewritten ==
  ASSUME NEW s, HeapOf(s), NEW j \in DOMAIN s, NEW x, NEW y
  PROVE  LET r == [s EXCEPT ![j].theme = x, ![j].layers = y]
         IN Alike(s, r) /\ r[j].theme = x /\ r[j].layers = y
  <1> DEFINE r == [s EXCEPT ![j].theme = x]
             q == [r EXCEPT ![j].layers = y]
  <1>1. Alike(s, r) /\ r[j].theme = x
    BY Rethemed, Zenon
  <1> HIDE DEF r
  <1>2. HeapOf(r) /\ j \in DOMAIN r
    BY <1>1 DEF Alike
  <1>3. Alike(r, q) /\ q[j].theme = r[j].theme /\ q[j].layers = y
    BY <1>2, Relayered, Zenon
  <1> HIDE DEF q
  <1>4. Alike(s, q) /\ q[j].theme = x /\ q[j].layers = y
    BY <1>1, <1>3 DEF Alike
  <1> QED BY <1>4 DEF q, r

(* A step that keeps the heap keeps the theme in use whole. *)
LEMMA KeptWhole ==
  ASSUME Keeps, active' = active, promised' = promised
  PROVE  Live' = Live /\ (Whole => Whole')
  <1>1. Live' = Live
    BY DEF Keeps, Alike, Live
  <1> QED BY <1>1 DEF Keeps, Alike, Whole

-----------------------------------------------------------------------------
(* Who may do what to the theme.                                           *)

(* A step outside the lock that keeps the heap disturbs no holder of it. *)
LEMMA OutsideStep ==
  ASSUME UseInv, Keeps, UNCHANGED <<active, lock, promised>>,
         NEW t \in Writers, OthersWait(t), pc[t] \notin Held, pc'[t] \notin Held
  PROVE  LockIsReturned' /\ AtRest' /\ \A u \in Writers : Progress(u)'
  <1>1. Live' = Live /\ (Whole => Whole')
    BY KeptWhole
  <1>2. LockIsReturned'
    BY DEF UseInv, LockIsReturned, OthersWait, Held
  <1>3. AtRest'
    BY <1>1 DEF UseInv, AtRest
  <1>4. ASSUME NEW u \in Writers PROVE Progress(u)'
    <2>1. CASE u = t
      BY <2>1 DEF Progress, Held, Holding, Reread
    <2>2. CASE u # t
      <3>1. pc'[u] = pc[u] /\ op'[u] = op[u] /\ since'[u] = since[u]
        BY <2>2 DEF OthersWait
      <3>2. Progress(u)
        BY DEF UseInv
      <3>3. CASE pc[u] \in Holding
        <4>1. active \in DOMAIN themes
          BY <3>2, <3>3 DEF Progress, Whole
        <4>2. themes'[active'].stamp = themes[active].stamp
          BY <4>1 DEF Keeps, Alike
        <4> QED BY <3>1, <3>2, <3>3, <4>2, <1>1 DEF Progress, Holding, Reread
      <3>4. CASE pc[u] \notin Holding
        BY <3>1, <3>2, <3>4, <1>1 DEF Progress, Holding, Reread
      <3> QED BY <3>3, <3>4
    <2> QED BY <2>1, <2>2
  <1> QED BY <1>2, <1>3, <1>4

(* While one thread holds the lock nobody else is among the steps it guards. *)
LEMMA HolderStep ==
  ASSUME UseInv, lock' = lock, NEW t \in Writers, OthersWait(t),
         pc[t] \in Held, pc'[t] \in Held, Progress(t)'
  PROVE  LockIsReturned' /\ AtRest' /\ \A u \in Writers : Progress(u)'
  <1>1. lock = t /\ t # Nobody
    BY FrameAssumption DEF UseInv, LockIsReturned, Held, Writers
  <1>2. \A u \in Writers \ {t} : pc'[u] \notin Held
    BY <1>1 DEF UseInv, LockIsReturned, Held, OthersWait
  <1>3. LockIsReturned'
    BY <1>1, <1>2 DEF LockIsReturned, Held
  <1>4. \A u \in Writers : Progress(u)'
    BY <1>2 DEF Progress, Held, Holding, Reread
  <1> QED BY <1>1, <1>3, <1>4 DEF AtRest

-----------------------------------------------------------------------------
(* What every step does to the types.                                      *)

(* A thread that goes somewhere is there, and the others stay. *)
LEMMA Went ==
  ASSUME UseInv, NEW t \in Threads, NEW where \in Steps, Goto(t, where)
  PROVE  /\ pc' \in [Threads -> Steps] /\ pc'[t] = where
         /\ \A u \in Threads : u # t => pc'[u] = pc[u]
  BY DEF UseInv, TypeOK, Goto

(* Using freed memory is remembered before the process may end. *)
LEMMA Remembered ==
  ASSUME TypeOK, NEW gone \in BOOLEAN, Misused(gone)
  PROVE  freed' \in BOOLEAN /\ (crashed' => freed')
  <1>1. CASE gone
    BY <1>1, Zenon DEF Misused
  <1>2. CASE ~gone
    BY <1>2, Zenon DEF Misused, TypeOK
  <1> QED BY <1>1, <1>2

LEMMA TouchRemembered ==
  ASSUME TypeOK, NEW t, Touches(t)
  PROVE  freed' \in BOOLEAN /\ (crashed' => freed')
  <1>1. (t # 0 /\ ~themes[t].live) \in BOOLEAN
    BY Zenon
  <1>2. Misused(t # 0 /\ ~themes[t].live)
    BY Zenon DEF Touches
  <1> DEFINE gone == t # 0 /\ ~themes[t].live
  <1> HIDE DEF gone
  <1>3. gone \in BOOLEAN /\ Misused(gone)
    BY <1>1, <1>2 DEF gone
  <1> QED BY <1>3, Remembered, Zenon

(* The holder rewrites the theme in use, or leaves it, and goes on. *)
LEMMA HolderKeeps ==
  ASSUME UseInv, NEW t \in Writers, NEW where \in {"user", "plugins", "unlock"},
         pc[t] \in Reread \/ pc[t] = "profile",
         Keeps, Goto(t, where), UNCHANGED <<files, active, control, drawing, lock>>,
         freed' \in BOOLEAN, crashed' => freed'
  PROVE  UseInv'
  <1>1. t \in Threads /\ where \in Steps
    BY DEF Threads, Steps
  <1>2. /\ pc' \in [Threads -> Steps] /\ pc'[t] = where
        /\ \A u \in Threads : u # t => pc'[u] = pc[u]
    BY <1>1, Went
  <1>3. OthersWait(t)
    BY <1>2 DEF OthersWait, Threads, control
  <1>4. Whole /\ Progress(t)
    BY DEF UseInv, Progress, Reread, Holding
  <1>5. Live' = Live /\ Whole'
    BY <1>4, KeptWhole DEF control
  <1>6. themes'[active'].stamp = themes[active].stamp
    BY <1>4 DEF Whole, Keeps, Alike
  <1>7. op'[t] = op[t] /\ since'[t] = since[t]
    BY DEF control
  <1>8. Progress(t)'
    <2>1. pc[t] \in Reread \/ op[t] \notin Reloads
      BY <1>4 DEF Progress, Reloads
    <2> QED BY <1>2, <1>4, <1>5, <1>6, <1>7, <2>1 DEF Progress, Holding, Reread
  <1>9. LockIsReturned' /\ AtRest' /\ \A u \in Writers : Progress(u)'
    <2>1. pc[t] \in Held /\ pc'[t] \in Held
      BY <1>2 DEF Held, Reread
    <2> QED BY <1>3, <1>8, <2>1, HolderStep
  <1>10. TypeOK'
    BY <1>2 DEF UseInv, TypeOK, Keeps, Alike, files, control, drawing
  <1> QED BY <1>9, <1>10 DEF UseInv, Keeps, Alike, Heap, control

(* Each override merged into the theme in use leaves it whole. *)
LEMMA MergesKeep ==
  ASSUME UseInv, NEW t \in Writers, MergeApp(t) \/ MergeUser(t) \/ MergeProfile(t)
  PROVE  UseInv'
  <1>1. CASE pc[t] = "profile" /\ Goto(t, "unlock")
             /\ UNCHANGED <<files, memory, control, drawing, lock, freed, crashed>>
    <2>1. Keeps
      BY <1>1, SameHeap DEF UseInv, memory
    <2>2. freed' \in BOOLEAN /\ (crashed' => freed')
      BY <1>1 DEF UseInv, TypeOK
    <2> QED BY <1>1, <2>1, <2>2, HolderKeeps DEF memory
  <1>2. ASSUME NEW x, NEW y, NEW where \in {"user", "plugins", "unlock"},
               pc[t] \in Reread \/ pc[t] = "profile",
               themes' = [themes EXCEPT ![active].theme = x, ![active].layers = y],
               Touches(active), Goto(t, where),
               UNCHANGED <<files, active, control, drawing, lock>>
        PROVE  UseInv'
    <2>1. active \in DOMAIN themes
      BY <1>2 DEF UseInv, Progress, Whole, Reread, Holding
    <2>2. Keeps
      BY <1>2, <2>1, BothRewritten DEF UseInv, Heap, Keeps
    <2>3. freed' \in BOOLEAN /\ (crashed' => freed')
      BY <1>2, TouchRemembered DEF UseInv
    <2> QED BY <1>2, <2>2, <2>3, HolderKeeps
  <1>3. CASE MergeApp(t)
    BY <1>2, <1>3 DEF MergeApp, MergeLayer, Reread
  <1>4. CASE MergeUser(t)
    BY <1>2, <1>4 DEF MergeUser, MergeLayer, Reread
  <1>5. CASE MergeProfile(t)
    BY <1>1, <1>2, <1>5 DEF MergeProfile, MergeLayer, Reread
  <1> QED BY <1>3, <1>4, <1>5

(* Chaining the plugins' themes behind it does, too. *)
LEMMA AddPluginsKeeps ==
  ASSUME UseInv, NEW t \in Writers, AddPlugins(t)
  PROVE  UseInv'
  <1> DEFINE x == theme_add_plugin_overrides(themes[active].theme, Chained(disk.plugins))
  <1>1. /\ pc[t] = "plugins" /\ Touches(active) /\ Goto(t, "unlock")
        /\ themes' = [themes EXCEPT ![active].theme = x]
        /\ UNCHANGED <<files, active, control, drawing, lock>>
    BY DEF AddPlugins
  <1>2. active \in DOMAIN themes
    BY <1>1 DEF UseInv, Progress, Whole, Holding
  <1> HIDE DEF x
  <1>3. Keeps
    BY <1>1, <1>2, Rethemed DEF UseInv, Heap, Keeps
  <1>4. freed' \in BOOLEAN /\ (crashed' => freed')
    BY <1>1, TouchRemembered DEF UseInv
  <1> QED BY <1>1, <1>3, <1>4, HolderKeeps DEF Reread

(* Freeing the theme in use leaves none alive, and the lock held. *)
LEMMA FreeKeeps ==
  ASSUME UseInv, NEW t \in Writers, theme_free(t)
  PROVE  UseInv'
  <1>1. /\ pc[t] = "free" /\ Touches(active) /\ Goto(t, "load")
        /\ UNCHANGED <<files, active, control, drawing, lock>>
    BY DEF theme_free
  <1>2. Whole
    BY <1>1 DEF UseInv, Progress, Holding
  <1>3. active # 0
    BY <1>2, HeapFacts DEF Whole, UseInv
  <1>4. themes' = [themes EXCEPT ![active].live = FALSE]
    BY <1>3 DEF theme_free
  <1>5. PICK T, L : themes \in Seq(Blocks(T, L))
    BY DEF UseInv, Heap, HeapOf
  <1> DEFINE q == themes[active]
             b == [q EXCEPT !.live = FALSE]
             S == Blocks(T, L)
  <1>6. q \in S
    BY <1>2, <1>5 DEF Whole
  <1>7. b \in S /\ b.live = FALSE
    <2> HIDE DEF q
    <2> QED BY <1>6, LiveFacts
  <1>8. themes' = [themes EXCEPT ![active] = b] /\ themes \in Seq(S) /\ active \in DOMAIN themes
    BY <1>2, <1>4, <1>5 DEF Whole
  <1> HIDE DEF S, b, q
  <1>9. /\ themes' \in Seq(S) /\ DOMAIN themes' = DOMAIN themes /\ Len(themes') = Len(themes)
        /\ \A i \in DOMAIN themes : themes'[i] = IF i = active THEN b ELSE themes[i]
    BY <1>7, <1>8, Replaced
  <1>10. Heap'
    BY <1>9 DEF Heap, HeapOf, S
  <1>11. Live' = {}
    BY <1>2, <1>7, <1>9 DEF Live, Whole
  <1>12. /\ pc' \in [Threads -> Steps] /\ pc'[t] = "load"
         /\ \A u \in Threads : u # t => pc'[u] = pc[u]
    BY <1>1, Went DEF Threads, Steps
  <1>13. OthersWait(t)
    BY <1>1, <1>12 DEF OthersWait, Threads, control
  <1>14. Progress(t)'
    BY <1>11, <1>12 DEF Progress, Holding, Reread
  <1>15. LockIsReturned' /\ AtRest' /\ \A u \in Writers : Progress(u)'
    BY <1>1, <1>12, <1>13, <1>14, HolderStep DEF Held
  <1>16. freed' \in BOOLEAN /\ (crashed' => freed')
    BY <1>1, TouchRemembered DEF UseInv
  <1>17. TypeOK'
    BY <1>1, <1>9, <1>12, <1>16 DEF UseInv, TypeOK, files, control, drawing
  <1> QED BY <1>1, <1>10, <1>15, <1>17 DEF UseInv, control

(* A theme that is read takes the place of the freed one: it is the only one  *)
(* alive and as new as the files are.                                         *)
LEMMA LoadedKeeps ==
  ASSUME UseInv, NEW t \in Writers, pc[t] \in {"load", "others"},
         NEW theme, NEW file, NEW survives, Becomes(theme, file, survives), Goto(t, Overridden(t)),
         UNCHANGED <<files, control, drawing, lock, freed, crashed>>
  PROVE  UseInv'
  <1> DEFINE y == OnlyBase(Lineage(file, survives))
             n == Len(themes) + 1
  <1>1. Live = {}
    BY DEF UseInv, Progress
  <1>2. /\ edits \in Nat /\ since[t] \in 0..edits /\ promised \in 0..edits
        /\ edits' = edits /\ promised' = promised
        /\ op'[t] = op[t] /\ since'[t] = since[t]
    BY FrameAssumption DEF UseInv, TypeOK, files, control
  <1>3. /\ themes' = Append(themes, [theme |-> theme, live |-> TRUE, stamp |-> edits, layers |-> y])
        /\ active' = n
    BY DEF Becomes, Block
  <1> HIDE DEF y
  <1>4. /\ Heap' /\ Len(themes') = n
        /\ DOMAIN themes' = DOMAIN themes \cup {n}
        /\ \A i \in DOMAIN themes : themes'[i] = themes[i]
        /\ themes'[n].live = TRUE /\ themes'[n].stamp = edits
    BY <1>2, <1>3, Allocated DEF UseInv
  <1>5. DOMAIN themes = 1..Len(themes) /\ Len(themes) \in Nat
    BY HeapFacts DEF UseInv
  <1>6. Live' = {n}
    BY <1>1, <1>4, <1>5 DEF Live
  <1>7. Whole'
    BY <1>2, <1>3, <1>4, <1>6 DEF Whole
  <1>8. Overridden(t) \in {"app", "user"}
    BY DEF Overridden
  <1>9. /\ pc' \in [Threads -> Steps] /\ pc'[t] \in {"app", "user"}
        /\ \A u \in Threads : u # t => pc'[u] = pc[u]
    <2> DEFINE where == Overridden(t)
    <2>1. where \in Steps /\ t \in Threads
      BY <1>8 DEF Steps, Threads
    <2> HIDE DEF where
    <2> QED BY <1>8, <2>1, Went DEF where
  <1>10. OthersWait(t)
    BY <1>9 DEF OthersWait, Threads, control
  <1>11. since'[t] <= themes'[active'].stamp
    BY <1>2, <1>3, <1>4
  <1>12. Progress(t)'
    BY <1>7, <1>9, <1>11 DEF Progress, Holding, Reread
  <1>13. LockIsReturned' /\ AtRest' /\ \A u \in Writers : Progress(u)'
    BY <1>9, <1>10, <1>12, HolderStep DEF Held
  <1>14. TypeOK'
    <2>1. active' \in 0..Len(themes')
      BY <1>3, <1>4, <1>5
    <2>2. ptr' \in [Sessions -> 0..Len(themes')]
      BY <1>4, <1>5 DEF UseInv, TypeOK, drawing
    <2> QED BY <1>9, <2>1, <2>2 DEF UseInv, TypeOK, files, control
  <1> QED BY <1>4, <1>13, <1>14 DEF UseInv, control

(* ... whichever file it is read from. *)
LEMMA LoadsKeep ==
  ASSUME UseInv, NEW t \in Writers, LoadBase(t) \/ LoadOthers(t)
  PROVE  UseInv'
  <1>1. CASE LoadOthers(t)
    BY <1>1, LoadedKeeps DEF LoadOthers
  <1>2. CASE LoadBase(t) /\ disk.base.present
    BY <1>2, LoadedKeeps DEF LoadBase
  <1>3. CASE LoadBase(t) /\ ~disk.base.present
    <2>1. /\ pc[t] = "load" /\ active' = 0 /\ Goto(t, "others") /\ UNCHANGED themes
          /\ UNCHANGED <<files, control, drawing, lock, freed, crashed>>
      BY <1>3 DEF LoadBase
    <2>2. Heap' /\ Live' = Live /\ Live = {}
      BY <2>1 DEF UseInv, Progress, Live, Heap
    <2>3. /\ pc' \in [Threads -> Steps] /\ pc'[t] = "others"
          /\ \A u \in Threads : u # t => pc'[u] = pc[u]
      BY <2>1, Went DEF Threads, Steps
    <2>4. OthersWait(t)
      BY <2>1, <2>3 DEF OthersWait, Threads, control
    <2>5. Progress(t)'
      BY <2>1, <2>2, <2>3 DEF Progress, Holding, Reread
    <2>6. LockIsReturned' /\ AtRest' /\ \A u \in Writers : Progress(u)'
      BY <2>1, <2>3, <2>4, <2>5, HolderStep DEF Held
    <2>7. TypeOK'
      <3>1. active' \in 0..Len(themes')
        BY <2>1, HeapFacts DEF UseInv
      <3> QED BY <2>1, <2>3, <3>1 DEF UseInv, TypeOK, files, control, drawing
    <2> QED BY <2>1, <2>2, <2>6, <2>7 DEF UseInv, control
  <1> QED BY <1>1, <1>2, <1>3

-----------------------------------------------------------------------------
(* Taking the lock and giving it back.                                     *)

(* Who takes the lock finds the theme whole, as the last holder left it. *)
LEMMA LockKeeps ==
  ASSUME UseInv, NEW t \in Writers, Lock(t)
  PROVE  UseInv'
  <1> DEFINE where == IF op[t] = "set_accessibility" THEN "profile" ELSE "free"
  <1>1. /\ pc[t] = "lock" /\ lock = Nobody /\ lock' = t /\ Goto(t, where)
        /\ UNCHANGED <<files, memory, control, drawing, freed, crashed>>
    BY DEF Lock
  <1>2. where \in {"profile", "free"} /\ (where = "profile" => op[t] = "set_accessibility")
    OBVIOUS
  <1> HIDE DEF where
  <1>3. /\ pc' \in [Threads -> Steps] /\ pc'[t] = where
        /\ \A u \in Threads : u # t => pc'[u] = pc[u]
    BY <1>1, <1>2, Went DEF Threads, Steps
  <1>4. Keeps
    BY <1>1, SameHeap DEF UseInv, memory
  <1>5. Whole'
    BY <1>1, <1>4, KeptWhole DEF UseInv, AtRest, memory, control
  <1>6. \A u \in Writers \ {t} : pc'[u] \notin Held
    BY <1>1, <1>3, FrameAssumption DEF UseInv, LockIsReturned, Held, Writers, Threads
  <1>7. LockIsReturned'
    BY <1>1, <1>2, <1>3, <1>6 DEF LockIsReturned, Held
  <1>8. AtRest'
    BY <1>5 DEF AtRest
  <1>9. op'[t] = op[t]
    BY <1>1 DEF control
  <1>10. Progress(t)'
    BY <1>2, <1>3, <1>5, <1>9 DEF Progress, Holding, Reread
  <1>11. \A u \in Writers : Progress(u)'
    BY <1>6, <1>10 DEF Progress, Held, Holding, Reread
  <1>12. TypeOK'
    BY <1>1, <1>3 DEF UseInv, TypeOK, files, memory, control, drawing
  <1> QED BY <1>1, <1>4, <1>7, <1>8, <1>11, <1>12 DEF UseInv, control, Keeps, Alike, Heap

(* Who gives it back has a theme that is whole, and new enough to promise. *)
LEMMA UnlockKeeps ==
  ASSUME UseInv, NEW t \in Writers, Unlock(t)
  PROVE  UseInv'
  <1>1. /\ pc[t] = "unlock" /\ lock' = Nobody /\ Goto(t, "idle")
        /\ promised' = (IF op[t] \in Reloads /\ since[t] > promised THEN since[t] ELSE promised)
        /\ op' = [op EXCEPT ![t] = "none"] /\ since' = [since EXCEPT ![t] = 0]
        /\ UNCHANGED <<files, memory, ops, drawing, freed, crashed>>
    BY DEF Unlock, Finish, Reloads
  <1>2. /\ pc' \in [Threads -> Steps] /\ pc'[t] = "idle"
        /\ \A u \in Threads : u # t => pc'[u] = pc[u]
    BY <1>1, Went DEF Threads, Steps
  <1>3. Keeps
    BY <1>1, SameHeap DEF UseInv, memory
  <1>4. Whole /\ (op[t] \in Reloads => since[t] <= themes[active].stamp)
    BY <1>1 DEF UseInv, Progress, Holding, Reread
  <1>5. Whole'
    <2>1. promised' <= themes[active].stamp
      BY <1>1, <1>4 DEF Whole
    <2>2. Live' = Live
      BY <1>1 DEF Live, memory
    <2> QED BY <1>1, <1>4, <2>1, <2>2 DEF Whole, memory
  <1>6. \A u \in Writers : pc'[u] \notin Held
    BY <1>1, <1>2 DEF UseInv, LockIsReturned, Held, Threads
  <1>7. LockIsReturned'
    BY <1>1, <1>6, FrameAssumption DEF LockIsReturned, Held, Writers
  <1>8. AtRest'
    BY <1>5 DEF AtRest
  <1>9. \A u \in Writers : Progress(u)'
    BY <1>6 DEF Progress, Held, Holding, Reread
  <1>10. TypeOK' /\ op' \in [Writers -> Messages]
    <2>1. edits \in Nat /\ since \in [Writers -> 0..edits] /\ promised \in 0..edits
      BY FrameAssumption DEF UseInv, TypeOK
    <2>2. since' \in [Writers -> 0..edits] /\ promised' \in 0..edits
      BY <1>1, <2>1
    <2>3. op' \in [Writers -> Messages]
      BY <1>1 DEF UseInv, Messages
    <2> QED BY <1>1, <1>2, <2>2, <2>3 DEF UseInv, TypeOK, files, memory, drawing
  <1> QED BY <1>3, <1>7, <1>8, <1>9, <1>10 DEF UseInv, Keeps, Alike, Heap

-----------------------------------------------------------------------------
(* Steps without the lock.                                                 *)

(* A message that is dispatched only sets its thread going. *)
LEMMA BeginKeeps ==
  ASSUME UseInv, NEW t \in Writers, NEW what \in Messages, NEW where \in {"lock", "null"},
         Begin(t, what, where), event' \in {"none", "named", "bare", "over"},
         UNCHANGED <<disk, edits, memory, drawing, lock, promised, freed, crashed>>
  PROVE  UseInv'
  <1>1. /\ pc[t] = "idle" /\ ops < MaxOps /\ ops' = ops + 1 /\ Goto(t, where)
        /\ op' = [op EXCEPT ![t] = what] /\ since' = [since EXCEPT ![t] = edits]
    BY DEF Begin
  <1>2. /\ pc' \in [Threads -> Steps] /\ pc'[t] = where
        /\ \A u \in Threads : u # t => pc'[u] = pc[u]
    BY <1>1, Went DEF Threads, Steps
  <1>3. Keeps
    BY SameHeap DEF UseInv, memory
  <1>4. edits \in Nat /\ since \in [Writers -> 0..edits] /\ ops \in 0..MaxOps
    BY FrameAssumption DEF UseInv, TypeOK
  <1>5. /\ op' \in [Writers -> Messages] /\ since' \in [Writers -> 0..edits]
        /\ ops' \in 0..MaxOps
    BY <1>1, <1>4, FrameAssumption DEF UseInv
  <1>6. OthersWait(t)
    BY <1>1, <1>2, <1>4 DEF OthersWait, Threads, UseInv
  <1>7. LockIsReturned' /\ AtRest' /\ \A u \in Writers : Progress(u)'
    BY <1>1, <1>2, <1>3, <1>6, OutsideStep DEF Held, memory
  <1>8. TypeOK'
    BY <1>2, <1>5 DEF UseInv, TypeOK, memory, drawing
  <1> QED BY <1>3, <1>5, <1>7, <1>8 DEF UseInv, Keeps, Alike, Heap

LEMMA DispatchKeeps ==
  ASSUME UseInv, (\E c \in Controls : dispatch_message(c)) \/ WatchFires
  PROVE  UseInv'
  <1>1. CASE WatchFires
    BY <1>1, BeginKeeps DEF WatchFires, Writers, Messages, Reloads
  <1>2. ASSUME NEW c \in Controls, dispatch_message(c) PROVE UseInv'
    <2>1. event' \in {"none", "named", "bare", "over"}
      BY <1>2 DEF dispatch_message, files, UseInv, TypeOK
    <2>2. UNCHANGED <<disk, edits, memory, drawing, lock, promised, freed, crashed>>
      BY <1>2 DEF dispatch_message, files
    <2>3. c \in Writers
      BY DEF Writers
    <2> QED BY <1>2, <2>1, <2>2, <2>3, BeginKeeps DEF dispatch_message, Messages, Reloads
  <1> QED BY <1>1, <1>2

(* reload_plugins may rewrite a theme, dead or alive, but nothing else. *)
LEMMA PluginsKeep ==
  ASSUME UseInv, NEW t \in Writers, PluginStep(t)
  PROVE  UseInv'
  <1> DEFINE x == theme_add_plugin_overrides(themes[active].theme, Chained(disk.plugins))
  <1>1. /\ pc[t] \in {"null", "chain"}
        /\ \/ Finish(t)
           \/ Goto(t, "chain") /\ UNCHANGED <<op, since>>
        /\ UNCHANGED <<files, active, ops, promised, drawing, lock>>
    BY DEF PluginStep, load_plugins, ChainThemes, memory
  <1>2. \/ UNCHANGED themes
        \/ active # 0 /\ themes' = [themes EXCEPT ![active].theme = x]
    BY DEF PluginStep, load_plugins, ChainThemes, memory
  <1> HIDE DEF x
  <1>3. Keeps
    <2>1. active # 0 => active \in DOMAIN themes
      BY HeapFacts DEF UseInv, TypeOK
    <2> QED BY <1>2, <2>1, SameHeap, Rethemed DEF UseInv, Heap, Keeps
  <1>4. freed' \in BOOLEAN /\ (crashed' => freed')
    <2>1. CASE load_plugins(t)
      BY <2>1 DEF load_plugins, UseInv, TypeOK
    <2>2. CASE ChainThemes(t)
      <3> DEFINE gone == disk.plugins.present /\ ~Alive(active)
      <3>1. gone \in BOOLEAN
        BY Zenon
      <3>2. Misused(gone)
        BY <2>2 DEF ChainThemes
      <3> HIDE DEF gone
      <3> QED BY <3>1, <3>2, Remembered, Zenon DEF UseInv
    <2> QED BY <2>1, <2>2 DEF PluginStep
  <1>5. /\ pc' \in [Threads -> Steps] /\ pc'[t] \in {"idle", "chain"}
        /\ \A u \in Threads : u # t => pc'[u] = pc[u]
    BY <1>1, Went DEF Threads, Steps, Finish
  <1>6. /\ op' \in [Writers -> Messages] /\ since' \in [Writers -> 0..edits]
        /\ OthersWait(t)
    <2>1. /\ op \in [Writers -> Messages] /\ since \in [Writers -> 0..edits] /\ edits \in Nat
          /\ \A u \in Writers : u \in Threads
      BY FrameAssumption DEF UseInv, TypeOK, Threads
    <2> QED BY <1>1, <1>5, <2>1 DEF Finish, OthersWait, Messages
  <1>7. LockIsReturned' /\ AtRest' /\ \A u \in Writers : Progress(u)'
    BY <1>1, <1>3, <1>5, <1>6, OutsideStep DEF Held
  <1>8. TypeOK'
    BY <1>1, <1>3, <1>4, <1>5, <1>6 DEF UseInv, TypeOK, Keeps, Alike, files, drawing
  <1> QED BY <1>3, <1>6, <1>7, <1>8 DEF UseInv, Keeps, Alike, Heap

(* Nothing changes for the writers. *)
LEMMA WritersRest ==
  ASSUME UseInv, UNCHANGED <<memory, control, lock>>,
         \A t \in Writers : pc'[t] = pc[t]
  PROVE  /\ op' \in [Writers -> Messages] /\ Heap' /\ LockIsReturned' /\ AtRest'
         /\ \A t \in Writers : Progress(t)'
  <1>1. UNCHANGED <<themes, active, op, since, promised, lock>>
    BY DEF memory, control
  <1>2. Live' = Live /\ Whole' = Whole
    BY <1>1 DEF Live, Whole
  <1>3. op' \in [Writers -> Messages] /\ Heap'
    BY <1>1 DEF UseInv, Heap
  <1>4. LockIsReturned'
    BY <1>1 DEF UseInv, LockIsReturned
  <1>5. AtRest'
    BY <1>1, <1>2 DEF UseInv, AtRest
  <1>6. ASSUME NEW t \in Writers PROVE Progress(t)'
    <2>1. Progress(t)
      BY DEF UseInv
    <2> QED BY <1>1, <1>2, <2>1 DEF Progress
  <1> QED BY <1>3, <1>4, <1>5, <1>6

(* Files that are edited make no theme older. *)
LEMMA EditKeeps ==
  ASSUME UseInv, Edit
  PROVE  UseInv'
  <1>1. /\ edits < MaxEdits /\ edits' = edits + 1 /\ disk' \in Disks
        /\ UNCHANGED <<memory, control, drawing, lock, pc, freed, crashed>>
    BY DEF Edit
  <1>2. event' \in {"none", "named", "bare", "over"}
    BY DEF Edit, UseInv, TypeOK
  <1>3. /\ edits \in 0..MaxEdits /\ since \in [Writers -> 0..edits] /\ promised \in 0..edits
        /\ MaxEdits \in Nat
    BY FrameAssumption DEF UseInv, TypeOK
  <1>4. /\ edits' \in 0..MaxEdits /\ since' \in [Writers -> 0..edits'] /\ promised' \in 0..edits'
    BY <1>1, <1>3 DEF control
  <1>5. TypeOK'
    BY <1>1, <1>2, <1>4 DEF UseInv, TypeOK, memory, control, drawing
  <1> QED BY <1>1, <1>5, WritersRest DEF UseInv

(* Drawing a frame reads the theme, and writes nothing the writers use. *)
LEMMA DrawKeeps ==
  ASSUME UseInv, NEW c \in Sessions, DrawStep(c)
  PROVE  UseInv'
  <1>1. c \in Threads /\ c \notin Writers
    BY FrameAssumption DEF Threads, Writers
  <1>2. UNCHANGED <<files, memory, control, lock>>
    BY DEF DrawStep, Render, CheckTheme, TakeTheme, Style, LayoutAndDraw
  <1>3. PICK where \in Steps : Goto(c, where)
    BY Zenon DEF DrawStep, Render, CheckTheme, TakeTheme, Style, LayoutAndDraw, Steps
  <1>4. /\ pc' \in [Threads -> Steps]
        /\ \A u \in Threads : u # c => pc'[u] = pc[u]
    BY <1>1, <1>3, Went
  <1>5. \A t \in Writers : pc'[t] = pc[t]
    BY <1>1, <1>4 DEF Threads
  <1>6. freed' \in BOOLEAN /\ (crashed' => freed')
    <2>1. CASE Style(c)
      BY <2>1, TouchRemembered DEF Style, UseInv
    <2>2. CASE UNCHANGED <<freed, crashed>>
      BY <2>2 DEF UseInv, TypeOK
    <2> QED BY <2>1, <2>2 DEF DrawStep, Render, CheckTheme, TakeTheme, LayoutAndDraw
  <1>7. ptr' \in [Sessions -> 0..Len(themes')]
    <2>1. /\ ptr \in [Sessions -> 0..Len(themes)] /\ active \in 0..Len(themes)
          /\ Len(themes) \in Nat /\ themes' = themes
      BY <1>2, HeapFacts DEF UseInv, TypeOK, memory
    <2>2. \/ UNCHANGED ptr
          \/ ptr' = [ptr EXCEPT ![c] = active]
          \/ ptr' = [ptr EXCEPT ![c] = 0]
      BY DEF DrawStep, Render, CheckTheme, TakeTheme, Style, LayoutAndDraw, drawing
    <2> QED BY <2>1, <2>2
  <1>8. TypeOK'
    BY <1>2, <1>4, <1>6, <1>7 DEF UseInv, TypeOK, files, memory, control
  <1> QED BY <1>2, <1>5, <1>8, WritersRest DEF UseInv

-----------------------------------------------------------------------------
(* The theorem.                                                            *)

(* The daemon starts with one theme, the one in use. *)
LEMMA StartsTidy == ASSUME Init PROVE UseInv
  <1>1. PICK x, y : themes = <<[theme |-> x, live |-> TRUE, stamp |-> 0, layers |-> y]>>
    BY Zenon DEF Init, Booted
  <1> DEFINE b == [theme |-> x, live |-> TRUE, stamp |-> 0, layers |-> y]
             S == Blocks({x}, {y})
  <1>2. b \in S /\ b.live = TRUE /\ b.stamp = 0
    BY DEF Blocks
  <1>3. themes = <<b>>
    BY <1>1
  <1> HIDE DEF b, S
  <1>4. themes \in Seq(S) /\ Len(themes) = 1 /\ DOMAIN themes = {1} /\ themes[1] = b
    BY <1>2, <1>3
  <1>5. Heap
    BY <1>4 DEF Heap, HeapOf, S
  <1>6. active = 1 /\ promised = 0
    BY DEF Init
  <1>7. Whole
    BY <1>2, <1>4, <1>6 DEF Whole, Live
  <1>8. pc \in [Threads -> Steps] /\ \A t \in Writers : pc[t] = "idle"
    BY FrameAssumption DEF Init, Threads, Writers, Steps
  <1>9. lock = Nobody /\ \A t \in Writers : t # Nobody
    BY FrameAssumption DEF Init, Writers
  <1>10. op \in [Writers -> Messages] /\ since \in [Writers -> 0..edits] /\ edits = 0
    BY DEF Init, Messages
  <1>11. TypeOK
    <2>1. ptr \in [Sessions -> 0..Len(themes)] /\ active \in 0..Len(themes)
      BY <1>4 DEF Init
    <2>2. freed \in BOOLEAN /\ (crashed => freed) /\ event \in {"none", "named", "bare", "over"}
      BY DEF Init
    <2>3. disk \in Disks /\ edits \in 0..MaxEdits /\ ops \in 0..MaxOps /\ promised \in 0..edits
      BY FrameAssumption DEF Init
    <2> QED BY <1>8, <1>9, <1>10, <2>1, <2>2, <2>3 DEF TypeOK
  <1>12. LockIsReturned
    BY <1>8, <1>9 DEF LockIsReturned
  <1>13. \A t \in Writers : Progress(t)
    BY <1>8 DEF Progress, Holding, Reread
  <1> QED BY <1>5, <1>7, <1>10, <1>11, <1>12, <1>13 DEF UseInv, AtRest

LEMMA StepsKeepTidy == ASSUME UseInv, [Next]_vars PROVE UseInv'
  <1>1. CASE Edit
    BY <1>1, EditKeeps
  <1>2. CASE WatchFires \/ \E c \in Controls : dispatch_message(c)
    BY <1>2, DispatchKeeps
  <1>3. ASSUME NEW s \in Sessions, DrawStep(s) PROVE UseInv'
    BY <1>3, DrawKeeps
  <1>4. ASSUME NEW t \in Writers, ThreadStep(t) PROVE UseInv'
    <2>1. CASE PluginStep(t)
      BY <2>1, PluginsKeep
    <2>2. CASE Lock(t) \/ Unlock(t)
      BY <2>2, LockKeeps, UnlockKeeps
    <2>3. CASE theme_free(t) \/ LoadBase(t) \/ LoadOthers(t)
      BY <2>3, FreeKeeps, LoadsKeep
    <2>4. CASE MergeApp(t) \/ MergeUser(t) \/ MergeProfile(t) \/ AddPlugins(t)
      BY <2>4, MergesKeep, AddPluginsKeeps
    <2> QED BY <1>4, <2>1, <2>2, <2>3, <2>4 DEF ThreadStep, ThemeStep
  <1>5. CASE UNCHANGED vars
    <2>1. UNCHANGED <<memory, control, lock, pc>>
      BY <1>5 DEF vars, memory, control
    <2>2. TypeOK'
      BY <1>5 DEF UseInv, TypeOK, vars
    <2> QED BY <2>1, <2>2, WritersRest DEF UseInv
  <1> QED BY <1>1, <1>2, <1>3, <1>4, <1>5 DEF Next

LEMMA TidyFollows == ASSUME UseInv PROVE TidyAtRest
  <1>1. TypeOK /\ LockIsReturned
    BY DEF UseInv
  <1>2. OneThemeAtRest
    BY DEF UseInv, AtRest, Whole, Live, OneThemeAtRest, Settled
  <1>3. ReloadIsFresh
    <2>1. CASE Settled
      <3>1. Whole
        BY <2>1 DEF UseInv, AtRest, Settled
      <3>2. themes[active].stamp \in Nat /\ promised \in Nat
        <4>1. edits \in Nat /\ promised \in 0..edits
          BY FrameAssumption DEF UseInv, TypeOK
        <4> QED BY <3>1, <4>1, HeapFacts DEF UseInv, Whole
      <3> QED BY <3>1, <3>2 DEF Whole, ReloadIsFresh
    <2>2. CASE ~Settled
      BY <2>2 DEF ReloadIsFresh
    <2> QED BY <2>1, <2>2
  <1> QED BY <1>1, <1>2, <1>3 DEF TidyAtRest

(* However many connections reload the theme, change the accessibility        *)
(* profile and reload the plugins while the accept loop reloads it as well,   *)
(* the types hold, theme_lock is held exactly between wrlock and unlock, and  *)
(* when nobody holds it one theme is alive, the one in use, read from files   *)
(* at least as new as the reloads that were answered.  (Counted are the       *)
(* blocks g_active_theme was set to: theme_free does not free what is chained *)
(* behind one.)                                                               *)
THEOREM WritersLeaveItTidy == Spec => []TidyAtRest
  <1>1. Init => UseInv
    BY StartsTidy
  <1>2. UseInv /\ [Next]_vars => UseInv'
    BY StepsKeepTidy
  <1>3. UseInv => TidyAtRest
    BY TidyFollows
  <1> QED BY <1>1, <1>2, <1>3, PTL DEF Spec

-----------------------------------------------------------------------------
(* Which rule gives a size.                                                *)

(* A non-empty set of positions has a last one. *)
LEMMA LatestFacts ==
  ASSUME NEW n \in Nat, NEW S \in SUBSET (1..n), S # {}
  PROVE  Latest(S) \in S /\ \A j \in S : j <= Latest(S)
  <1> DEFINE R == OpToRel(<, Nat)
             N == {n - i : i \in S}
  <1>1. IsWellFoundedOn(R, Nat)
    BY NatLessThanWellFounded, Zenon
  <1>2. \A x, y \in Nat : <<x, y>> \in R <=> x < y
    BY DEF OpToRel
  <1>3. N \in SUBSET Nat /\ N # {}
    <2>1. \A i \in S : n - i \in Nat
      OBVIOUS
    <2> QED BY <2>1, Zenon
  <1> HIDE DEF R, N
  <1>4. PICK m \in N : \A y \in N : ~(<<y, m>> \in R)
    BY <1>1, <1>3, WFMin, Zenon
  <1>5. \A y \in N : y \in Nat /\ m \in Nat /\ ~(y < m)
    BY <1>2, <1>3, <1>4
  <1>6. PICK i \in S : m = n - i
    BY <1>4 DEF N
  <1>7. \A j \in S : j <= i
    <2> TAKE j \in S
    <2>1. n - j \in N
      BY DEF N
    <2> QED BY <1>5, <1>6, <2>1
  <1>8. \E k \in S : \A j \in S : j <= k
    BY <1>7
  <1> QED BY <1>8 DEF Latest


(* Every size has a value that means "not set". *)
LEMMA SizeFacts ==
  ASSUME NEW p \in Sizes
  PROVE  p \in Colours \cup Sizes /\ p \notin Colours /\ p # "border_top_color" /\ p \in DOMAIN Unset
  <1>1. DOMAIN Unset = {"fg_color", "bg_color", "border_top_color", "border_width", "min_width",
                        "min_height", "max_width", "max_height", "font_size"}
    BY DEF Unset
  <1>2. p \in DOMAIN Unset
    BY <1>1 DEF Sizes
  <1>3. p \notin Colours /\ p # "border_top_color"
    BY DEF Sizes, Colours
  <1> QED BY <1>2, <1>3

RulesIn(file) == parse_style_rules(file.widgets, file.vars)

Ordered(file) == file.widgets \in Seq({file.widgets[i] : i \in DOMAIN file.widgets})

(* A rule means for a size what its selector means. *)
LEMMA StyleFacts ==
  ASSUME NEW p \in Sizes, NEW w, NEW v
  PROVE  /\ parse_widget_style(w.props, v)[p] = Meant(w, p)
         /\ p \in merge_style(parse_widget_style(w.props, v)) <=> Meant(w, p) # Unset[p]
  <1> DEFINE style == parse_widget_style(w.props, v)
  <1>1. style[p] = Meant(w, p)
    BY SizeFacts DEF parse_widget_style, Meant
  <1> HIDE DEF style
  <1>2. p \in merge_style(style) <=> style[p] # Unset[p]
    BY SizeFacts DEF merge_style
  <1> QED BY <1>1, <1>2 DEF style

\* The selector behind the i-th rule of a file.
Behind(file, i) == file.widgets[Len(file.widgets) + 1 - i]

(* The rules of a file are its selectors, last to first. *)
LEMMA RuleFacts ==
  ASSUME NEW file, Ordered(file)
  PROVE  LET rs == RulesIn(file)
             n == Len(file.widgets)
         IN /\ n \in Nat /\ DOMAIN file.widgets = 1..n
            /\ DOMAIN rs = 1..n /\ rs \in Seq({rs[i] : i \in 1..n}) /\ Len(rs) = n
            /\ \A i \in 1..n : /\ rs[i].class = Behind(file, i).class
                               /\ rs[i].child = Behind(file, i).child
                               /\ rs[i].state = Behind(file, i).state
                               /\ rs[i].style = parse_widget_style(Behind(file, i).props, file.vars)
  <1> DEFINE rs == RulesIn(file)
             n == Len(file.widgets)
             Rule(i) == [class |-> Behind(file, i).class, child |-> Behind(file, i).child,
                         state |-> Behind(file, i).state,
                         style |-> parse_widget_style(Behind(file, i).props, file.vars)]
  <1>1. n \in Nat /\ DOMAIN file.widgets = 1..n
    BY DEF Ordered
  <1>2. rs = [i \in 1..n |-> Rule(i)]
    BY DEF RulesIn, parse_style_rules, Behind
  <1> HIDE DEF rs, n
  <1>3. \A i \in 1..n : rs[i] = Rule(i)
    BY <1>2
  <1>4. /\ DOMAIN rs = 1..n /\ rs \in Seq({rs[i] : i \in 1..n}) /\ Len(rs) = n
    <2> DEFINE Q == {rs[i] : i \in 1..n}
    <2>1. rs \in [1..n -> Q]
      BY <1>2
    <2> HIDE DEF Q
    <2>2. rs \in Seq(Q) /\ DOMAIN rs = 1..n /\ Len(rs) = n
      BY <1>1, <2>1
    <2> QED BY <2>2 DEF Q
  <1>5. \A i \in 1..n : /\ rs[i].class = Behind(file, i).class
                        /\ rs[i].child = Behind(file, i).child
                        /\ rs[i].state = Behind(file, i).state
                        /\ rs[i].style = parse_widget_style(Behind(file, i).props, file.vars)
    <2> TAKE i \in 1..n
    <2>1. rs[i] = Rule(i)
      BY <1>3
    <2> DEFINE a == Behind(file, i).class
               b == Behind(file, i).child
               c == Behind(file, i).state
               d == parse_widget_style(Behind(file, i).props, file.vars)
    <2>2. rs[i] = [class |-> a, child |-> b, state |-> c, style |-> d]
      BY <2>1
    <2> HIDE DEF a, b, c, d
    <2>3. rs[i].class = a /\ rs[i].child = b /\ rs[i].state = c /\ rs[i].style = d
      BY <2>2
    <2> QED BY <2>3 DEF a, b, c, d
  <1> QED BY <1>1, <1>4, <1>5 DEF rs, n

\* The rules of one file that set p for a node.
Setting(piece, class, child, state, p) ==
  {j \in DOMAIN piece : /\ Matches(piece[j], class, child, state)
                        /\ p \in merge_style(piece[j].style)}

(* The rules of a file that set a size set it to what the file says, and if *)
(* the file says anything some rule does.                                   *)
LEMMA SettingIsSaid ==
  ASSUME NEW file, Ordered(file), NEW class, NEW child, NEW state, NEW p \in Sizes
  PROVE  LET rs == RulesIn(file)
             S == Setting(rs, class, child, state, p)
         IN /\ Len(file.widgets) \in Nat /\ S \in SUBSET (1..Len(file.widgets))
            /\ \A i \in S : rs[i].style[p] \in Said(file, class, child, state, p)
            /\ Said(file, class, child, state, p) # {} => S # {}
  <1> DEFINE rs == RulesIn(file)
             n == Len(file.widgets)
             S == Setting(rs, class, child, state, p)
             Ask(w) == Matches(w, class, child, state) /\ Meant(w, p) # Unset[p]
  <1>1. /\ n \in Nat /\ DOMAIN file.widgets = 1..n /\ DOMAIN rs = 1..n
        /\ \A i \in 1..n : /\ rs[i].class = Behind(file, i).class
                           /\ rs[i].child = Behind(file, i).child
                           /\ rs[i].state = Behind(file, i).state
                           /\ rs[i].style = parse_widget_style(Behind(file, i).props, file.vars)
    BY RuleFacts
  <1>2. Said(file, class, child, state, p)
          = {Meant(file.widgets[j], p) : j \in {k \in 1..n : Ask(file.widgets[k])}}
    BY <1>1 DEF Said, Saying
  <1> HIDE DEF rs, n
  <1>3. ASSUME NEW i \in 1..n
        PROVE  /\ i \in S <=> Ask(Behind(file, i))
               /\ rs[i].style[p] = Meant(Behind(file, i), p)
    <2> DEFINE w == Behind(file, i)
               style == parse_widget_style(w.props, file.vars)
    <2>1. style[p] = Meant(w, p) /\ (p \in merge_style(style) <=> Meant(w, p) # Unset[p])
      BY StyleFacts, Zenon
    <2>2. /\ rs[i].class = w.class /\ rs[i].child = w.child /\ rs[i].state = w.state
          /\ rs[i].style = style
      BY <1>1
    <2> HIDE DEF w, style
    <2>3. Matches(rs[i], class, child, state) <=> Matches(w, class, child, state)
      BY <2>2 DEF Matches
    <2>4. i \in S <=> Ask(w)
      BY <1>1, <2>1, <2>2, <2>3 DEF Setting
    <2>5. rs[i].style[p] = Meant(w, p)
      BY <2>1, <2>2
    <2> QED BY <2>4, <2>5 DEF w
  <1>4. S \in SUBSET (1..n)
    BY <1>1 DEF Setting
  <1> HIDE DEF S
  <1>5. ASSUME NEW i \in S PROVE rs[i].style[p] \in Said(file, class, child, state, p)
    <2>1. i \in 1..n
      BY <1>4
    <2>2. n + 1 - i \in 1..n /\ Behind(file, i) = file.widgets[n + 1 - i]
      BY <1>1, <2>1 DEF Behind, n
    <2>3. Ask(file.widgets[n + 1 - i]) /\ rs[i].style[p] = Meant(file.widgets[n + 1 - i], p)
      BY <1>3, <2>1, <2>2
    <2> HIDE DEF Ask
    <2> QED BY <1>2, <2>2, <2>3
  <1>6. ASSUME Said(file, class, child, state, p) # {} PROVE S # {}
    <2> HIDE DEF Ask
    <2>1. PICK k \in 1..n : Ask(file.widgets[k])
      BY <1>2, <1>6
    <2>2. n + 1 - k \in 1..n /\ Behind(file, n + 1 - k) = file.widgets[k]
      BY <1>1 DEF Behind, n
    <2> QED BY <1>3, <2>1, <2>2
  <1> QED BY <1>1, <1>4, <1>5, <1>6 DEF rs, n, S
-----------------------------------------------------------------------------
(* Rules and the files they were read from.                                *)

IsSeq(s) == \E S : s \in Seq(S)

Readable(read) == IsSeq(read) /\ \A i \in DOMAIN read : Ordered(read[i])

Rules(read) == [i \in DOMAIN read |-> RulesIn(read[i])]

(* Sequences of any elements. *)
LEMMA SeqFacts ==
  ASSUME NEW s, IsSeq(s)
  PROVE  /\ Len(s) \in Nat /\ DOMAIN s = 1..Len(s)
         /\ s \o <<>> = s /\ <<>> \o s = s
  BY ConcatEmptySeq DEF IsSeq

LEMMA JoinFacts ==
  ASSUME NEW s, NEW r, IsSeq(s), IsSeq(r)
  PROVE  /\ IsSeq(s \o r) /\ Len(s \o r) = Len(s) + Len(r)
         /\ Len(s) \in Nat /\ Len(r) \in Nat
         /\ DOMAIN (s \o r) = 1..(Len(s) + Len(r))
         /\ \A i \in 1..Len(s) : (s \o r)[i] = s[i]
         /\ \A i \in 1..Len(r) : (s \o r)[Len(s) + i] = r[i]
  <1>1. PICK S, R : s \in Seq(S) /\ r \in Seq(R)
    BY DEF IsSeq
  <1> DEFINE Q == S \cup R
  <1>2. s \in Seq(Q) /\ r \in Seq(Q)
    BY <1>1
  <1> HIDE DEF Q
  <1>3. s \o r \in Seq(Q)
    BY <1>2
  <1> QED BY <1>2, <1>3, ConcatProperties DEF IsSeq

LEMMA JoinJoined ==
  ASSUME NEW s, NEW r, NEW q, IsSeq(s), IsSeq(r), IsSeq(q)
  PROVE  (s \o r) \o q = s \o (r \o q)
  <1>1. PICK S, R, U : s \in Seq(S) /\ r \in Seq(R) /\ q \in Seq(U)
    BY DEF IsSeq
  <1> DEFINE Q == S \cup R \cup U
  <1>2. s \in Seq(Q) /\ r \in Seq(Q) /\ q \in Seq(Q)
    BY <1>1
  <1> HIDE DEF Q
  <1> QED BY <1>2, ConcatAssociative

LEMMA ShortSeqs == ASSUME NEW a PROVE IsSeq(<<>>) /\ IsSeq(<<a>>)
  <1>1. <<>> \in Seq({a}) /\ <<a>> \in Seq({a})
    OBVIOUS
  <1> QED BY <1>1 DEF IsSeq

(* The rules of some files and of some more are those of all of them. *)
LEMMA RulesJoined ==
  ASSUME NEW a, NEW b, Readable(a), Readable(b)
  PROVE  Readable(a \o b) /\ Rules(a \o b) = Rules(a) \o Rules(b)
  <1> DEFINE m == Len(a)
             n == Len(b)
             c == a \o b
             f == Rules(a)
             g == Rules(b)
             h == Rules(c)
  <1>1. IsSeq(a) /\ IsSeq(b)
    BY DEF Readable
  <1>2. /\ IsSeq(c) /\ m \in Nat /\ n \in Nat /\ DOMAIN c = 1..(m + n)
        /\ DOMAIN a = 1..m /\ DOMAIN b = 1..n
        /\ \A i \in 1..m : c[i] = a[i]
        /\ \A i \in 1..n : c[m + i] = b[i]
    BY <1>1, JoinFacts, SeqFacts
  <1> HIDE DEF c, m, n
  <1>3. \A i \in 1..(m + n) : /\ i \in 1..m => c[i] = a[i]
                              /\ i \notin 1..m => i - m \in 1..n /\ c[i] = b[i - m]
    <2> TAKE i \in 1..(m + n)
    <2>1. CASE i \in 1..m
      BY <1>2, <2>1
    <2>2. CASE i \notin 1..m
      <3>1. i - m \in 1..n /\ m + (i - m) = i
        BY <1>2, <2>2
      <3> QED BY <1>2, <2>2, <3>1
    <2> QED BY <2>1, <2>2
  <1>4. Readable(c)
    BY <1>2, <1>3 DEF Readable
  <1>5. /\ f = [i \in 1..m |-> RulesIn(a[i])] /\ g = [i \in 1..n |-> RulesIn(b[i])]
        /\ h = [i \in 1..(m + n) |-> RulesIn(c[i])]
    BY <1>2 DEF Rules
  <1> HIDE DEF f, g, h
  <1>6. IsSeq(f) /\ IsSeq(g) /\ IsSeq(h) /\ Len(f) = m /\ Len(g) = n /\ Len(h) = m + n
    <2>1. ASSUME NEW k \in Nat, NEW x, NEW v, v = [i \in 1..k |-> RulesIn(x[i])]
          PROVE  IsSeq(v) /\ Len(v) = k
      <3> DEFINE Q == {RulesIn(x[i]) : i \in 1..k}
      <3>1. v \in [1..k -> Q]
        BY <2>1
      <3> HIDE DEF Q
      <3>2. v \in Seq(Q) /\ Len(v) = k
        BY <3>1
      <3> QED BY <3>2, Zenon DEF IsSeq
    <2>2. m \in Nat /\ n \in Nat /\ m + n \in Nat
      BY <1>2
    <2>3. IsSeq(f) /\ Len(f) = m
      BY <1>5, <2>1, <2>2, Zenon
    <2>4. IsSeq(g) /\ Len(g) = n
      BY <1>5, <2>1, <2>2, Zenon
    <2>5. IsSeq(h) /\ Len(h) = m + n
      BY <1>5, <2>1, <2>2, Zenon
    <2> QED BY <2>3, <2>4, <2>5
  <1> DEFINE e == f \o g
  <1>7. /\ IsSeq(e) /\ Len(e) = m + n
        /\ \A i \in 1..m : e[i] = f[i]
        /\ \A i \in 1..n : e[m + i] = g[i]
    BY <1>6, JoinFacts
  <1> HIDE DEF e
  <1>8. \A i \in 1..(m + n) : e[i] = h[i]
    <2> TAKE i \in 1..(m + n)
    <2>1. CASE i \in 1..m
      BY <1>3, <1>5, <1>7, <2>1
    <2>2. CASE i \notin 1..m
      <3>1. i - m \in 1..n /\ m + (i - m) = i /\ c[i] = b[i - m]
        BY <1>2, <1>3, <2>2
      <3>2. e[m + (i - m)] = g[i - m]
        BY <1>7, <3>1
      <3>3. e[i] = g[i - m]
        BY <3>1, <3>2
      <3>4. g[i - m] = RulesIn(b[i - m]) /\ h[i] = RulesIn(c[i])
        BY <1>5, <3>1
      <3> QED BY <3>1, <3>3, <3>4
    <2> QED BY <2>1, <2>2
  <1>9. e = h
    <2>1. PICK S, T : e \in Seq(S) /\ h \in Seq(T)
      BY <1>6, <1>7 DEF IsSeq
    <2>2. e \in Seq(S \cup T) /\ h \in Seq(S \cup T) /\ Len(e) = Len(h)
      BY <1>6, <1>7, <2>1
    <2>3. \A i \in 1..Len(e) : e[i] = h[i]
      BY <1>7, <1>8
    <2> QED BY <2>2, <2>3, SeqEqual
  <1> QED BY <1>4, <1>9 DEF e, f, g, h, c

(* A theme with the rules of these files: of each size it gives a node what *)
(* the last of them with anything to say does.                              *)
LEMMA LastIsHeard ==
  ASSUME NEW theme, NEW read, Readable(read), theme.rules = Rules(read),
         NEW class, NEW child, NEW state, NEW p \in Sizes
  PROVE  LastWins(theme, read, class, child, state, p)
  <1> DEFINE Set(i) == Setting(theme.rules[i], class, child, state, p)
             P == {i \in DOMAIN theme.rules : Set(i) # {}}
             sayers == {i \in DOMAIN read : Said(read[i], class, child, state, p) # {}}
             k == Latest(P)
             size == theme_resolve(theme, class, child, state)[p]
  <1>1. size = IF P = {} THEN widgetstyle_default[p]
               ELSE theme.rules[k][Latest(Set(k))].style[p]
    BY SizeFacts, Zenon DEF theme_resolve, Setting
  <1>2. Len(read) \in Nat /\ DOMAIN read = 1..Len(read)
    BY SeqFacts DEF Readable
  <1>3. DOMAIN theme.rules = DOMAIN read /\ \A i \in DOMAIN read : theme.rules[i] = RulesIn(read[i])
    BY DEF Rules
  <1>4. ASSUME NEW i \in DOMAIN read
        PROVE  /\ Len(read[i].widgets) \in Nat /\ Set(i) \in SUBSET (1..Len(read[i].widgets))
               /\ \A j \in Set(i) : theme.rules[i][j].style[p] \in Said(read[i], class, child, state, p)
               /\ Said(read[i], class, child, state, p) # {} => Set(i) # {}
    <2>1. Ordered(read[i]) /\ theme.rules[i] = RulesIn(read[i])
      BY <1>3 DEF Readable
    <2> QED BY <2>1, SettingIsSaid
  <1> HIDE DEF Set, size
  <1>5. P = sayers
    <2>1. \A i \in DOMAIN read : Set(i) # {} <=> Said(read[i], class, child, state, p) # {}
      BY <1>4
    <2> QED BY <1>3, <2>1
  <1>6. CASE sayers = {}
    BY <1>1, <1>5, <1>6 DEF LastWins, size
  <1>7. CASE sayers # {}
    <2>1. P \in SUBSET (1..Len(read)) /\ P # {}
      BY <1>2, <1>5, <1>7
    <2>2. k \in P
      BY <1>2, <2>1, LatestFacts
    <2>3. k \in DOMAIN read /\ Set(k) # {}
      BY <1>3, <2>2
    <2> HIDE DEF k
    <2>4. Latest(Set(k)) \in Set(k)
      BY <1>4, <2>3, LatestFacts
    <2>5. theme.rules[k][Latest(Set(k))].style[p] \in Said(read[k], class, child, state, p)
      BY <1>4, <2>3, <2>4
    <2>6. size \in Said(read[k], class, child, state, p)
      BY <1>1, <2>1, <2>5
    <2>7. k = Latest(sayers)
      BY <1>5 DEF k
    <2> QED BY <1>7, <2>6, <2>7 DEF LastWins, size
  <1> QED BY <1>6, <1>7

\* What a theme file must be: it can be read, whatever it misses of the files
\* it extends (those in X extend others).
FileOK(file, X) == \A s \in SUBSET X : Readable(Lineage(file, s))

(* What theme_load returns. *)
LEMMA LoadFacts ==
  ASSUME NEW file, NEW s
  PROVE  /\ theme_load(file, s).rules = Rules(Lineage(file, s))
         /\ \E v : theme_load(file, s)
                     = [rules |-> Rules(Lineage(file, s)), vars |-> v, next |-> <<>>]
  <1> DEFINE r == Rules(Lineage(file, s))
             v == Variables(Lineage(file, s))
             e == <<>>
             x == theme_load(file, s)
  <1>1. x = [rules |-> r, vars |-> v, next |-> e]
    BY Zenon DEF theme_load, Rules, RulesIn
  <1> HIDE DEF r, v, e, x
  <1>2. x.rules = r
    BY <1>1
  <1>3. \E u : x = [rules |-> r, vars |-> u, next |-> e]
    BY <1>1
  <1> QED BY <1>2, <1>3 DEF r, e, x

LEMMA NothingRead == ASSUME NEW file, ~file.present, NEW s PROVE Lineage(file, s) = <<>>
  BY DEF Lineage

LEMMA NoRules == Readable(<<>>) /\ Rules(<<>>) = <<>>
  <1>1. IsSeq(<<>>)
    BY ShortSeqs
  <1> QED BY <1>1 DEF Readable, Rules

ThemesOf(r, v, n) == [rules : {r}, vars : {v}, next : {n}]
IsTheme(x) == \E r, v, n : x \in ThemesOf(r, v, n)

(* Putting one override into a theme. *)
LEMMA MergedFacts ==
  ASSUME NEW x, IsTheme(x), NEW file, NEW s
  PROVE  LET m == Merged(x, file, s)
         IN /\ IsTheme(m)
            /\ m.rules = IF file.present THEN x.rules \o theme_load(file, s).rules ELSE x.rules
  <1> DEFINE m == Merged(x, file, s)
  <1>1. CASE ~file.present
    BY <1>1 DEF Merged
  <1>2. CASE file.present
    <2> DEFINE over == theme_load(file, s)
               r == x.rules \o over.rules
               v == over.vars @@ x.vars
               c == [x EXCEPT !.rules = r]
               d == [c EXCEPT !.vars = v]
    <2>1. PICK a, b, n : x \in ThemesOf(a, b, n)
      BY DEF IsTheme
    <2>2. m = [x EXCEPT !.rules = r, !.vars = v]
      BY <1>2 DEF Merged
    <2> HIDE DEF r, v
    <2>3. c \in ThemesOf(r, b, n)
      BY <2>1 DEF ThemesOf
    <2> HIDE DEF c
    <2>4. d \in ThemesOf(r, v, n)
      BY <2>3 DEF ThemesOf
    <2> HIDE DEF d
    <2>5. d.rules = r /\ IsTheme(d)
      BY <2>4 DEF ThemesOf, IsTheme
    <2>6. m = d
      BY <2>2 DEF c, d
    <2> HIDE DEF m
    <2>7. m.rules = r /\ IsTheme(m)
      BY <2>5, <2>6
    <2> QED BY <1>2, <2>7 DEF m, r
  <1> QED BY <1>1, <1>2

(* Chaining themes behind one leaves its rules alone. *)
LEMMA ChainedFacts ==
  ASSUME NEW x, IsTheme(x), NEW y
  PROVE  IsTheme([x EXCEPT !.next = y]) /\ [x EXCEPT !.next = y].rules = x.rules
  <1> DEFINE c == [x EXCEPT !.next = y]
  <1>1. PICK r, v, n : x \in ThemesOf(r, v, n)
    BY DEF IsTheme
  <1>2. c \in ThemesOf(r, v, y)
    BY <1>1 DEF ThemesOf
  <1> HIDE DEF c
  <1>3. IsTheme(c) /\ c.rules = r /\ x.rules = r
    BY <1>1, <1>2 DEF ThemesOf, IsTheme
  <1> QED BY <1>3 DEF c

LEMMA PluginFacts ==
  ASSUME NEW x, IsTheme(x), NEW found
  PROVE  LET c == theme_add_plugin_overrides(x, found)
         IN IsTheme(c) /\ c.rules = x.rules
  <1> DEFINE y == x.next \o found
  <1>1. theme_add_plugin_overrides(x, found) = [x EXCEPT !.next = y]
    BY DEF theme_add_plugin_overrides
  <1> HIDE DEF y
  <1> QED BY <1>1, ChainedFacts

(* A theme that was loaded, alone or first of its directory. *)
LEMMA LoadIsTheme ==
  ASSUME NEW file, NEW s, NEW z, IsSeq(z)
  PROVE  LET x == theme_load(file, s)
             c == theme_load_directory(<<x>> \o z)
         IN IsTheme(x) /\ IsTheme(c) /\ c.rules = x.rules
  <1> DEFINE x == theme_load(file, s)
             y == Tail(<<x>> \o z)
             c == theme_load_directory(<<x>> \o z)
             e == <<>>
             r == Rules(Lineage(file, s))
  <1>1. PICK v : x = [rules |-> r, vars |-> v, next |-> e]
    BY LoadFacts, Zenon
  <1>2. c = [Head(<<x>> \o z) EXCEPT !.next = y]
    BY Zenon DEF theme_load_directory
  <1> HIDE DEF x, y, e, r
  <1>3. Head(<<x>> \o z) = x
    <2>1. IsSeq(<<x>>) /\ Len(<<x>>) = 1 /\ <<x>>[1] = x
      BY ShortSeqs
    <2>2. (<<x>> \o z)[1] = x
      BY <2>1, JoinFacts
    <2> QED BY <2>2
  <1>4. IsTheme(x)
    <2>1. x \in ThemesOf(r, v, e)
      BY <1>1 DEF ThemesOf
    <2> QED BY <2>1 DEF IsTheme
  <1>5. IsTheme([x EXCEPT !.next = y]) /\ [x EXCEPT !.next = y].rules = x.rules
    BY <1>4, ChainedFacts
  <1>6. c = [x EXCEPT !.next = y]
    BY <1>2, <1>3
  <1> HIDE DEF c
  <1> QED BY <1>4, <1>5, <1>6 DEF x, c

LEMMA ChainIsSeq == ASSUME NEW file PROVE IsSeq(Chained(file))
  <1>1. ASSUME NEW x PROVE IsSeq(<<>>) /\ IsSeq(<<x>>)
    BY ShortSeqs
  <1> QED BY <1>1 DEF Chained

LEMMA DefaultIsTheme == IsTheme(theme_default) /\ theme_default.rules = <<>>
  <1> DEFINE e == <<>>
             x == [rules |-> e, vars |-> e, next |-> e]
  <1>1. theme_default = x
    BY DEF theme_default
  <1> HIDE DEF e
  <1>2. x \in ThemesOf(e, e, e) /\ x.rules = e
    BY DEF ThemesOf
  <1> QED BY <1>1, <1>2 DEF IsTheme, e

-----------------------------------------------------------------------------
(* A theme and its layers.                                                 *)

IsLayers(y) == DOMAIN y = Layers /\ \A l \in Layers : IsSeq(y[l])

\* A theme made of its layers, in their order.
MadeOf(x, y) ==
  /\ IsTheme(x) /\ IsLayers(y)
  /\ Readable(Stack(y)) /\ x.rules = Rules(Stack(y))

\* No layer behind l has files.
OnTop(y, l) ==
  /\ l = "base" => y["app"] = <<>>
  /\ l \in {"base", "app"} => y["user"] = <<>>
  /\ l \in {"base", "app", "user"} => y["profile"] = <<>>

\* The layers y with the files q added to l.
Added(z, y, l, q) == z[l] = y[l] \o q /\ \A k \in Layers \ {l} : z[k] = y[k]

(* Files added to the last layer that has any come last of all. *)
LEMMA Restacked ==
  ASSUME NEW y, NEW z, IsLayers(y), IsLayers(z), NEW l \in Layers, NEW q, IsSeq(q),
         Added(z, y, l, q), OnTop(y, l)
  PROVE  Stack(z) = Stack(y) \o q
  <1> DEFINE a == y["base"]
             b == y["app"]
             c == y["user"]
             d == y["profile"]
  <1>1. IsSeq(a) /\ IsSeq(b) /\ IsSeq(c) /\ IsSeq(d)
    BY DEF IsLayers, Layers
  <1>2. Stack(y) = ((a \o b) \o c) \o d
    BY DEF Stack
  <1>3. CASE l = "profile"
    <2>1. Stack(z) = ((a \o b) \o c) \o (d \o q)
      BY <1>3 DEF Stack, Layers, Added, OnTop
    <2> HIDE DEF a, b, c, d
    <2> DEFINE f == (a \o b) \o c
    <2>2. IsSeq(f)
      BY <1>1, JoinFacts
    <2> HIDE DEF f
    <2>3. (f \o d) \o q = f \o (d \o q)
      <3>1. IsSeq(d) /\ IsSeq(q)
        BY <1>1
      <3>2. ASSUME NEW g, IsSeq(g) PROVE (g \o d) \o q = g \o (d \o q)
        BY <3>1, <3>2, JoinJoined
      <3> QED BY <2>2, <3>2
    <2> QED BY <1>2, <2>1, <2>3 DEF f
  <1>4. CASE l = "user"
    <2>1. Stack(z) = ((a \o b) \o (c \o q)) \o <<>> /\ d = <<>>
      BY <1>4 DEF Stack, Layers, Added, OnTop
    <2> HIDE DEF a, b, c, d
    <2> DEFINE f == a \o b
    <2>2. IsSeq(f)
      BY <1>1, JoinFacts
    <2> HIDE DEF f
    <2>3. IsSeq(f \o c) /\ IsSeq(f \o (c \o q)) /\ f \o (c \o q) = (f \o c) \o q
      <3>1. IsSeq(f \o c) /\ IsSeq(c \o q)
        BY <1>1, <2>2, JoinFacts
      <3>2. IsSeq(f \o (c \o q))
        BY <2>2, <3>1, JoinFacts
      <3>3. (f \o c) \o q = f \o (c \o q)
        <4>1. IsSeq(c) /\ IsSeq(q)
          BY <1>1
        <4>2. ASSUME NEW g, IsSeq(g) PROVE (g \o c) \o q = g \o (c \o q)
          BY <4>1, <4>2, JoinJoined
        <4> QED BY <2>2, <4>2
      <3> QED BY <3>1, <3>2, <3>3
    <2>4. (f \o (c \o q)) \o <<>> = f \o (c \o q) /\ (f \o c) \o <<>> = f \o c
      BY <2>3, SeqFacts
    <2> QED BY <1>2, <2>1, <2>3, <2>4 DEF f
  <1>5. CASE l = "app"
    <2>1. Stack(z) = ((a \o (b \o q)) \o <<>>) \o <<>> /\ c = <<>> /\ d = <<>>
      BY <1>5 DEF Stack, Layers, Added, OnTop
    <2> HIDE DEF a, b, c, d
    <2>2. IsSeq(a \o b) /\ IsSeq(a \o (b \o q)) /\ a \o (b \o q) = (a \o b) \o q
      <3>1. IsSeq(a \o b) /\ IsSeq(b \o q)
        BY <1>1, JoinFacts
      <3>2. IsSeq(a \o (b \o q))
        BY <1>1, <3>1, JoinFacts
      <3>3. (a \o b) \o q = a \o (b \o q)
        BY <1>1, JoinJoined
      <3> QED BY <3>1, <3>2, <3>3
    <2> DEFINE f == a \o b
               g == a \o (b \o q)
    <2> HIDE DEF f, g
    <2>3. (g \o <<>>) \o <<>> = g /\ (f \o <<>>) \o <<>> = f
      BY <2>2, SeqFacts DEF f, g
    <2> QED BY <1>2, <2>1, <2>2, <2>3 DEF f, g
  <1>6. CASE l = "base"
    <2>1. Stack(z) = (((a \o q) \o <<>>) \o <<>>) \o <<>> /\ b = <<>> /\ c = <<>> /\ d = <<>>
      BY <1>6 DEF Stack, Layers, Added, OnTop
    <2> HIDE DEF a, b, c, d
    <2>2. IsSeq(a \o q)
      BY <1>1, JoinFacts
    <2> DEFINE g == a \o q
    <2> HIDE DEF g
    <2>3. ((g \o <<>>) \o <<>>) \o <<>> = g /\ ((a \o <<>>) \o <<>>) \o <<>> = a
      BY <1>1, <2>2, SeqFacts DEF g
    <2> QED BY <1>2, <2>1, <2>3 DEF g
  <1> QED BY <1>3, <1>4, <1>5, <1>6 DEF Layers
(* An override merged into the last layer that has files. *)
LEMMA MergeMade ==
  ASSUME NEW x, NEW y, MadeOf(x, y), NEW file, NEW X, FileOK(file, X), NEW s \in SUBSET X,
         NEW l \in Layers, OnTop(y, l)
  PROVE  MadeOf(Merged(x, file, s), [y EXCEPT ![l] = y[l] \o Lineage(file, s)])
  <1> DEFINE q == Lineage(file, s)
             m == Merged(x, file, s)
             z == [y EXCEPT ![l] = y[l] \o q]
  <1>1. Readable(q) /\ IsSeq(q)
    BY DEF FileOK, Readable
  <1>2. IsTheme(m) /\ m.rules = IF file.present THEN x.rules \o theme_load(file, s).rules
                                                ELSE x.rules
    BY MergedFacts DEF MadeOf
  <1>3. theme_load(file, s).rules = Rules(q) /\ (~file.present => q = <<>>)
    BY LoadFacts, NothingRead, Zenon
  <1> HIDE DEF q, m
  <1>4. /\ DOMAIN y = Layers /\ IsSeq(y[l] \o q)
    BY <1>1, JoinFacts DEF MadeOf, IsLayers
  <1>5. DOMAIN z = Layers /\ Added(z, y, l, q)
    BY <1>4 DEF Added
  <1> HIDE DEF z
  <1>6. IsLayers(z)
    BY <1>4, <1>5 DEF MadeOf, IsLayers, Added
  <1>7. Stack(z) = Stack(y) \o q
    <2>1. IsLayers(y)
      BY DEF MadeOf
    <2> QED BY <1>1, <1>5, <1>6, <2>1, Restacked
  <1> DEFINE a == Stack(y)
  <1>8. Readable(a) /\ x.rules = Rules(a)
    BY DEF MadeOf
  <1> HIDE DEF a
  <1>9. Readable(a \o q) /\ m.rules = Rules(a \o q)
    <2>1. CASE file.present
      BY <1>1, <1>2, <1>3, <1>8, <2>1, RulesJoined
    <2>2. CASE ~file.present
      <3>1. a \o q = a
        BY <1>3, <1>8, <2>2, SeqFacts DEF Readable
      <3> QED BY <1>2, <1>8, <2>2, <3>1
    <2> QED BY <2>1, <2>2
  <1>10. MadeOf(m, z)
    BY <1>2, <1>6, <1>7, <1>9 DEF MadeOf, a
  <1> QED BY <1>10 DEF m, z, q

(* The layers of a theme that was just read. *)
LEMMA OnlyBaseFacts ==
  ASSUME NEW q, IsSeq(q)
  PROVE  LET y == OnlyBase(q)
         IN /\ IsLayers(y) /\ Stack(y) = q /\ y["base"] = q
            /\ y["app"] = <<>> /\ y["user"] = <<>> /\ y["profile"] = <<>>
  <1> DEFINE y == OnlyBase(q)
  <1>1. /\ DOMAIN y = Layers /\ y["base"] = q
        /\ y["app"] = <<>> /\ y["user"] = <<>> /\ y["profile"] = <<>>
    BY DEF OnlyBase, Layers
  <1> HIDE DEF y
  <1>2. IsLayers(y)
    BY <1>1, ShortSeqs DEF IsLayers, Layers
  <1>3. Stack(y) = ((q \o <<>>) \o <<>>) \o <<>>
    BY <1>1 DEF Stack
  <1>4. q \o <<>> = q
    BY SeqFacts
  <1> QED BY <1>1, <1>2, <1>3, <1>4 DEF y

(* A theme just read, from whichever file it could be read. *)
LEMMA BaseMade ==
  ASSUME NEW file, NEW X, FileOK(file, X), NEW s \in SUBSET X, NEW w, IsSeq(w)
  PROVE  LET x == theme_load(file, s)
             y == OnlyBase(Lineage(file, s))
         IN MadeOf(x, y) /\ MadeOf(theme_load_directory(<<x>> \o w), y)
  <1> DEFINE x == theme_load(file, s)
             c == theme_load_directory(<<x>> \o w)
             q == Lineage(file, s)
             y == OnlyBase(q)
  <1>1. IsTheme(x) /\ IsTheme(c) /\ c.rules = x.rules
    BY LoadIsTheme
  <1>2. Readable(q) /\ IsSeq(q)
    BY DEF FileOK, Readable
  <1>3. x.rules = Rules(q)
    BY LoadFacts, Zenon
  <1> HIDE DEF x, c, q
  <1>4. IsLayers(y) /\ Stack(y) = q
    BY <1>2, OnlyBaseFacts
  <1> HIDE DEF y
  <1>5. MadeOf(x, y) /\ MadeOf(c, y)
    BY <1>1, <1>2, <1>3, <1>4 DEF MadeOf
  <1> QED BY <1>5 DEF x, c, y, q

LEMMA DefaultMade ==
  ASSUME NEW file, ~file.present, NEW s
  PROVE  MadeOf(theme_default, OnlyBase(Lineage(file, s)))
  <1>1. Lineage(file, s) = <<>>
    BY NothingRead
  <1>2. IsLayers(OnlyBase(<<>>)) /\ Stack(OnlyBase(<<>>)) = <<>>
    BY ShortSeqs, OnlyBaseFacts
  <1> QED BY <1>1, <1>2, DefaultIsTheme, NoRules DEF MadeOf

LEMMA FilesAreOK ==
  ASSUME NEW d \in Disks
  PROVE  LET X == Extending(d)
         IN /\ FileOK(d.base, X) /\ FileOK(d.others, X) /\ FileOK(d.app, X)
            /\ FileOK(d.user, X) /\ FileOK(d.profile, X) /\ FileOK(Absent, X)
  <1> DEFINE X == Extending(d)
  <1>1. FileOK(Absent, X)
    <2>1. \A s : Lineage(Absent, s) = <<>>
      BY NothingRead DEF Absent
    <2> QED BY <2>1, NoRules DEF FileOK
  <1>2. ASSUME NEW file \in {d.base, d.others, d.app, d.user, d.profile} PROVE FileOK(file, X)
    <2> SUFFICES ASSUME NEW s \in SUBSET X PROVE Readable(Lineage(file, s))
      BY DEF FileOK
    <2> DEFINE read == Lineage(file, s)
    <2>1. /\ read \in Seq({read[i] : i \in DOMAIN read})
          /\ \A i \in DOMAIN read : Ordered(read[i])
      BY <1>2, FilesAssumption, Zenon DEF Ordered
    <2> HIDE DEF read
    <2>2. Readable(read)
      BY <2>1 DEF Readable, IsSeq
    <2> QED BY <2>2 DEF read
  <1> QED BY <1>1, <1>2, Zenon
-----------------------------------------------------------------------------
(* The layers of the theme in use.                                         *)

\* Nobody has the theme in pieces.
InUse == lock = Nobody \/ pc[lock] \in Holding

MadeInUse == MadeOf(themes[active].theme, themes[active].layers)

\* The theme in use is made of its layers, and while it is being made again
\* the ones that are still to come are empty.
LayerInv ==
  InUse =>
    /\ MadeInUse
    /\ \A l \in {"app", "user"} :
         lock # Nobody /\ pc[lock] = l => OnTop(themes[active].layers, l)

(* Who holds theme_lock. *)
LEMMA Holder ==
  ASSUME UseInv, NEW t \in Writers
  PROVE  t # Nobody /\ (lock = t <=> pc[t] \in Held)
  BY FrameAssumption DEF UseInv, LockIsReturned, Held, Writers

(* The daemon starts with a theme made of what the files ask for. *)
LEMMA StartsMade == ASSUME Init PROVE LayerInv
  <1>1. disk \in Disks
    BY DEF Init
  <1>2. PICK s \in [Layers -> SUBSET Extending(disk)] : themes = <<Booted(disk, s)>>
    BY Zenon DEF Init
  <1> DEFINE X == Extending(disk)
             app == IF ThemePath THEN disk.app ELSE Absent
             file == IF disk.base.present THEN disk.base ELSE disk.others
             base == IF disk.base.present THEN theme_load(disk.base, s["base"])
                     ELSE IF disk.others.present
                     THEN theme_load_directory(<<theme_load(disk.others, s["base"])>>
                                                 \o Chained(disk.more))
                     ELSE theme_default
             two == Merged(base, app, s["app"])
             three == Merged(two, disk.user, s["user"])
             four == theme_add_plugin_overrides(three, Chained(disk.plugins))
             q == Lineage(file, s["base"])
             y == OnlyBase(q)
             ya == [y EXCEPT !["app"] = y["app"] \o Lineage(app, s["app"])]
             yu == [ya EXCEPT !["user"] = ya["user"] \o Lineage(disk.user, s["user"])]
             z == [l \in Layers |-> CASE l = "base" -> Lineage(file, s[l])
                                      [] l = "app" -> Lineage(app, s[l])
                                      [] l = "user" -> Lineage(disk.user, s[l])
                                      [] OTHER -> <<>>]
  <1>0. /\ s["base"] \in SUBSET X /\ s["app"] \in SUBSET X /\ s["user"] \in SUBSET X
        /\ IsSeq(Lineage(file, s["base"]))
    <2>1. s["base"] \in SUBSET X /\ s["app"] \in SUBSET X /\ s["user"] \in SUBSET X
      BY <1>2 DEF Layers
    <2>2. FileOK(file, X)
      BY <1>1, FilesAreOK
    <2> HIDE DEF X, file
    <2> QED BY <2>1, <2>2 DEF FileOK, Readable
  <1>3. Booted(disk, s) = [theme |-> four, live |-> TRUE, stamp |-> 0, layers |-> z]
    BY Zenon DEF Booted, theme_merge_user_override, theme_merge_app_override
  <1>4. MadeOf(base, y)
    <2>1. CASE disk.base.present
      BY <1>0, <1>1, <2>1, FilesAreOK, BaseMade, ChainIsSeq
    <2>2. CASE ~disk.base.present /\ disk.others.present
      BY <1>0, <1>1, <2>2, FilesAreOK, BaseMade, ChainIsSeq
    <2>3. CASE ~disk.base.present /\ ~disk.others.present
      <3>1. base = theme_default /\ file = disk.others
        BY <2>3
      <3> QED BY <2>3, <3>1, DefaultMade
    <2> QED BY <2>1, <2>2, <2>3
  <1>5. y["app"] = <<>> /\ y["user"] = <<>> /\ y["profile"] = <<>> /\ y["base"] = q
    BY <1>0, OnlyBaseFacts
  <1>6. FileOK(app, X) /\ FileOK(disk.user, X)
    BY <1>1, FilesAreOK
  <1>7. IsSeq(Lineage(app, s["app"])) /\ IsSeq(Lineage(disk.user, s["user"]))
    BY <1>0, <1>6 DEF FileOK, Readable
  <1>8. DOMAIN y = Layers
    BY DEF OnlyBase
  <1> DEFINE a == Lineage(app, s["app"])
             u == Lineage(disk.user, s["user"])
  <1>9. z = [l \in Layers |-> CASE l = "base" -> q [] l = "app" -> a
                                [] l = "user" -> u [] OTHER -> <<>>]
    BY DEF Layers
  <1> HIDE DEF base, y, app, q, file, X
  <1>10. MadeOf(two, ya)
    <2>1. OnTop(y, "app") /\ "app" \in Layers
      BY <1>5 DEF OnTop, Layers
    <2> QED BY <1>0, <1>4, <1>6, <2>1, MergeMade
  <1> HIDE DEF a, u, z
  <1>11. /\ DOMAIN ya = Layers /\ ya["base"] = q /\ ya["app"] = a
         /\ ya["user"] = <<>> /\ ya["profile"] = <<>>
    <2>1. <<>> \o a = a
      BY <1>7, SeqFacts DEF a
    <2> QED BY <1>5, <1>8, <2>1 DEF Layers, a
  <1> HIDE DEF two, ya
  <1>12. MadeOf(three, yu)
    <2>1. OnTop(ya, "user") /\ "user" \in Layers
      BY <1>11 DEF OnTop, Layers
    <2> QED BY <1>0, <1>6, <1>10, <2>1, MergeMade
  <1>13. yu = z
    <2>1. <<>> \o u = u
      BY <1>7, SeqFacts DEF u
    <2>2. /\ DOMAIN yu = Layers /\ yu["base"] = q /\ yu["app"] = a
          /\ yu["user"] = u /\ yu["profile"] = <<>>
      BY <1>11, <2>1 DEF Layers, u
    <2>3. yu = [l \in Layers |-> yu[l]]
      BY <2>2
    <2> HIDE DEF yu
    <2> QED BY <1>9, <2>2, <2>3 DEF Layers
  <1> HIDE DEF three, yu
  <1>14. MadeOf(four, z)
    <2>1. IsTheme(four) /\ four.rules = three.rules
      BY <1>12, PluginFacts DEF MadeOf
    <2> HIDE DEF four
    <2> QED BY <1>12, <1>13, <2>1 DEF MadeOf
  <1> HIDE DEF four
  <1>15. active = 1 /\ lock = Nobody
    BY DEF Init
  <1>16. themes[active].theme = four /\ themes[active].layers = z
    <2>1. themes[1] = [theme |-> four, live |-> TRUE, stamp |-> 0, layers |-> z]
      BY <1>2, <1>3
    <2> QED BY <1>15, <2>1
  <1> QED BY <1>14, <1>15, <1>16 DEF LayerInv, MadeInUse
(* A step that leaves the theme and the holder of the lock alone. *)
LEMMA Undisturbed ==
  ASSUME LayerInv, UNCHANGED <<themes, active, lock>>, lock # Nobody => pc'[lock] = pc[lock]
  PROVE  LayerInv'
  BY DEF LayerInv, InUse, MadeInUse

(* ... because it is taken by a thread that does not hold it. *)
LEMMA Elsewhere ==
  ASSUME UseInv, LayerInv, NEW t \in Threads, t \in Writers => pc[t] \notin Held,
         NEW where, Goto(t, where), UNCHANGED <<themes, active, lock>>
  PROVE  LayerInv'
  <1>1. lock # Nobody => lock # t /\ lock \in Threads
    <2>1. lock \in Writers \cup {Nobody}
      BY DEF UseInv, TypeOK
    <2>2. CASE lock \in Writers
      BY <2>2, Holder DEF Threads
    <2> QED BY <2>1, <2>2
  <1>2. lock # Nobody => pc'[lock] = pc[lock]
    BY <1>1 DEF UseInv, TypeOK, Goto
  <1> QED BY <1>2, Undisturbed

(* The holder has just put the theme together, or gone on with it. *)
LEMMA HeldMade ==
  ASSUME UseInv, NEW t \in Writers, lock = t, lock' = lock, NEW where, Goto(t, where),
         MadeInUse',
         \A l \in {"app", "user"} : where = l => OnTop(themes'[active'].layers, l)
  PROVE  LayerInv'
  <1>1. pc'[lock'] = where
    BY DEF UseInv, TypeOK, Goto, Threads
  <1> QED BY <1>1 DEF LayerInv

(* ... or taken it to pieces. *)
LEMMA HeldBroken ==
  ASSUME UseInv, NEW t \in Writers, lock = t, lock' = lock,
         NEW where \in {"load", "others"}, Goto(t, where)
  PROVE  LayerInv'
  <1>1. pc'[lock'] = where /\ lock' # Nobody
    BY Holder DEF UseInv, TypeOK, Goto, Threads
  <1> QED BY <1>1 DEF LayerInv, InUse, Holding

(* Merging an override into the theme in use. *)
LEMMA MergeKeepsMade ==
  ASSUME UseInv, LayerInv, NEW t \in Writers, lock = t, lock' = lock,
         pc[t] \in {"app", "user", "profile"},
         NEW file, NEW X, FileOK(file, X), NEW s \in SUBSET X, NEW where \in {"user", "plugins", "unlock"},
         where = "user" => pc[t] = "app",
         themes' = [themes EXCEPT ![active].theme = Merged(@, file, s),
                                  ![active].layers[pc[t]] = @ \o Lineage(file, s)],
         active' = active, Goto(t, where)
  PROVE  LayerInv'
  <1> DEFINE l == pc[t]
             x == themes[active].theme
             y == themes[active].layers
             m == Merged(x, file, s)
             z == [y EXCEPT ![l] = y[l] \o Lineage(file, s)]
  <1>1. active \in DOMAIN themes /\ lock # Nobody /\ l \in Layers
    BY Holder DEF UseInv, Progress, Whole, Holding, Layers
  <1>2. MadeOf(x, y) /\ OnTop(y, l)
    <2>1. InUse
      BY DEF InUse, Holding
    <2>2. CASE l = "profile"
      BY <2>1, <2>2 DEF LayerInv, MadeInUse, OnTop
    <2>3. CASE l \in {"app", "user"}
      BY <1>1, <2>1, <2>3 DEF LayerInv, MadeInUse
    <2> QED BY <2>2, <2>3
  <1>3. MadeOf(m, z)
    <2> HIDE DEF x, y, l
    <2> QED BY <1>1, <1>2, MergeMade
  <1>4. where = "user" => OnTop(z, "user")
    <2>1. "profile" \in Layers /\ DOMAIN y = Layers
      BY <1>2 DEF Layers, MadeOf, IsLayers
    <2>2. where = "user" => y["profile"] = <<>> /\ z["profile"] = y["profile"]
      BY <1>2, <2>1 DEF OnTop
    <2> HIDE DEF z
    <2> QED BY <2>2 DEF OnTop
  <1>5. themes' = [themes EXCEPT ![active].theme = m, ![active].layers[l] = @ \o Lineage(file, s)]
    BY Zenon
  <1>6. themes'[active].theme = m /\ themes'[active].layers = z
    <2> DEFINE q == Lineage(file, s)
    <2> HIDE DEF m, l, q
    <2> DEFINE r == [themes EXCEPT ![active].theme = m]
               v == r[active].layers
               u == [v EXCEPT ![l] = y[l] \o q]
               w == [r EXCEPT ![active].layers = u]
    <2>1. Alike(themes, r) /\ r[active].theme = m /\ r[active].layers = themes[active].layers
      BY <1>1, Rethemed, Zenon DEF UseInv, Heap
    <2>2. themes' = w
      BY <1>5, Zenon DEF q
    <2> HIDE DEF r, u
    <2>3. HeapOf(r) /\ active \in DOMAIN r
      BY <1>1, <2>1 DEF Alike
    <2>4. Alike(r, w) /\ w[active].theme = r[active].theme /\ w[active].layers = u
      BY <2>3, Relayered, Zenon
    <2> HIDE DEF w
    <2>5. u = [y EXCEPT ![l] = y[l] \o q]
      BY <2>1 DEF u
    <2> QED BY <2>1, <2>2, <2>4, <2>5 DEF q
  <1> HIDE DEF m, z
  <1>7. MadeInUse'
    BY <1>3, <1>6 DEF MadeInUse
  <1>8. \A k \in {"app", "user"} : where = k => OnTop(themes'[active'].layers, k)
    BY <1>4, <1>6
  <1> QED BY <1>7, <1>8, HeldMade

LEMMA MergesKeepMade ==
  ASSUME UseInv, LayerInv, NEW t \in Writers,
         MergeApp(t) \/ MergeUser(t) \/ MergeProfile(t)
  PROVE  LayerInv'
  <1>1. /\ FileOK(disk.app, Extending(disk)) /\ FileOK(disk.user, Extending(disk))
        /\ FileOK(disk.profile, Extending(disk))
        /\ pc[t] \in {"app", "user", "profile"}
    BY FilesAreOK DEF UseInv, TypeOK, MergeApp, MergeUser, MergeProfile
  <1>2. lock = t
    BY <1>1, Holder DEF Held
  <1>3. CASE MergeApp(t)
    <2>1. PICK s \in SUBSET Extending(disk) :
            themes' = [themes EXCEPT ![active].theme = Merged(@, disk.app, s),
                                     ![active].layers["app"] = @ \o Lineage(disk.app, s)]
      BY <1>3, Zenon DEF MergeApp, MergeLayer, theme_merge_app_override
    <2>2. pc[t] = "app" /\ lock' = lock /\ active' = active /\ Goto(t, "user")
      BY <1>3, Zenon DEF MergeApp, MergeLayer
    <2> QED BY <1>1, <1>2, <2>1, <2>2, MergeKeepsMade
  <1>4. CASE MergeUser(t)
    <2>1. PICK s \in SUBSET Extending(disk) :
            themes' = [themes EXCEPT ![active].theme = Merged(@, disk.user, s),
                                     ![active].layers["user"] = @ \o Lineage(disk.user, s)]
      BY <1>4, Zenon DEF MergeUser, MergeLayer, theme_merge_user_override
    <2>2. pc[t] = "user" /\ lock' = lock /\ active' = active /\ Goto(t, "plugins")
      BY <1>4, Zenon DEF MergeUser, MergeLayer
    <2> QED BY <1>1, <1>2, <2>1, <2>2, MergeKeepsMade
  <1>5. CASE MergeProfile(t)
    <2>0. pc[t] = "profile"
      BY <1>5 DEF MergeProfile
    <2>1. CASE Goto(t, "unlock") /\ UNCHANGED <<files, memory, control, drawing, lock, freed, crashed>>
      <3>1. InUse
        BY <1>2, <2>0 DEF InUse, Holding
      <3>2. MadeInUse'
        BY <2>1, <3>1 DEF LayerInv, MadeInUse, memory
      <3> QED BY <1>2, <2>1, <3>2, HeldMade
    <2>2. CASE MergeLayer(t, "profile", disk.profile, theme_merge_accessibility_profile, "unlock")
      <3>1. PICK s \in SUBSET Extending(disk) :
            themes' = [themes EXCEPT ![active].theme = Merged(@, disk.profile, s),
                                     ![active].layers["profile"] = @ \o Lineage(disk.profile, s)]
        BY <2>2, Zenon DEF MergeLayer, theme_merge_accessibility_profile
      <3>2. lock' = lock /\ active' = active /\ Goto(t, "unlock")
        BY <2>2, Zenon DEF MergeLayer
      <3> QED BY <1>1, <1>2, <2>0, <3>1, <3>2, MergeKeepsMade
    <2> QED BY <1>5, <2>1, <2>2, Zenon DEF MergeProfile
  <1> QED BY <1>3, <1>4, <1>5
(* Chaining plugins' themes behind a theme leaves what it is made of. *)
LEMMA ChainKeepsMade ==
  ASSUME UseInv, active \in DOMAIN themes, MadeInUse, NEW found, active' = active,
         themes' = [themes EXCEPT ![active].theme = theme_add_plugin_overrides(@, found)]
  PROVE  MadeInUse' /\ themes'[active'].layers = themes[active].layers
  <1> DEFINE x == themes[active].theme
             c == theme_add_plugin_overrides(x, found)
             r == [themes EXCEPT ![active].theme = c]
  <1>1. IsTheme(c) /\ c.rules = x.rules
    BY PluginFacts DEF MadeInUse, MadeOf
  <1>2. themes' = r
    BY Zenon
  <1> HIDE DEF c
  <1>3. Alike(themes, r) /\ r[active].theme = c /\ r[active].layers = themes[active].layers
    BY Rethemed, Zenon DEF UseInv, Heap
  <1> HIDE DEF r
  <1>4. themes'[active'].theme = c /\ themes'[active'].layers = themes[active].layers
    BY <1>2, <1>3
  <1> QED BY <1>1, <1>4 DEF MadeInUse, MadeOf

LEMMA PluginsKeepMade ==
  ASSUME UseInv, LayerInv, NEW t \in Writers, AddPlugins(t) \/ PluginStep(t)
  PROVE  LayerInv'
  <1>0. t \in Threads
    BY DEF Threads
  <1>1. CASE AddPlugins(t)
    <2>1. /\ pc[t] = "plugins" /\ Goto(t, "unlock") /\ active' = active /\ lock' = lock
          /\ themes' = [themes EXCEPT ![active].theme =
                          theme_add_plugin_overrides(@, Chained(disk.plugins))]
      BY <1>1, Zenon DEF AddPlugins
    <2>2. lock = t /\ active \in DOMAIN themes
      BY <2>1, Holder DEF Held, UseInv, Progress, Whole, Holding
    <2>3. MadeInUse
      BY <2>1, <2>2 DEF LayerInv, InUse, Holding
    <2>4. MadeInUse'
      BY <2>1, <2>2, <2>3, ChainKeepsMade
    <2> QED BY <2>1, <2>2, <2>4, HeldMade
  <1>2. CASE load_plugins(t)
    <2>1. /\ pc[t] = "null" /\ UNCHANGED <<themes, active, lock>>
          /\ Goto(t, "idle") \/ Goto(t, "chain")
      BY <1>2 DEF load_plugins, memory, Finish
    <2> QED BY <1>0, <2>1, Elsewhere DEF Held
  <1>3. CASE ChainThemes(t) /\ UNCHANGED themes
    <2>1. pc[t] = "chain" /\ UNCHANGED <<themes, active, lock>> /\ Goto(t, "idle")
      BY <1>3 DEF ChainThemes, Finish
    <2> QED BY <1>0, <2>1, Elsewhere DEF Held
  <1>4. CASE /\ ChainThemes(t)
             /\ themes' = [themes EXCEPT ![active].theme =
                             theme_add_plugin_overrides(@, Chained(disk.plugins))]
    <2>1. pc[t] = "chain" /\ UNCHANGED <<active, lock>> /\ Goto(t, "idle")
      BY <1>4 DEF ChainThemes, Finish
    <2>2. lock # t /\ (lock # Nobody => lock \in Writers)
      BY <2>1, Holder DEF Held, UseInv, TypeOK
    <2>3. lock # Nobody => pc'[lock] = pc[lock]
      BY <2>1, <2>2 DEF UseInv, TypeOK, Goto, Threads
    <2>4. CASE InUse
      <3>1. active \in DOMAIN themes /\ MadeInUse
        BY <2>2, <2>4 DEF UseInv, AtRest, Progress, Whole, InUse, LayerInv
      <3>2. MadeInUse' /\ themes'[active'].layers = themes[active].layers
        BY <1>4, <2>1, <3>1, ChainKeepsMade
      <3> QED BY <2>1, <2>3, <2>4, <3>2 DEF LayerInv
    <2>5. CASE ~InUse
      BY <2>1, <2>3, <2>5 DEF LayerInv, InUse
    <2> QED BY <2>4, <2>5
  <1>5. ChainThemes(t) =>
          \/ UNCHANGED themes
          \/ themes' = [themes EXCEPT ![active].theme =
                          theme_add_plugin_overrides(@, Chained(disk.plugins))]
    BY Zenon DEF ChainThemes
  <1> QED BY <1>1, <1>2, <1>3, <1>4, <1>5 DEF PluginStep

(* Reading the theme again makes it of the files there are. *)
LEMMA BecomesMade ==
  ASSUME UseInv, NEW t \in Writers, pc[t] \in {"load", "others"},
         NEW x, NEW file, NEW s, IsSeq(Lineage(file, s)), MadeOf(x, OnlyBase(Lineage(file, s))),
         Becomes(x, file, s), Goto(t, Overridden(t)), lock' = lock
  PROVE  LayerInv'
  <1> DEFINE q == Lineage(file, s)
             y == OnlyBase(q)
             n == Len(themes) + 1
  <1>1. lock = t
    BY Holder DEF Held
  <1>2. edits \in Nat
    BY FrameAssumption DEF UseInv, TypeOK
  <1>3. /\ themes' = Append(themes, [theme |-> x, live |-> TRUE, stamp |-> edits, layers |-> y])
        /\ active' = n
    BY Zenon DEF Becomes, Block
  <1>4. y["user"] = <<>> /\ y["profile"] = <<>>
    BY OnlyBaseFacts
  <1> HIDE DEF y
  <1>5. themes'[n].theme = x /\ themes'[n].layers = y
    BY <1>2, <1>3, Allocated DEF UseInv
  <1> HIDE DEF n
  <1>6. MadeInUse'
    BY <1>3, <1>5 DEF MadeInUse, y
  <1>7. \A l \in {"app", "user"} : OnTop(themes'[active'].layers, l)
    BY <1>3, <1>4, <1>5 DEF OnTop
  <1> DEFINE where == Overridden(t)
  <1>8. Goto(t, where)
    OBVIOUS
  <1> HIDE DEF where
  <1> QED BY <1>1, <1>6, <1>7, <1>8, HeldMade

LEMMA LoadsKeepMade ==
  ASSUME UseInv, LayerInv, NEW t \in Writers, LoadBase(t) \/ LoadOthers(t) \/ theme_free(t)
  PROVE  LayerInv'
  <1>0. disk \in Disks
    BY DEF UseInv, TypeOK
  <1>1. CASE theme_free(t)
    <2>1. pc[t] = "free" /\ Goto(t, "load") /\ lock' = lock
      BY <1>1 DEF theme_free
    <2> QED BY <2>1, Holder, HeldBroken DEF Held
  <1>2. CASE LoadBase(t) /\ ~disk.base.present
    <2>1. pc[t] = "load" /\ Goto(t, "others") /\ lock' = lock
      BY <1>2 DEF LoadBase
    <2> QED BY <2>1, Holder, HeldBroken DEF Held
  <1>3. CASE LoadBase(t) /\ disk.base.present
    <2>1. PICK s \in SUBSET Extending(disk) : Becomes(theme_load(disk.base, s), disk.base, s)
      BY <1>3, Zenon DEF LoadBase
    <2>2. pc[t] = "load" /\ Goto(t, Overridden(t)) /\ lock' = lock
      BY <1>3, Zenon DEF LoadBase
    <2>3. MadeOf(theme_load(disk.base, s), OnlyBase(Lineage(disk.base, s)))
      BY <1>0, <1>3, FilesAreOK, BaseMade, ChainIsSeq
    <2>4. IsSeq(Lineage(disk.base, s))
      BY <1>0, FilesAreOK DEF FileOK, Readable
    <2> QED BY <2>1, <2>2, <2>3, <2>4, BecomesMade
  <1>4. CASE LoadOthers(t)
    <2>1. pc[t] = "others" /\ Goto(t, Overridden(t)) /\ lock' = lock
      BY <1>4, Zenon DEF LoadOthers
    <2>2. CASE disk.others.present
      <3>1. PICK s \in SUBSET Extending(disk) :
              Becomes(theme_load_directory(<<theme_load(disk.others, s)>> \o Chained(disk.more)), disk.others, s)
        BY <1>4, <2>2, Zenon DEF LoadOthers
      <3>2. MadeOf(theme_load_directory(<<theme_load(disk.others, s)>> \o Chained(disk.more)),
                   OnlyBase(Lineage(disk.others, s)))
        BY <1>0, <2>2, FilesAreOK, BaseMade, ChainIsSeq
      <3>3. IsSeq(Lineage(disk.others, s))
        BY <1>0, FilesAreOK DEF FileOK, Readable
      <3> QED BY <2>1, <3>1, <3>2, <3>3, BecomesMade
    <2>3. CASE ~disk.others.present
      <3>1. Becomes(theme_default, Absent, {})
        BY <1>4, <2>3, Zenon DEF LoadOthers
      <3>2. MadeOf(theme_default, OnlyBase(Lineage(Absent, {})))
        BY DefaultMade DEF Absent
      <3>3. IsSeq(Lineage(Absent, {}))
        BY NothingRead, ShortSeqs DEF Absent
      <3> QED BY <2>1, <3>1, <3>2, <3>3, BecomesMade
    <2> QED BY <2>2, <2>3
  <1> QED BY <1>1, <1>2, <1>3, <1>4

(* The lock is taken and given back with the theme whole. *)
LEMMA LocksKeepMade ==
  ASSUME UseInv, LayerInv, NEW t \in Writers, Lock(t) \/ Unlock(t)
  PROVE  LayerInv'
  <1>1. CASE Lock(t)
    <2>1. /\ pc[t] = "lock" /\ lock = Nobody /\ lock' = t /\ UNCHANGED <<themes, active>>
          /\ Goto(t, "profile") \/ Goto(t, "free")
      BY <1>1 DEF Lock, memory
    <2>2. pc'[lock'] \in {"profile", "free"}
      BY <2>1 DEF UseInv, TypeOK, Goto, Threads
    <2> QED BY <2>1, <2>2 DEF LayerInv, InUse, MadeInUse
  <1>2. CASE Unlock(t)
    <2>1. pc[t] = "unlock" /\ lock' = Nobody /\ UNCHANGED <<themes, active>>
      BY <1>2 DEF Unlock, memory
    <2>2. lock = t
      BY <2>1, Holder DEF Held
    <2> QED BY <2>1, <2>2 DEF LayerInv, InUse, MadeInUse, Holding
  <1> QED BY <1>1, <1>2

LEMMA StepsKeepMade == ASSUME UseInv, LayerInv, [Next]_vars PROVE LayerInv'
  <1>1. CASE Edit \/ UNCHANGED vars
    <2>1. UNCHANGED <<themes, active, lock, pc>>
      BY <1>1 DEF Edit, memory, vars
    <2> QED BY <2>1, Undisturbed
  <1>2. ASSUME NEW t \in Writers, NEW what, NEW where, Begin(t, what, where),
               UNCHANGED <<memory, lock>>
        PROVE  LayerInv'
    <2>1. t \in Threads /\ pc[t] \notin Held /\ Goto(t, where) /\ UNCHANGED <<themes, active, lock>>
      BY <1>2 DEF Begin, Threads, Held, memory
    <2> QED BY <2>1, Elsewhere
  <1>3. CASE WatchFires
    <2>1. Main \in Writers /\ Begin(Main, "watch", "lock") /\ UNCHANGED <<memory, lock>>
      BY <1>3 DEF WatchFires, Writers
    <2> QED BY <1>2, <2>1
  <1>4. ASSUME NEW c \in Controls, dispatch_message(c) PROVE LayerInv'
    <2>1. /\ c \in Writers /\ UNCHANGED <<memory, lock>>
          /\ \/ Begin(c, "reload_theme", "lock")
             \/ Begin(c, "set_accessibility", "lock")
             \/ Begin(c, "reload_plugins", "null")
      BY <1>4 DEF dispatch_message, Writers
    <2> QED BY <1>2, <2>1
  <1>5. ASSUME NEW c \in Sessions, DrawStep(c) PROVE LayerInv'
    <2>1. c \in Threads /\ c \notin Writers
      BY FrameAssumption DEF Threads, Writers
    <2>2. UNCHANGED <<themes, active, lock>>
      BY <1>5 DEF DrawStep, Render, CheckTheme, TakeTheme, Style, LayoutAndDraw, memory
    <2>3. \E where : Goto(c, where)
      BY <1>5, Zenon DEF DrawStep, Render, CheckTheme, TakeTheme, Style, LayoutAndDraw
    <2> QED BY <2>1, <2>2, <2>3, Elsewhere
  <1>6. ASSUME NEW t \in Writers, ThreadStep(t) PROVE LayerInv'
    <2>1. CASE PluginStep(t) \/ AddPlugins(t)
      BY <2>1, PluginsKeepMade
    <2>2. CASE Lock(t) \/ Unlock(t)
      BY <2>2, LocksKeepMade
    <2>3. CASE theme_free(t) \/ LoadBase(t) \/ LoadOthers(t)
      BY <2>3, LoadsKeepMade
    <2>4. CASE MergeApp(t) \/ MergeUser(t) \/ MergeProfile(t)
      BY <2>4, MergesKeepMade
    <2> QED BY <1>6, <2>1, <2>2, <2>3, <2>4 DEF ThreadStep, ThemeStep
  <1> QED BY <1>1, <1>3, <1>4, <1>5, <1>6 DEF Next

LEMMA OverridesFollow == ASSUME LayerInv PROVE OverridesWin
  <1> SUFFICES ASSUME lock = Nobody, NEW w, NEW p \in Sizes
      PROVE  LastWins(themes[active].theme, Stack(themes[active].layers),
                      w.class, w.child, w.state, p)
    BY Zenon DEF OverridesWin, Settled
  <1> DEFINE x == themes[active].theme
             read == Stack(themes[active].layers)
  <1>1. Readable(read) /\ x.rules = Rules(read)
    BY DEF LayerInv, InUse, MadeInUse, MadeOf
  <1> HIDE DEF x, read
  <1>2. LastWins(x, read, w.class, w.child, w.state, p)
    BY <1>1, LastIsHeard
  <1> QED BY <1>2 DEF x, read

(* Whatever the theme files ask for and leave out, whichever files they        *)
(* extend and miss, and however edits, reloads, profiles and reloads of the    *)
(* plugins interleave: when nobody changes the theme, each size of a node is   *)
(* one that the last file with anything to say of it gives, in the order base  *)
(* theme, application, user, profile, a base before the file that extends it.  *)
(* To ask for the value that merge_style takes for "not set" is to say         *)
(* nothing, and any rule for the node says "no maximum" of the maxima it does  *)
(* not give.                                                                   *)
THEOREM LastOverrideWins == Spec => []OverridesWin
  <1>1. Init => UseInv /\ LayerInv
    BY StartsTidy, StartsMade
  <1>2. UseInv /\ LayerInv /\ [Next]_vars => (UseInv /\ LayerInv)'
    BY StepsKeepTidy, StepsKeepMade
  <1>3. LayerInv => OverridesWin
    BY OverridesFollow
  <1> QED BY <1>1, <1>2, <1>3, PTL DEF Spec

=============================================================================
