-------------------------- MODULE LifecycleProofs ---------------------------
(***************************************************************************)
(* What a checkpoint leaves out, what it keeps and what a boot restores,   *)
(* proved for any number of sessions, keys and connections and any         *)
(* schedule of crashes, signals and client threads.                        *)
(***************************************************************************)
EXTENDS Lifecycle, TLAPS

(* No store of a document names a sensitive key.                           *)
Clean(rows) ==
  \A i \in 1..Len(rows) : \A j \in 1..Len(rows[i].store) : rows[i].store[j] \notin Sensitive

(* The types that matter here, and where the two loops stand.              *)
Shape ==
  /\ sessions \in Seq(Rows)
  /\ out \in Seq(Rows)
  /\ buf \in Files
  /\ ckpt \in Files
  /\ tmp \in Files
  /\ idx \in Nat
  /\ pc = "enum" => Len(out) \in 1..Len(sessions)
  /\ pc = "fill" => Len(sessions) \in 1..Len(buf.rows)

CleanInv == Clean(out) /\ Clean(ckpt.rows) /\ Clean(tmp.rows)

IInv == Shape /\ CleanInv

(* The actions that move nothing the invariant speaks of but pc.           *)
Quiet == UNCHANGED <<sessions, out, buf, ckpt, tmp, idx>>

-----------------------------------------------------------------------------
(* Replacing one session's store keeps the table a table.                  *)
LEMMA StoreReplaced ==
  ASSUME NEW rows \in Seq(Rows), NEW n \in 1..Len(rows), NEW s \in Seq(Keys)
  PROVE  /\ [rows EXCEPT ![n].store = s] \in Seq(Rows)
         /\ Len([rows EXCEPT ![n].store = s]) = Len(rows)
         /\ [rows EXCEPT ![n].store = s][n].store = s
         /\ [rows EXCEPT ![n].store = s][n].id = rows[n].id
         /\ \A i \in 1..Len(rows) : i # n => [rows EXCEPT ![n].store = s][i] = rows[i]
  <1> DEFINE row == [rows[n] EXCEPT !.store = s]
  <1>1. rows[n] \in Rows
    OBVIOUS
  <1>2. row \in Rows /\ row.store = s /\ row.id = rows[n].id
    BY <1>1 DEF Rows
  <1>3. [rows EXCEPT ![n].store = s] = [rows EXCEPT ![n] = row]
    OBVIOUS
  <1>4. [rows EXCEPT ![n] = row] \in Seq(Rows)
    BY <1>2
  <1> QED BY <1>2, <1>3, <1>4

(* Adding a row with an empty store keeps a document clean.                *)
LEMMA RowAdded ==
  ASSUME NEW rows \in Seq(Rows), NEW id \in Ids
  PROVE  /\ Append(rows, [id |-> id, store |-> <<>>]) \in Seq(Rows)
         /\ Len(Append(rows, [id |-> id, store |-> <<>>])) = Len(rows) + 1
         /\ Clean(rows) => Clean(Append(rows, [id |-> id, store |-> <<>>]))
  <1> DEFINE row == [id |-> id, store |-> <<>>]
             new == Append(rows, row)
  <1>1. row \in Rows
    BY DEF Rows
  <1>2. /\ new \in Seq(Rows)
        /\ Len(new) = Len(rows) + 1
        /\ new[Len(rows) + 1] = row
        /\ \A i \in 1..Len(rows) : new[i] = rows[i]
    BY <1>1
  <1>3. ASSUME Clean(rows), NEW i \in 1..Len(new), NEW j \in 1..Len(new[i].store)
        PROVE  new[i].store[j] \notin Sensitive
    <2>1. CASE i = Len(rows) + 1
      <3>1. Len(new[i].store) = 0
        BY <1>2, <2>1
      <3> QED BY <3>1, <1>3
    <2>2. CASE i \in 1..Len(rows)
      BY <2>2, <1>2, <1>3 DEF Clean
    <2> QED BY <2>1, <2>2, <1>2
  <1> QED BY <1>2, <1>3 DEF Clean

(* Appending a key that is not sensitive to one store keeps it clean.      *)
LEMMA KeyAdded ==
  ASSUME NEW rows \in Seq(Rows), NEW n \in 1..Len(rows), NEW key \in Keys \ Sensitive,
         Clean(rows)
  PROVE  /\ [rows EXCEPT ![n].store = Append(rows[n].store, key)] \in Seq(Rows)
         /\ Len([rows EXCEPT ![n].store = Append(rows[n].store, key)]) = Len(rows)
         /\ Clean([rows EXCEPT ![n].store = Append(rows[n].store, key)])
  <1> DEFINE s == rows[n].store
             t == Append(s, key)
             new == [rows EXCEPT ![n].store = t]
  <1>0. rows[n] \in Rows
    OBVIOUS
  <1>1. s \in Seq(Keys)
    BY <1>0 DEF Rows
  <1>2. /\ t \in Seq(Keys)
        /\ Len(t) = Len(s) + 1
        /\ t[Len(s) + 1] = key
        /\ \A j \in 1..Len(s) : t[j] = s[j]
    BY <1>1
  <1>3. /\ new \in Seq(Rows)
        /\ Len(new) = Len(rows)
        /\ new[n].store = t
        /\ \A i \in 1..Len(rows) : i # n => new[i] = rows[i]
    <2> HIDE DEF t
    <2> QED BY <1>2, StoreReplaced
  <1>4. \A j \in 1..Len(t) : t[j] \notin Sensitive
    <2>1. \A j \in 1..Len(s) : s[j] \notin Sensitive
      BY DEF Clean
    <2>2. ASSUME NEW j \in 1..Len(t) PROVE t[j] \notin Sensitive
      <3>1. j = Len(s) + 1 \/ j \in 1..Len(s)
        BY <1>1, <1>2
      <3> QED BY <3>1, <2>1, <1>2
    <2> QED BY <2>2
  <1>5. ASSUME NEW i \in 1..Len(new), NEW j \in 1..Len(new[i].store)
        PROVE  new[i].store[j] \notin Sensitive
    <2>1. CASE i = n
      BY <2>1, <1>3, <1>4
    <2>2. CASE i # n
      BY <2>2, <1>3 DEF Clean
    <2> QED BY <2>1, <2>2
  <1> QED BY <1>3, <1>5 DEF Clean

(* A clean document states no fact about a sensitive key.                  *)
LEMMA CleanFacts ==
  ASSUME NEW rows \in Seq(Rows), Clean(rows)
  PROVE  \A f \in Facts(rows) : f.keys \cap Sensitive = {}
  <1>1. ASSUME NEW f \in Facts(rows) PROVE f.keys \cap Sensitive = {}
    <2>1. CASE f \in {[id |-> rows[i].id, keys |-> {}] : i \in DOMAIN rows}
      BY <2>1
    <2>2. CASE f \in UNION {{[id |-> rows[i].id, keys |-> {rows[i].store[j]}] :
                               j \in DOMAIN rows[i].store} : i \in DOMAIN rows}
      <3>1. PICK i \in DOMAIN rows :
              f \in {[id |-> rows[i].id, keys |-> {rows[i].store[j]}] : j \in DOMAIN rows[i].store}
        BY <2>2
      <3>2. PICK j \in DOMAIN rows[i].store :
              f = [id |-> rows[i].id, keys |-> {rows[i].store[j]}]
        BY <3>1
      <3>3. i \in 1..Len(rows) /\ rows[i] \in Rows
        BY <3>1
      <3>4. j \in 1..Len(rows[i].store)
        BY <3>2, <3>3 DEF Rows
      <3>5. rows[i].store[j] \notin Sensitive
        BY <3>3, <3>4 DEF Clean
      <3>6. f.keys = {rows[i].store[j]}
        BY <3>2
      <3> QED BY <3>5, <3>6
    <2> QED BY <1>1, <2>1, <2>2 DEF Facts
  <1> QED BY <1>1

-----------------------------------------------------------------------------
(* An empty document is clean, and a missing file is a file.               *)
LEMMA Empty ==
  /\ <<>> \in Seq(Rows) /\ Clean(<<>>) /\ Len(<<>>) = 0
  /\ NoFile \in Files /\ NoFile.rows = <<>> /\ ~NoFile.exists
  BY DEF Clean, NoFile, Files

LEMMA InitIInv == Init => IInv
  BY Empty DEF Init, IInv, Shape, CleanInv

(* The steps that touch neither the tables nor the files.                  *)
LEMMA QuietIInv ==
  ASSUME IInv, Quiet, pc' \notin {"enum", "fill"} \/ pc' = pc
  PROVE  IInv'
  <1>1. Shape'
    BY DEF IInv, Quiet, Shape
  <1>2. CleanInv'
    BY DEF IInv, Quiet, CleanInv, Clean
  <1> QED BY <1>1, <1>2 DEF IInv

(* The end of the process forgets its memory and leaves the files.         *)
LEMMA ForgetIInv ==
  ASSUME IInv, Forget, UNCHANGED disk, pc' \in {"down", "open"}
  PROVE  IInv'
  <1>1. ckpt' = ckpt /\ tmp' = tmp
    BY DEF disk
  <1>2. Shape'
    BY <1>1, Empty DEF IInv, Forget, Shape
  <1>3. CleanInv'
    BY <1>1, Empty DEF IInv, Forget, CleanInv
  <1> QED BY <1>2, <1>3 DEF IInv

(* The steps of checkpoint_restore.                                        *)
LEMMA RestoreIInv == IInv /\ Restore => IInv'
  <1> SUFFICES ASSUME IInv, Restore PROVE IInv'
    OBVIOUS
  <1> USE DEF disk
  <1>1. CASE RestoreOpen
    BY <1>1, QuietIInv DEF RestoreOpen, Quiet
  <1>2. CASE RestoreRead
    BY <1>2 DEF RestoreRead, IInv, Shape, CleanInv
  <1>3. CASE RestoreUnlink
    <2>1. Shape'
      BY <1>3, Empty DEF RestoreUnlink, IInv, Shape
    <2>2. CleanInv'
      BY <1>3, Empty DEF RestoreUnlink, IInv, CleanInv
    <2> QED BY <2>1, <2>2 DEF IInv
  <1>4. CASE RestoreParse
    <2>1. buf' \in Files /\ pc' \in {"build", "serve"}
      BY <1>4, Empty DEF RestoreParse, IInv, Shape
    <2>2. Shape'
      BY <1>4, <2>1 DEF RestoreParse, IInv, Shape
    <2>3. CleanInv'
      BY <1>4 DEF RestoreParse, IInv, CleanInv
    <2> QED BY <2>2, <2>3 DEF IInv
  <1>5. CASE RestoreSession
    <2>1. CleanInv'
      BY <1>5 DEF RestoreSession, IInv, CleanInv
    <2>2. CASE Len(sessions) < Len(buf.rows)
      <3> DEFINE id == buf.rows[Len(sessions) + 1].id
      <3>0. buf.rows \in Seq(Rows) /\ sessions \in Seq(Rows)
        BY DEF IInv, Shape, Files
      <3>1. Len(sessions) + 1 \in 1..Len(buf.rows)
        BY <2>2, <3>0
      <3>2. buf.rows[Len(sessions) + 1] \in Rows
        BY <3>0, <3>1
      <3>3. id \in Ids
        BY <3>2 DEF Rows
      <3>4. /\ sessions' = Append(sessions, [id |-> id, store |-> <<>>])
            /\ buf' = buf
            /\ pc' = "fill"
            /\ idx' = 0
        BY <1>5, <2>2 DEF RestoreSession
      <3>5. sessions' \in Seq(Rows) /\ Len(sessions') = Len(sessions) + 1
        <4> HIDE DEF id
        <4> QED BY <3>0, <3>3, <3>4, RowAdded
      <3>6. Shape'
        BY <1>5, <3>1, <3>4, <3>5 DEF RestoreSession, IInv, Shape
      <3> QED BY <2>1, <3>6 DEF IInv
    <2>3. CASE ~(Len(sessions) < Len(buf.rows))
      <3>1. Shape'
        BY <1>5, <2>3, Empty DEF RestoreSession, IInv, Shape
      <3> QED BY <2>1, <3>1 DEF IInv
    <2> QED BY <2>2, <2>3
  <1>6. CASE RestoreKey
    <2> DEFINE n == Len(sessions)
    <2>0. /\ buf.rows \in Seq(Rows) /\ sessions \in Seq(Rows)
          /\ n \in 1..Len(buf.rows) /\ n \in 1..Len(sessions)
          /\ buf.rows[n] \in Rows /\ sessions[n] \in Rows
          /\ buf' = buf
      BY <1>6 DEF RestoreKey, IInv, Shape, Files
    <2>1. CleanInv'
      BY <1>6 DEF RestoreKey, IInv, CleanInv
    <2>2. sessions' \in Seq(Rows) /\ Len(sessions') = Len(sessions)
      <3>1. CASE sessions' = sessions
        BY <3>1, <2>0
      <3>2. CASE sessions' # sessions
        <4> DEFINE key == buf.rows[n].store[idx + 1]
                   s == <<key>> \o sessions[n].store
        <4>1. idx < Len(buf.rows[n].store) /\ sessions' = [sessions EXCEPT ![n].store = s]
          BY <1>6, <3>2 DEF RestoreKey
        <4>2. key \in Keys
          <5>1. buf.rows[n].store \in Seq(Keys) /\ idx \in Nat
            BY <2>0 DEF Rows, IInv, Shape
          <5> QED BY <5>1, <4>1
        <4>3. s \in Seq(Keys)
          <5>1. sessions[n].store \in Seq(Keys)
            BY <2>0 DEF Rows
          <5> HIDE DEF key
          <5> QED BY <5>1, <4>2
        <4> HIDE DEF s
        <4> QED BY <2>0, <4>1, <4>3, StoreReplaced
      <3> QED BY <3>1, <3>2
    <2>3. Shape'
      BY <1>6, <2>0, <2>2 DEF RestoreKey, IInv, Shape
    <2> QED BY <2>1, <2>3 DEF IInv
  <1> QED BY <1>1, <1>2, <1>3, <1>4, <1>5, <1>6 DEF Restore

(* The steps of client threads that grow the tables.                       *)
LEMMA ClientIInv ==
  ASSUME IInv,
         \/ \E id \in Ids : session_create(id)
         \/ \E i \in 1..Cardinality(Ids), key \in Keys : store_subscribe(i, key)
  PROVE  IInv'
  <1> USE DEF disk
  <1>1. ASSUME NEW id \in Ids, session_create(id) PROVE IInv'
    <2>1. sessions' \in Seq(Rows)
      BY <1>1, RowAdded DEF session_create, IInv, Shape
    <2>2. Shape'
      BY <1>1, <2>1 DEF session_create, IInv, Shape
    <2>3. CleanInv'
      BY <1>1 DEF session_create, IInv, CleanInv
    <2> QED BY <2>2, <2>3 DEF IInv
  <1>2. ASSUME NEW i, NEW key \in Keys, store_subscribe(i, key) PROVE IInv'
    <2> DEFINE s == <<key>> \o sessions[i].store
    <2>0. i \in 1..Len(sessions) /\ sessions \in Seq(Rows) /\ sessions[i] \in Rows
      BY <1>2 DEF store_subscribe, IInv, Shape
    <2>1. s \in Seq(Keys)
      <3>1. sessions[i].store \in Seq(Keys)
        BY <2>0 DEF Rows
      <3> QED BY <3>1
    <2>2. sessions' = [sessions EXCEPT ![i].store = s]
      BY <1>2 DEF store_subscribe
    <2>3. sessions' \in Seq(Rows) /\ Len(sessions') = Len(sessions)
      <3> HIDE DEF s
      <3> QED BY <2>0, <2>1, <2>2, StoreReplaced
    <2>4. Shape'
      BY <1>2, <2>3 DEF store_subscribe, Serving, IInv, Shape
    <2>5. CleanInv'
      BY <1>2 DEF store_subscribe, IInv, CleanInv
    <2> QED BY <2>4, <2>5 DEF IInv
  <1> QED BY <1>1, <1>2

(* The steps of checkpoint_save.                                           *)
LEMMA SaveIInv ==
  ASSUME IInv, Save \/ \E last \in BOOLEAN : SaveSkip(last) \/ SaveOpen(last)
  PROVE  IInv'
  <1> USE DEF disk
  <1>1. ASSUME NEW last \in BOOLEAN, SaveSkip(last) PROVE IInv'
    <2>1. CASE last
      BY <1>1, <2>1, ForgetIInv DEF SaveSkip, Quit
    <2>2. CASE ~last
      BY <1>1, <2>2, QuietIInv DEF SaveSkip, Quiet
    <2> QED BY <2>1, <2>2
  <1>2. ASSUME NEW last \in BOOLEAN, SaveOpen(last) PROVE IInv'
    <2>1. tmp' \in Files /\ tmp'.rows = <<>>
      BY <1>2, Empty DEF SaveOpen, Files
    <2>2. Shape'
      BY <1>2, <2>1, Empty DEF SaveOpen, IInv, Shape
    <2>3. CleanInv'
      BY <1>2, <2>1, Empty DEF SaveOpen, IInv, CleanInv
    <2> QED BY <2>2, <2>3 DEF IInv
  <1>3. CASE SaveSession
    <2>1. CASE Len(out) < Len(sessions)
      <3> DEFINE id == sessions[Len(out) + 1].id
      <3>0. sessions \in Seq(Rows) /\ out \in Seq(Rows) /\ Clean(out)
        BY DEF IInv, Shape, CleanInv
      <3>1. Len(out) + 1 \in 1..Len(sessions)
        BY <2>1, <3>0
      <3>2. sessions[Len(out) + 1] \in Rows
        BY <3>0, <3>1
      <3>3. id \in Ids
        BY <3>2 DEF Rows
      <3>4. out' = Append(out, [id |-> id, store |-> <<>>]) /\ pc' = "enum" /\ idx' = 0
        BY <1>3, <2>1 DEF SaveSession
      <3>5. out' \in Seq(Rows) /\ Len(out') = Len(out) + 1 /\ Clean(out')
        <4> HIDE DEF id
        <4> QED BY <3>0, <3>3, <3>4, RowAdded
      <3>6. Shape'
        BY <1>3, <3>1, <3>4, <3>5 DEF SaveSession, IInv, Shape
      <3>7. CleanInv'
        BY <1>3, <3>5 DEF SaveSession, IInv, CleanInv
      <3> QED BY <3>6, <3>7 DEF IInv
    <2>2. CASE ~(Len(out) < Len(sessions))
      BY <1>3, <2>2, QuietIInv DEF SaveSession, Quiet
    <2> QED BY <2>1, <2>2
  <1>4. CASE SaveKey
    <2> DEFINE n == Len(out)
               key == sessions[n].store[idx + 1]
    <2>0. /\ out \in Seq(Rows) /\ sessions \in Seq(Rows) /\ Clean(out)
          /\ n \in 1..Len(out) /\ n \in 1..Len(sessions)
          /\ sessions[n] \in Rows
          /\ idx \in Nat
      BY <1>4 DEF SaveKey, IInv, Shape, CleanInv
    <2>1. out' \in Seq(Rows) /\ Len(out') = Len(out) /\ Clean(out')
      <3>1. CASE out' = out
        BY <3>1, <2>0
      <3>2. CASE out' # out
        <4>1. /\ idx < Len(sessions[n].store)
              /\ key \notin Sensitive
              /\ out' = [out EXCEPT ![n].store = Append(out[n].store, key)]
          BY <1>4, <3>2 DEF SaveKey, is_sensitive_key
        <4>2. key \in Keys \ Sensitive
          <5>1. sessions[n].store \in Seq(Keys)
            BY <2>0 DEF Rows
          <5> QED BY <5>1, <4>1, <2>0
        <4> HIDE DEF key
        <4> QED BY <2>0, <4>1, <4>2, KeyAdded
      <3> QED BY <3>1, <3>2
    <2>2. Shape'
      BY <1>4, <2>0, <2>1 DEF SaveKey, IInv, Shape
    <2>3. CleanInv'
      BY <1>4, <2>1 DEF SaveKey, IInv, CleanInv
    <2> QED BY <2>2, <2>3 DEF IInv
  <1>5. CASE SaveWrite
    <2>1. PICK whole \in BOOLEAN :
            tmp' = [rows |-> IF whole THEN out ELSE <<>>, whole |-> whole, exists |-> TRUE]
      BY <1>5, LifecycleAssumption DEF SaveWrite
    <2>2. (IF whole THEN out ELSE <<>>) \in Seq(Rows) /\ Clean(IF whole THEN out ELSE <<>>)
      BY Empty DEF IInv, Shape, CleanInv
    <2>3. tmp' \in Files /\ Clean(tmp'.rows)
      BY <2>1, <2>2 DEF Files
    <2>4. Shape'
      BY <1>5, <2>3 DEF SaveWrite, IInv, Shape
    <2>5. CleanInv'
      BY <1>5, <2>3 DEF SaveWrite, IInv, CleanInv
    <2> QED BY <2>4, <2>5 DEF IInv
  <1>6. CASE SaveRename
    <2>1. /\ ckpt' = tmp /\ tmp' = NoFile /\ out' = <<>> /\ idx' = 0
          /\ pc' \in {"down", "serve"}
          /\ sessions' \in {sessions, <<>>} /\ buf' \in {buf, NoFile}
      BY <1>6 DEF SaveRename, Quit, Forget
    <2>2. Shape'
      BY <2>1, Empty DEF IInv, Shape
    <2>3. CleanInv'
      BY <2>1, Empty DEF IInv, CleanInv
    <2> QED BY <2>2, <2>3 DEF IInv
  <1> QED BY <1>1, <1>2, <1>3, <1>4, <1>5, <1>6 DEF Save

(* Every step preserves the invariant.                                     *)
LEMMA NextIInv == IInv /\ [Next]_vars => IInv'
  <1> SUFFICES ASSUME IInv, [Next]_vars PROVE IInv'
    OBVIOUS
  <1> USE DEF disk
  <1>1. CASE Start
    BY <1>1, QuietIInv DEF Start, Quiet
  <1>2. ASSUME NEW c \in Conns, Connect(c) \/ Finish(c) PROVE IInv'
    BY <1>2, QuietIInv DEF Connect, Finish, Quiet
  <1>3. CASE Crash
    BY <1>3, ForgetIInv DEF Crash, Quit
  <1>4. CASE HupSent
    BY <1>4, QuietIInv DEF HupSent, Quiet
  <1>5. CASE HupExec
    BY <1>5, ForgetIInv DEF HupExec
  <1>6. CASE UNCHANGED vars
    BY <1>6, QuietIInv DEF vars, Quiet
  <1> QED BY <1>1, <1>2, <1>3, <1>4, <1>5, <1>6, RestoreIInv, ClientIInv, SaveIInv DEF Next

(* No sensitive key ever reaches the checkpoint file or the temporary file *)
(* (checkpoint.c), whatever crashes, signals and subscriptions interleave. *)
THEOREM SensitiveKeysStayInMemory == Spec => []NoSensitiveOnDisk
  <1>1. IInv => NoSensitiveOnDisk
    <2> SUFFICES ASSUME IInv PROVE NoSensitiveOnDisk
      OBVIOUS
    <2>1. ckpt.rows \in Seq(Rows) /\ tmp.rows \in Seq(Rows)
      BY DEF IInv, Shape, Files
    <2>2. \A f \in Facts(ckpt.rows) : f.keys \cap Sensitive = {}
      BY <2>1, CleanFacts DEF IInv, CleanInv
    <2>3. \A f \in Facts(tmp.rows) : f.keys \cap Sensitive = {}
      BY <2>1, CleanFacts DEF IInv, CleanInv
    <2> QED BY <2>2, <2>3 DEF NoSensitiveOnDisk
  <1> QED BY <1>1, InitIInv, NextIInv, PTL DEF Spec

-----------------------------------------------------------------------------
(* A temporary file that is about to be renamed is complete, and so is the *)
(* checkpoint.                                                             *)
WholeInv == (pc = "rename" => tmp.whole) /\ CheckpointWhole

(* Every step preserves it, provided that writes do not fall short.        *)
LEMMA NextWhole ==
  ASSUME ~DiskFull
  PROVE  WholeInv /\ [Next]_vars => WholeInv'
  <1> SUFFICES ASSUME WholeInv, [Next]_vars PROVE WholeInv'
    OBVIOUS
  <1> USE DEF WholeInv, CheckpointWhole, disk
  <1>1. CASE SaveWrite
    <2>1. PICK whole \in BOOLEAN :
            /\ whole \/ DiskFull
            /\ tmp' = [rows |-> IF whole THEN out ELSE <<>>, whole |-> whole, exists |-> TRUE]
      BY <1>1 DEF SaveWrite
    <2>2. tmp'.whole
      BY <2>1
    <2> QED BY <1>1, <2>2 DEF SaveWrite
  <1>2. CASE SaveRename
    BY <1>2 DEF SaveRename, Quit
  <1>3. CASE Restore
    BY <1>3 DEF Restore, RestoreOpen, RestoreRead, RestoreUnlink, RestoreParse,
                RestoreSession, RestoreKey, NoFile
  <1>4. CASE SaveSession \/ SaveKey
    BY <1>4 DEF SaveSession, SaveKey
  <1>5. ASSUME NEW last \in BOOLEAN, SaveSkip(last) \/ SaveOpen(last) PROVE WholeInv'
    BY <1>5 DEF SaveSkip, SaveOpen, Quit
  <1>6. ASSUME NEW c \in Conns, Connect(c) \/ Finish(c) PROVE WholeInv'
    BY <1>6 DEF Connect, Finish
  <1>7. CASE \E id \in Ids : session_create(id)
    BY <1>7 DEF session_create
  <1>8. CASE \E i \in 1..Cardinality(Ids), key \in Keys : store_subscribe(i, key)
    BY <1>8 DEF store_subscribe
  <1>9. CASE Start \/ Crash \/ HupSent \/ HupExec
    BY <1>9 DEF Start, Crash, HupSent, HupExec, Quit
  <1>10. CASE UNCHANGED vars
    BY <1>10 DEF vars
  <1> QED BY <1>1, <1>2, <1>3, <1>4, <1>5, <1>6, <1>7, <1>8, <1>9, <1>10 DEF Next, Save

(* Then checkpoint.json is complete whenever it exists: what               *)
(* checkpoint_save renames it has closed, and no other step writes the     *)
(* file.                                                                   *)
THEOREM CheckpointNeverTorn ==
  ASSUME ~DiskFull
  PROVE  Spec => []CheckpointWhole
  <1>1. Init => WholeInv
    BY DEF Init, WholeInv, CheckpointWhole, NoFile
  <1>2. WholeInv => CheckpointWhole
    BY DEF WholeInv
  <1> QED BY <1>1, <1>2, NextWhole, PTL DEF Spec

-----------------------------------------------------------------------------
(* The facts of a table one by one: position 0 of a row is its id, the     *)
(* others are the keys of its store.                                       *)
Fact(rows, i, j) ==
  [id |-> rows[i].id, keys |-> IF j = 0 THEN {} ELSE {rows[i].store[j]}]

(* f is stated by src after position k of row n.                           *)
Ahead(f, src, n, k) ==
  \E i \in 1..Len(src) : \E j \in 0..Len(src[i].store) :
    /\ f = Fact(src, i, j)
    /\ i > n \/ (i = n /\ j > k)

(* Row for row the copy belongs to the same session.                       *)
SameIds(copy, src) ==
  /\ Len(copy) <= Len(src)
  /\ \A i \in 1..Len(copy) : copy[i].id = src[i].id

(* checkpoint_save: what is due is in the document or ahead of its loops.  *)
Copying == pc \in {"session", "enum"}

ToSave(f) ==
  IF pc = "enum" THEN Ahead(f, sessions, Len(out), idx) ELSE Ahead(f, sessions, Len(out) + 1, -1)

SaveInv ==
  /\ Copying => /\ SameIds(out, sessions)
                /\ \A f \in due : /\ f.keys \cap Sensitive = {}
                                  /\ f \in Facts(out) \/ ToSave(f)
  /\ pc = "write" => due \subseteq Facts(out)
  /\ pc = "rename" => due \subseteq Facts(tmp.rows) /\ tmp.exists
  /\ CheckpointComplete

(* checkpoint_restore at the first boot after a checkpoint: what was saved *)
(* is in the file, then in the buffer, then in the table or ahead.         *)
FirstBoot == home /\ boots = 1
Building == pc \in {"build", "fill"}

ToRestore(f) ==
  IF pc = "fill" THEN Ahead(f, buf.rows, Len(sessions), idx)
                 ELSE Ahead(f, buf.rows, Len(sessions) + 1, -1)

RestoreInv ==
  /\ boots \in Nat
  /\ pc \in {"down", "open", "read", "unlink", "parse"} => sessions = <<>>
  /\ pc = "read" => ckpt.exists
  /\ ~ckpt.exists => ckpt.rows = <<>>
  /\ Building => SameIds(sessions, buf.rows)
  /\ boots = 0 => pc \in {"down", "serve", "session", "enum", "write", "rename"}
  /\ boots = 0 \/ (FirstBoot /\ pc \in {"open", "read"}) => saved \subseteq Facts(ckpt.rows)
  /\ FirstBoot /\ pc \in {"unlink", "parse"} => buf.whole /\ saved \subseteq Facts(buf.rows)
  /\ FirstBoot /\ Building =>
       \A f \in saved : f \in Facts(sessions) \/ ToRestore(f)
  /\ RestoredOnce

-----------------------------------------------------------------------------
(* A table states exactly the facts of its positions.                      *)
LEMMA FactsAt ==
  ASSUME NEW rows \in Seq(Rows)
  PROVE  \A f : f \in Facts(rows) <=>
               \E i \in 1..Len(rows) : \E j \in 0..Len(rows[i].store) : f = Fact(rows, i, j)
  <1>0. /\ DOMAIN rows = 1..Len(rows)
        /\ \A i \in 1..Len(rows) : /\ rows[i].store \in Seq(Keys)
                                   /\ DOMAIN rows[i].store = 1..Len(rows[i].store)
                                   /\ Len(rows[i].store) \in Nat
    <2>1. \A i \in 1..Len(rows) : rows[i] \in Rows
      OBVIOUS
    <2>2. \A i \in 1..Len(rows) : rows[i].store \in Seq(Keys)
      BY <2>1 DEF Rows
    <2> QED BY <2>2
  <1>1. ASSUME NEW i \in 1..Len(rows), NEW j \in 0..Len(rows[i].store)
        PROVE  Fact(rows, i, j) \in Facts(rows)
    <2>1. CASE j = 0
      BY <1>0, <2>1 DEF Fact, Facts
    <2>2. CASE j # 0
      <3>1. j \in DOMAIN rows[i].store
        BY <1>0, <2>2
      <3>2. Fact(rows, i, j) = [id |-> rows[i].id, keys |-> {rows[i].store[j]}]
        BY <2>2 DEF Fact
      <3> DEFINE keyfacts(k) == {[id |-> rows[k].id, keys |-> {rows[k].store[m]}] :
                                   m \in DOMAIN rows[k].store}
      <3>3. Fact(rows, i, j) \in keyfacts(i)
        BY <3>1, <3>2
      <3>4. keyfacts(i) \in {keyfacts(k) : k \in DOMAIN rows}
        BY <1>0
      <3>5. Fact(rows, i, j) \in UNION {keyfacts(k) : k \in DOMAIN rows}
        BY <3>3, <3>4
      <3> QED BY <3>5 DEF Facts
    <2> QED BY <2>1, <2>2
  <1>2. ASSUME NEW f, f \in Facts(rows)
        PROVE  \E i \in 1..Len(rows) : \E j \in 0..Len(rows[i].store) : f = Fact(rows, i, j)
    <2>1. CASE f \in {[id |-> rows[i].id, keys |-> {}] : i \in DOMAIN rows}
      <3>1. PICK i \in DOMAIN rows : f = [id |-> rows[i].id, keys |-> {}]
        BY <2>1
      <3>2. i \in 1..Len(rows) /\ 0 \in 0..Len(rows[i].store) /\ f = Fact(rows, i, 0)
        BY <1>0, <3>1 DEF Fact
      <3> QED BY <3>2
    <2>2. CASE f \in UNION {{[id |-> rows[i].id, keys |-> {rows[i].store[j]}] :
                               j \in DOMAIN rows[i].store} : i \in DOMAIN rows}
      <3>1. PICK i \in DOMAIN rows :
              f \in {[id |-> rows[i].id, keys |-> {rows[i].store[j]}] : j \in DOMAIN rows[i].store}
        BY <2>2
      <3>2. PICK j \in DOMAIN rows[i].store :
              f = [id |-> rows[i].id, keys |-> {rows[i].store[j]}]
        BY <3>1
      <3>3. /\ i \in 1..Len(rows) /\ j \in 1..Len(rows[i].store)
            /\ j \in 0..Len(rows[i].store) /\ j # 0
        BY <1>0, <3>1, <3>2
      <3>4. f = Fact(rows, i, j)
        BY <3>2, <3>3 DEF Fact
      <3> QED BY <3>3, <3>4
    <2> QED BY <1>2, <2>1, <2>2 DEF Facts
  <1> QED BY <1>1, <1>2

(* A new row states its session and takes nothing away.                    *)
LEMMA RowFacts ==
  ASSUME NEW rows \in Seq(Rows), NEW id \in Ids
  PROVE  LET new == Append(rows, [id |-> id, store |-> <<>>]) IN
         /\ Facts(rows) \subseteq Facts(new)
         /\ [id |-> id, keys |-> {}] \in Facts(new)
         /\ new[Len(rows) + 1].id = id
         /\ \A i \in 1..Len(rows) : new[i] = rows[i]
  <1> DEFINE row == [id |-> id, store |-> <<>>]
             new == Append(rows, row)
  <1>0. new \in Seq(Rows) /\ Len(new) = Len(rows) + 1 /\ Len(rows) \in Nat
    BY RowAdded
  <1>1. new[Len(rows) + 1] = row /\ \A i \in 1..Len(rows) : new[i] = rows[i]
    OBVIOUS
  <1> HIDE DEF new
  <1>2. ASSUME NEW f \in Facts(rows) PROVE f \in Facts(new)
    <2>1. PICK i \in 1..Len(rows) : \E j \in 0..Len(rows[i].store) : f = Fact(rows, i, j)
      BY <1>2, FactsAt
    <2>2. PICK j \in 0..Len(rows[i].store) : f = Fact(rows, i, j)
      BY <2>1
    <2>3. i \in 1..Len(new) /\ new[i] = rows[i]
      BY <1>0, <1>1
    <2>4. f = Fact(new, i, j) /\ j \in 0..Len(new[i].store)
      BY <2>2, <2>3 DEF Fact
    <2> QED BY <1>0, <2>3, <2>4, FactsAt
  <1>3. [id |-> id, keys |-> {}] \in Facts(new)
    <2>1. /\ Len(rows) + 1 \in 1..Len(new)
          /\ 0 \in 0..Len(new[Len(rows) + 1].store)
          /\ Fact(new, Len(rows) + 1, 0) = [id |-> id, keys |-> {}]
      BY <1>0, <1>1 DEF Fact
    <2> QED BY <1>0, <2>1, FactsAt
  <1>4. new[Len(rows) + 1].id = id
    BY <1>1
  <1> QED BY <1>1, <1>2, <1>3, <1>4 DEF new

(* A longer store states all that the old one did, and its new key.        *)
LEMMA StoreFacts ==
  ASSUME NEW rows \in Seq(Rows), NEW new \in Seq(Rows), NEW n \in 1..Len(rows),
         Len(new) = Len(rows), new[n].id = rows[n].id,
         \A i \in 1..Len(rows) : i # n => new[i] = rows[i],
         \A j \in 1..Len(rows[n].store) :
           \E m \in 1..Len(new[n].store) : new[n].store[m] = rows[n].store[j]
  PROVE  /\ Facts(rows) \subseteq Facts(new)
         /\ \A j \in 1..Len(new[n].store) :
              [id |-> rows[n].id, keys |-> {new[n].store[j]}] \in Facts(new)
  <1>a. /\ Len(new[n].store) \in Nat
        /\ Len(rows[n].store) \in Nat
    <2>1. rows[n] \in Rows /\ new[n] \in Rows
      OBVIOUS
    <2>2. rows[n].store \in Seq(Keys) /\ new[n].store \in Seq(Keys)
      BY <2>1 DEF Rows
    <2> QED BY <2>2
  <1>1. ASSUME NEW j \in 1..Len(new[n].store)
        PROVE  [id |-> rows[n].id, keys |-> {new[n].store[j]}] \in Facts(new)
    <2>1. j \in 0..Len(new[n].store) /\ j # 0
      BY <1>a
    <2>2. Fact(new, n, j) = [id |-> rows[n].id, keys |-> {new[n].store[j]}]
      BY <2>1 DEF Fact
    <2>3. n \in 1..Len(new)
      OBVIOUS
    <2> QED BY <2>1, <2>2, <2>3, FactsAt
  <1>2. ASSUME NEW f \in Facts(rows) PROVE f \in Facts(new)
    <2>1. PICK i \in 1..Len(rows) : \E j \in 0..Len(rows[i].store) : f = Fact(rows, i, j)
      BY <1>2, FactsAt
    <2>2. PICK j \in 0..Len(rows[i].store) : f = Fact(rows, i, j)
      BY <2>1
    <2>3. CASE i # n
      <3>1. new[i] = rows[i] /\ i \in 1..Len(new)
        BY <2>3
      <3>2. f = Fact(new, i, j)
        BY <2>2, <3>1 DEF Fact
      <3>3. j \in 0..Len(new[i].store)
        BY <3>1
      <3> QED BY <3>1, <3>2, <3>3, FactsAt
    <2>4. CASE i = n /\ j = 0
      <3>1. f = Fact(new, n, 0)
        BY <2>2, <2>4 DEF Fact
      <3>2. n \in 1..Len(new) /\ 0 \in 0..Len(new[n].store)
        BY <1>a
      <3> QED BY <3>1, <3>2, FactsAt
    <2>5. CASE i = n /\ j # 0
      <3>1. j \in 1..Len(rows[n].store) /\ f = [id |-> rows[n].id, keys |-> {rows[n].store[j]}]
        BY <1>a, <2>2, <2>5 DEF Fact
      <3>2. PICK m \in 1..Len(new[n].store) : new[n].store[m] = rows[n].store[j]
        BY <3>1
      <3> QED BY <3>1, <3>2, <1>1
    <2> QED BY <2>3, <2>4, <2>5
  <1> QED BY <1>1, <1>2

(* A key linked in front of a store leaves ahead what was ahead: positions *)
(* only move away from the loop's index.                                   *)
LEMMA AheadKept ==
  ASSUME NEW rows \in Seq(Rows), NEW n \in 1..Len(rows), NEW key \in Keys,
         NEW f, NEW m \in Nat, NEW k \in Int, Ahead(f, rows, m, k)
  PROVE  Ahead(f, [rows EXCEPT ![n].store = <<key>> \o rows[n].store], m, k)
  <1> DEFINE s == rows[n].store
             t == <<key>> \o s
             new == [rows EXCEPT ![n].store = t]
  <1> SUFFICES Ahead(f, new, m, k)
    OBVIOUS
  <1>0. rows[n] \in Rows
    OBVIOUS
  <1>1. s \in Seq(Keys)
    BY <1>0 DEF Rows
  <1>2. /\ t \in Seq(Keys)
        /\ Len(t) = Len(s) + 1
        /\ Len(s) \in Nat
        /\ \A j \in 1..Len(s) : t[j + 1] = s[j]
    BY <1>1
  <1> HIDE DEF s, t
  <1>3. /\ Len(new) = Len(rows)
        /\ new[n].store = t
        /\ \A i \in 1..Len(rows) : i # n => new[i] = rows[i]
    BY <1>2, StoreReplaced
  <1>4. new[n].id = rows[n].id
    BY <1>0 DEF Rows
  <1> HIDE DEF new
  <1>5. PICK i \in 1..Len(rows) : \E j \in 0..Len(rows[i].store) :
               f = Fact(rows, i, j) /\ (i > m \/ (i = m /\ j > k))
    BY DEF Ahead
  <1>6. PICK j \in 0..Len(rows[i].store) :
               f = Fact(rows, i, j) /\ (i > m \/ (i = m /\ j > k))
    BY <1>5
  <1>7. CASE i # n
    <2>1. new[i] = rows[i] /\ i \in 1..Len(new)
      BY <1>3, <1>7
    <2>2. f = Fact(new, i, j) /\ j \in 0..Len(new[i].store)
      BY <1>6, <2>1 DEF Fact
    <2> QED BY <1>6, <2>1, <2>2 DEF Ahead
  <1>8. CASE i = n /\ j = 0
    <2>1. f = Fact(new, n, 0)
      BY <1>4, <1>6, <1>8 DEF Fact
    <2>2. n \in 1..Len(new) /\ 0 \in 0..Len(new[n].store)
      BY <1>2, <1>3
    <2> QED BY <1>6, <1>8, <2>1, <2>2 DEF Ahead
  <1>9. CASE i = n /\ j # 0
    <2>1. j \in 1..Len(s) /\ t[j + 1] = s[j] /\ j + 1 # 0 /\ j + 1 \in 0..Len(t)
      BY <1>2, <1>6, <1>9 DEF s
    <2>2. f = [id |-> rows[n].id, keys |-> {s[j]}]
      BY <1>6, <1>9 DEF Fact, s
    <2>3. f = Fact(new, n, j + 1)
      BY <1>3, <1>4, <2>1, <2>2 DEF Fact
    <2>4. n \in 1..Len(new) /\ j + 1 \in 0..Len(new[n].store)
      BY <1>3, <2>1
    <2>5. n > m \/ (n = m /\ j + 1 > k)
      BY <1>6, <1>9, <2>1
    <2> QED BY <2>3, <2>4, <2>5 DEF Ahead
  <1> QED BY <1>7, <1>8, <1>9

(* One turn of a loop over src that copies the ids: the next row is begun. *)
LEMMA AheadRow ==
  ASSUME NEW src \in Seq(Rows), NEW n \in 1..Len(src), NEW f, Ahead(f, src, n, -1)
  PROVE  f = [id |-> src[n].id, keys |-> {}] \/ Ahead(f, src, n, 0)
  <1>1. PICK i \in 1..Len(src) : \E j \in 0..Len(src[i].store) :
               f = Fact(src, i, j) /\ (i > n \/ (i = n /\ j > -1))
    BY DEF Ahead
  <1>2. PICK j \in 0..Len(src[i].store) : f = Fact(src, i, j) /\ (i > n \/ (i = n /\ j > -1))
    BY <1>1
  <1>3. CASE i = n /\ j = 0
    BY <1>2, <1>3 DEF Fact
  <1>4. CASE i > n \/ (i = n /\ j > 0)
    BY <1>2, <1>4 DEF Ahead
  <1> QED BY <1>2, <1>3, <1>4

(* The same for the loop over the keys of a row: one key is handled.       *)
LEMMA AheadKey ==
  ASSUME NEW src \in Seq(Rows), NEW n \in 1..Len(src), NEW k \in Nat, NEW f, Ahead(f, src, n, k)
  PROVE  f = [id |-> src[n].id, keys |-> {src[n].store[k + 1]}] \/ Ahead(f, src, n, k + 1)
  <1>1. PICK i \in 1..Len(src) : \E j \in 0..Len(src[i].store) :
               f = Fact(src, i, j) /\ (i > n \/ (i = n /\ j > k))
    BY DEF Ahead
  <1>2. PICK j \in 0..Len(src[i].store) : f = Fact(src, i, j) /\ (i > n \/ (i = n /\ j > k))
    BY <1>1
  <1>3. CASE i = n /\ j = k + 1
    <2>1. j # 0
      BY <1>3
    <2> QED BY <1>2, <1>3, <2>1 DEF Fact
  <1>4. CASE i > n \/ (i = n /\ j > k + 1)
    BY <1>2, <1>4 DEF Ahead
  <1> QED BY <1>2, <1>3, <1>4

(* At the end of a row only the later rows are left, at the end of the     *)
(* table nothing.                                                          *)
LEMMA AheadDone ==
  ASSUME NEW src \in Seq(Rows), NEW n \in Nat, NEW k \in Int, NEW f, Ahead(f, src, n, k)
  PROVE  /\ n <= Len(src)
         /\ n \in 1..Len(src) /\ k >= Len(src[n].store) => Ahead(f, src, n + 1, -1)
  <1>1. PICK i \in 1..Len(src) : \E j \in 0..Len(src[i].store) :
               f = Fact(src, i, j) /\ (i > n \/ (i = n /\ j > k))
    BY DEF Ahead
  <1>2. PICK j \in 0..Len(src[i].store) : f = Fact(src, i, j) /\ (i > n \/ (i = n /\ j > k))
    BY <1>1
  <1>3. ASSUME n \in 1..Len(src), k >= Len(src[n].store) PROVE Ahead(f, src, n + 1, -1)
    <2>1. src[n] \in Rows
      BY <1>3
    <2>2. src[n].store \in Seq(Keys)
      BY <2>1 DEF Rows
    <2>3. Len(src[n].store) \in Nat
      BY <2>2
    <2>4. i > n + 1 \/ (i = n + 1 /\ j > -1)
      BY <1>2, <1>3, <2>3
    <2> QED BY <1>2, <2>4 DEF Ahead
  <1> QED BY <1>2, <1>3

-----------------------------------------------------------------------------
(* A step outside checkpoint_save that leaves the file and its promise.    *)
LEMMA SaveIdle ==
  ASSUME SaveInv, ckpt' = ckpt, saved' = saved,
         pc' \notin {"session", "enum", "write", "rename"}
  PROVE  SaveInv'
  BY DEF SaveInv, Copying, CheckpointComplete

(* A step that leaves everything checkpoint_save works on.                 *)
LEMMA SaveSame ==
  ASSUME SaveInv, ckpt' = ckpt, saved' = saved, pc' = pc, due' = due,
         sessions' = sessions, out' = out, idx' = idx, tmp' = tmp
  PROVE  SaveInv'
  BY DEF SaveInv, Copying, CheckpointComplete, SameIds, ToSave, Ahead, Fact, Facts

(* Client threads that subscribe while the table is being saved.           *)
LEMMA SaveSubscribe ==
  ASSUME IInv, IInv', SaveInv, NEW i, NEW key \in Keys, store_subscribe(i, key)
  PROVE  SaveInv'
  <1> DEFINE s == <<key>> \o sessions[i].store
  <1>0. /\ i \in 1..Len(sessions) /\ sessions \in Seq(Rows)
        /\ sessions' = [sessions EXCEPT ![i].store = s]
        /\ idx \in Nat /\ out \in Seq(Rows) /\ Len(out) \in Nat
        /\ UNCHANGED <<pc, out, idx, ckpt, tmp, due, saved>>
    BY DEF store_subscribe, IInv, Shape, disk, history
  <1>1. Len(sessions') = Len(sessions) /\ \A n \in 1..Len(sessions) : sessions'[n].id = sessions[n].id
    <2>0. sessions[i] \in Rows
      BY <1>0
    <2>1. sessions[i].store \in Seq(Keys)
      BY <2>0 DEF Rows
    <2>2. s \in Seq(Keys)
      BY <2>1
    <2>3. Len(sessions') = Len(sessions) /\ \A n \in 1..Len(sessions) : n # i => sessions'[n] = sessions[n]
      <3> HIDE DEF s
      <3> QED BY <1>0, <2>2, StoreReplaced
    <2>4. sessions'[i].id = sessions[i].id
      <3> HIDE DEF s
      <3> QED BY <1>0, <2>0 DEF Rows
    <2> QED BY <2>3, <2>4
  <1>2. ASSUME NEW f, NEW m \in Nat, NEW k \in Int, Ahead(f, sessions, m, k)
        PROVE  Ahead(f, sessions', m, k)
    BY <1>0, <1>2, AheadKept
  <1> HIDE DEF s
  <1>u. UNCHANGED <<pc, out, idx, ckpt, tmp, due, saved>>
    BY <1>0
  <1>n. /\ Len(out) \in Nat /\ idx \in Int
        /\ Len(out) + 1 \in Nat /\ -1 \in Int
    BY <1>0
  <1>3. ASSUME NEW f, ToSave(f) PROVE ToSave(f)'
    <2>1. CASE pc = "enum"
      <3>1. Ahead(f, sessions, Len(out), idx)
        BY <1>3, <2>1 DEF ToSave
      <3>2. Ahead(f, sessions', Len(out), idx)
        BY <1>n, <1>2, <3>1
      <3> QED BY <1>u, <2>1, <3>2 DEF ToSave
    <2>2. CASE pc # "enum"
      <3>1. Ahead(f, sessions, Len(out) + 1, -1)
        BY <1>3, <2>2 DEF ToSave
      <3>2. Ahead(f, sessions', Len(out) + 1, -1)
        BY <1>n, <1>2, <3>1
      <3> QED BY <1>u, <2>2, <3>2 DEF ToSave
    <2> QED BY <2>1, <2>2
  <1>4. SameIds(out, sessions) => SameIds(out, sessions)'
    BY <1>0, <1>1 DEF SameIds
  <1>5. Copying' => /\ SameIds(out, sessions)'
                    /\ \A f \in due' : /\ f.keys \cap Sensitive = {}
                                       /\ f \in Facts(out') \/ ToSave(f)'
    <2>1. Copying' = Copying /\ Facts(out') = Facts(out) /\ due' = due
      BY <1>u DEF Copying
    <2> QED BY <1>3, <1>4, <2>1 DEF SaveInv
  <1> QED BY <1>u, <1>5 DEF SaveInv, CheckpointComplete

(* The next session's object is begun, or the document is complete.        *)
LEMMA SaveSessionInv ==
  ASSUME IInv, IInv', SaveInv, SaveSession
  PROVE  SaveInv'
  <1>0. /\ sessions \in Seq(Rows) /\ out \in Seq(Rows) /\ out' \in Seq(Rows)
        /\ Len(out) \in Nat /\ Len(sessions) \in Nat
        /\ pc = "session"
        /\ SameIds(out, sessions)
    BY DEF SaveSession, IInv, Shape, SaveInv, Copying
  <1>u. UNCHANGED <<sessions, ckpt, tmp, due, saved>>
    BY DEF SaveSession, disk, history
  <1>d. \A f \in due : /\ f.keys \cap Sensitive = {}
                       /\ f \in Facts(out) \/ Ahead(f, sessions, Len(out) + 1, -1)
    BY <1>0 DEF SaveInv, Copying, ToSave
  <1>1. CASE Len(out) < Len(sessions)
    <2> DEFINE n == Len(out) + 1
               id == sessions[n].id
    <2>0. n \in 1..Len(sessions)
      BY <1>0, <1>1
    <2>1. sessions[n] \in Rows
      BY <1>0, <2>0
    <2>2. id \in Ids
      BY <2>1 DEF Rows
    <2>3. out' = Append(out, [id |-> id, store |-> <<>>]) /\ pc' = "enum" /\ idx' = 0
      BY <1>1 DEF SaveSession
    <2> HIDE DEF id
    <2>4. /\ Facts(out) \subseteq Facts(out')
          /\ [id |-> id, keys |-> {}] \in Facts(out')
          /\ out'[n].id = id
          /\ \A i \in 1..Len(out) : out'[i] = out[i]
      BY <1>0, <2>2, <2>3, RowFacts
    <2>5. Len(out') = n
      BY <1>0, <2>2, <2>3, RowAdded
    <2>6. SameIds(out, sessions)'
      <3>1. \A i \in 1..n : i \in 1..Len(out) \/ i = n
        BY <1>0
      <3>2. sessions[n].id = id
        BY DEF id
      <3> HIDE DEF n
      <3> QED BY <1>0, <1>u, <2>0, <2>4, <2>5, <3>1, <3>2 DEF SameIds
    <2>7. ASSUME NEW f \in due PROVE f \in Facts(out') \/ Ahead(f, sessions, n, 0)
      <3>1. CASE f \in Facts(out)
        BY <3>1, <2>4
      <3>2. CASE Ahead(f, sessions, n, -1)
        <4>1. f = [id |-> sessions[n].id, keys |-> {}] \/ Ahead(f, sessions, n, 0)
          BY <1>0, <2>0, <3>2, AheadRow
        <4> QED BY <4>1, <2>4 DEF id
      <3> QED BY <3>1, <3>2, <1>d
    <2>8. \A f \in due' : /\ f.keys \cap Sensitive = {}
                          /\ f \in Facts(out') \/ ToSave(f)'
      <3>1. ASSUME NEW f, Ahead(f, sessions, n, 0) PROVE ToSave(f)'
        BY <1>u, <2>3, <2>5, <3>1 DEF ToSave
      <3> QED BY <1>d, <1>u, <2>7, <3>1
    <2>9. Copying' /\ pc' = "enum"
      BY <2>3 DEF Copying
    <2>10. CheckpointComplete'
      BY <1>u DEF SaveInv, CheckpointComplete
    <2> QED BY <2>6, <2>8, <2>9, <2>10 DEF SaveInv
  <1>2. CASE ~(Len(out) < Len(sessions))
    <2>1. pc' = "write" /\ out' = out
      BY <1>2 DEF SaveSession
    <2>2. ASSUME NEW f \in due PROVE f \in Facts(out)
      <3>1. CASE Ahead(f, sessions, Len(out) + 1, -1)
        <4>1. Len(out) + 1 \in Nat /\ -1 \in Int
          BY <1>0
        <4>2. Len(out) + 1 <= Len(sessions)
          BY <1>0, <3>1, <4>1, AheadDone
        <4> QED BY <4>2, <1>0, <1>2
      <3> QED BY <3>1, <1>d
    <2>3. due' \subseteq Facts(out')
      BY <1>u, <2>1, <2>2
    <2> QED BY <1>u, <2>1, <2>3 DEF SaveInv, Copying, CheckpointComplete
  <1> QED BY <1>1, <1>2

(* One turn of the store_enum loop.                                        *)
LEMMA SaveKeyInv ==
  ASSUME IInv, IInv', SaveInv, SaveKey
  PROVE  SaveInv'
  <1> DEFINE n == Len(out)
             key == sessions[n].store[idx + 1]
  <1>0. /\ sessions \in Seq(Rows) /\ out \in Seq(Rows) /\ out' \in Seq(Rows)
        /\ n \in 1..Len(sessions) /\ n \in 1..Len(out) /\ n \in Nat
        /\ idx \in Nat
        /\ pc = "enum"
        /\ SameIds(out, sessions)
    BY DEF SaveKey, IInv, Shape, SaveInv, Copying
  <1>u. UNCHANGED <<sessions, ckpt, tmp, due, saved>>
    BY DEF SaveKey, disk, history
  <1>d. \A f \in due : /\ f.keys \cap Sensitive = {}
                       /\ f \in Facts(out) \/ Ahead(f, sessions, n, idx)
    BY <1>0 DEF SaveInv, Copying, ToSave
  <1>c. CheckpointComplete'
    BY <1>u DEF SaveInv, CheckpointComplete
  <1>r. sessions[n] \in Rows /\ out[n] \in Rows /\ out[n].id = sessions[n].id
    BY <1>0 DEF SameIds
  <1>s. sessions[n].store \in Seq(Keys) /\ out[n].store \in Seq(Keys)
    BY <1>r DEF Rows
  <1>1. CASE idx < Len(sessions[n].store)
    <2>1. /\ pc' = "enum" /\ idx' = idx + 1
          /\ out' = IF key \in Sensitive THEN out
                    ELSE [out EXCEPT ![n].store = Append(out[n].store, key)]
      BY <1>0, <1>1 DEF SaveKey, is_sensitive_key
    <2>2. key \in Keys
      BY <1>0, <1>1, <1>s
    <2>3. /\ Len(out') = n
          /\ Facts(out) \subseteq Facts(out')
          /\ key \notin Sensitive => [id |-> sessions[n].id, keys |-> {key}] \in Facts(out')
          /\ \A i \in 1..n : out'[i].id = out[i].id
      <3>1. CASE key \in Sensitive
        BY <2>1, <3>1
      <3>2. CASE key \notin Sensitive
        <4> DEFINE t == Append(out[n].store, key)
        <4> HIDE DEF key
        <4>1. /\ t \in Seq(Keys)
              /\ Len(t) = Len(out[n].store) + 1 /\ Len(out[n].store) \in Nat
              /\ t[Len(t)] = key
              /\ \A j \in 1..Len(out[n].store) : t[j] = out[n].store[j]
          BY <1>s, <2>2
        <4>2. out' = [out EXCEPT ![n].store = t]
          BY <2>1, <3>2
        <4> HIDE DEF t
        <4>3. /\ Len(out') = Len(out)
              /\ out'[n].store = t
              /\ out'[n].id = out[n].id
              /\ \A i \in 1..Len(out) : i # n => out'[i] = out[i]
          <5> HIDE DEF n
          <5> DEFINE new == [out EXCEPT ![n].store = t]
          <5>1. /\ Len(new) = Len(out) /\ new[n].store = t /\ new[n].id = out[n].id
                /\ \A i \in 1..Len(out) : i # n => new[i] = out[i]
            BY <1>0, <4>1, StoreReplaced
          <5>2. out' = new
            BY <4>2
          <5> HIDE DEF new
          <5> QED BY <5>1, <5>2
        <4>4. \A j \in 1..Len(out[n].store) : \E m \in 1..Len(t) : t[m] = out[n].store[j]
          BY <4>1
        <4>5. Len(t) \in 1..Len(t)
          BY <4>1
        <4>6. /\ Facts(out) \subseteq Facts(out')
              /\ \A j \in 1..Len(t) : [id |-> out[n].id, keys |-> {t[j]}] \in Facts(out')
          <5> HIDE DEF n
          <5> DEFINE new == out'
          <5>1. /\ out \in Seq(Rows) /\ new \in Seq(Rows) /\ n \in 1..Len(out)
                /\ Len(new) = Len(out) /\ new[n].id = out[n].id
                /\ \A i \in 1..Len(out) : i # n => new[i] = out[i]
            BY <1>0, <4>3
          <5>2. \A j \in 1..Len(out[n].store) :
                  \E m \in 1..Len(new[n].store) : new[n].store[m] = out[n].store[j]
            BY <4>3, <4>4
          <5> HIDE DEF new
          <5>3. /\ Facts(out) \subseteq Facts(new)
                /\ \A j \in 1..Len(new[n].store) :
                     [id |-> out[n].id, keys |-> {new[n].store[j]}] \in Facts(new)
            BY <5>1, <5>2, StoreFacts
          <5> QED BY <5>3, <4>3 DEF new
        <4> QED BY <1>r, <4>1, <4>3, <4>5, <4>6
      <3> QED BY <3>1, <3>2
    <2>4. SameIds(out, sessions)'
      BY <1>0, <1>u, <2>3 DEF SameIds
    <2>5. ASSUME NEW f \in due PROVE f \in Facts(out') \/ Ahead(f, sessions, n, idx + 1)
      <3>1. CASE f \in Facts(out)
        BY <3>1, <2>3
      <3>2. CASE Ahead(f, sessions, n, idx)
        <4> HIDE DEF n
        <4>1. f = [id |-> sessions[n].id, keys |-> {key}] \/ Ahead(f, sessions, n, idx + 1)
          BY <1>0, <3>2, AheadKey
        <4>2. f = [id |-> sessions[n].id, keys |-> {key}] => key \notin Sensitive
          <5> HIDE DEF key
          <5>1. f.keys \cap Sensitive = {}
            BY <1>d
          <5> QED BY <5>1
        <4> QED BY <4>1, <4>2, <2>3
      <3> QED BY <3>1, <3>2, <1>d
    <2>6. \A f \in due' : /\ f.keys \cap Sensitive = {}
                          /\ f \in Facts(out') \/ ToSave(f)'
      <3>1. ASSUME NEW f, Ahead(f, sessions, n, idx + 1) PROVE ToSave(f)'
        BY <1>u, <2>1, <2>3, <3>1 DEF ToSave
      <3> QED BY <1>d, <1>u, <2>5, <3>1
    <2>7. Copying' /\ pc' = "enum"
      BY <2>1 DEF Copying
    <2> QED BY <1>c, <2>4, <2>6, <2>7 DEF SaveInv
  <1>2. CASE ~(idx < Len(sessions[n].store))
    <2>1. pc' = "session" /\ idx' = idx /\ out' = out
      BY <1>2 DEF SaveKey
    <2>2. ASSUME NEW f \in due PROVE f \in Facts(out) \/ Ahead(f, sessions, n + 1, -1)
      <3>1. CASE Ahead(f, sessions, n, idx)
        <4>1. idx \in Int /\ idx >= Len(sessions[n].store)
          BY <1>0, <1>2, <1>s
        <4> HIDE DEF n
        <4> QED BY <1>0, <3>1, <4>1, AheadDone
      <3> QED BY <3>1, <1>d
    <2>3. \A f \in due' : /\ f.keys \cap Sensitive = {}
                          /\ f \in Facts(out') \/ ToSave(f)'
      <3>1. ASSUME NEW f, Ahead(f, sessions, n + 1, -1) PROVE ToSave(f)'
        BY <1>u, <2>1, <3>1 DEF ToSave
      <3> QED BY <1>d, <1>u, <2>1, <2>2, <3>1
    <2>4. SameIds(out, sessions)' /\ Copying'
      BY <1>0, <1>u, <2>1 DEF Copying
    <2> QED BY <1>c, <2>1, <2>3, <2>4 DEF SaveInv
  <1> QED BY <1>1, <1>2

(* What is due when checkpoint_save opens its file is all still ahead.     *)
LEMMA SaveOpenInv ==
  ASSUME IInv, SaveInv, NEW last \in BOOLEAN, SaveOpen(last)
  PROVE  SaveInv'
  <1>0. /\ sessions \in Seq(Rows) /\ sessions' = sessions
        /\ out' = <<>> /\ pc' = "session"
        /\ ckpt' = ckpt /\ saved' = saved
        /\ due' = Lasting(Facts(sessions))
    BY DEF SaveOpen, IInv, Shape
  <1>1. ASSUME NEW f \in due' PROVE f.keys \cap Sensitive = {} /\ ToSave(f)'
    <2>1. f \in Facts(sessions) /\ f.keys \cap Sensitive = {}
      BY <1>0, <1>1 DEF Lasting
    <2>2. PICK i \in 1..Len(sessions) : \E j \in 0..Len(sessions[i].store) : f = Fact(sessions, i, j)
      BY <1>0, <2>1, FactsAt
    <2>3. PICK j \in 0..Len(sessions[i].store) : f = Fact(sessions, i, j)
      BY <2>2
    <2>4. i > 1 \/ (i = 1 /\ j > -1)
      BY <1>0, <2>2, <2>3
    <2>5. Ahead(f, sessions, 1, -1)
      BY <2>3, <2>4 DEF Ahead
    <2>6. Len(out') + 1 = 1
      BY <1>0
    <2> QED BY <1>0, <2>1, <2>5, <2>6 DEF ToSave
  <1>2. SameIds(out, sessions)'
    BY <1>0 DEF SameIds
  <1>3. CheckpointComplete'
    BY <1>0 DEF SaveInv, CheckpointComplete
  <1> QED BY <1>0, <1>1, <1>2, <1>3 DEF SaveInv, Copying

(* Every step preserves what CheckpointComplete rests on.                  *)
LEMMA NextSave ==
  ASSUME ~DiskFull, IInv, IInv', SaveInv, [Next]_vars
  PROVE  SaveInv'
  <1> USE DEF disk, history
  <1>1. CASE Start \/ Crash \/ HupExec
    BY <1>1, SaveIdle DEF Start, Crash, HupExec, Quit
  <1>2. CASE HupSent
    BY <1>2, SaveSame DEF HupSent
  <1>3. CASE Restore
    <2>1. CASE RestoreUnlink
      <3>1. ~ckpt'.exists /\ pc' = "parse"
        BY <2>1, Empty DEF RestoreUnlink
      <3> QED BY <3>1 DEF SaveInv, Copying, CheckpointComplete
    <2>2. CASE RestoreOpen \/ RestoreRead \/ RestoreParse \/ RestoreSession \/ RestoreKey
      BY <2>2, SaveIdle DEF RestoreOpen, RestoreRead, RestoreParse, RestoreSession, RestoreKey
    <2> QED BY <1>3, <2>1, <2>2 DEF Restore
  <1>4. CASE \E id \in Ids : session_create(id)
    BY <1>4, SaveIdle DEF session_create
  <1>5. CASE \E i \in 1..Cardinality(Ids), key \in Keys : store_subscribe(i, key)
    BY <1>5, SaveSubscribe
  <1>6. ASSUME NEW c \in Conns, Connect(c) \/ Finish(c) PROVE SaveInv'
    BY <1>6, SaveSame DEF Connect, Finish
  <1>7. ASSUME NEW last \in BOOLEAN, SaveSkip(last) PROVE SaveInv'
    BY <1>7, SaveIdle DEF SaveSkip, Quit
  <1>8. ASSUME NEW last \in BOOLEAN, SaveOpen(last) PROVE SaveInv'
    BY <1>8, SaveOpenInv
  <1>9. CASE SaveWrite
    <2>1. PICK whole \in BOOLEAN :
            /\ whole \/ DiskFull
            /\ tmp' = [rows |-> IF whole THEN out ELSE <<>>, whole |-> whole, exists |-> TRUE]
      BY <1>9 DEF SaveWrite
    <2>2. tmp'.rows = out /\ tmp'.exists
      BY <2>1
    <2>3. due' \subseteq Facts(tmp'.rows)
      BY <1>9, <2>2 DEF SaveWrite, SaveInv
    <2>4. pc' = "rename" /\ ckpt' = ckpt /\ saved' = saved
      BY <1>9 DEF SaveWrite
    <2> QED BY <2>2, <2>3, <2>4 DEF SaveInv, Copying, CheckpointComplete
  <1>10. CASE SaveRename
    <2>1. /\ ckpt' = tmp /\ saved' = due /\ pc' \in {"serve", "down"}
          /\ due \subseteq Facts(tmp.rows)
      BY <1>10 DEF SaveRename, Quit, SaveInv
    <2> QED BY <2>1 DEF SaveInv, Copying, CheckpointComplete
  <1>11. CASE UNCHANGED vars
    BY <1>11, SaveSame DEF vars
  <1> QED BY <1>1, <1>2, <1>3, <1>4, <1>5, <1>6, <1>7, <1>8, <1>9, <1>10, <1>11,
             SaveSessionInv, SaveKeyInv DEF Next, Save

(* Provided that writes do not fall short, checkpoint.json keeps every     *)
(* session and every key that is not sensitive of the moment               *)
(* checkpoint_save began, for any number of sessions and keys, although    *)
(* store_enum counts from a head that other threads' subscriptions move.   *)
THEOREM CheckpointKeepsAll ==
  ASSUME ~DiskFull
  PROVE  Spec => []CheckpointComplete
  <1>1. Init => SaveInv
    BY DEF Init, SaveInv, Copying, CheckpointComplete, NoFile
  <1>2. SaveInv => CheckpointComplete
    BY DEF SaveInv
  <1>3. IInv /\ IInv' /\ SaveInv /\ [Next]_vars => SaveInv'
    BY NextSave
  <1> QED BY <1>1, <1>2, <1>3, InitIInv, NextIInv, PTL DEF Spec

-----------------------------------------------------------------------------
(* The table with a key linked in front of one store: the key's fact is    *)
(* added and the others are kept.                                          *)
Linked(rows, n, key) == [rows EXCEPT ![n].store = <<key>> \o rows[n].store]

LEMMA PrependFacts ==
  ASSUME NEW rows \in Seq(Rows), NEW n \in 1..Len(rows), NEW key \in Keys
  PROVE  LET new == Linked(rows, n, key) IN
         /\ Len(new) = Len(rows)
         /\ Facts(rows) \subseteq Facts(new)
         /\ [id |-> rows[n].id, keys |-> {key}] \in Facts(new)
         /\ \A i \in 1..Len(rows) : new[i].id = rows[i].id
  <1> DEFINE s == rows[n].store
             t == <<key>> \o s
             new == [rows EXCEPT ![n].store = t]
  <1>0. rows[n] \in Rows
    OBVIOUS
  <1>1. s \in Seq(Keys)
    BY <1>0 DEF Rows
  <1>2. /\ t \in Seq(Keys)
        /\ Len(t) = Len(s) + 1
        /\ Len(s) \in Nat
        /\ t[1] = key
        /\ \A j \in 1..Len(s) : t[j + 1] = s[j]
    BY <1>1
  <1> HIDE DEF s, t
  <1>3. /\ new \in Seq(Rows)
        /\ Len(new) = Len(rows)
        /\ new[n].store = t
        /\ new[n].id = rows[n].id
        /\ \A i \in 1..Len(rows) : i # n => new[i] = rows[i]
    BY <1>2, StoreReplaced
  <1> HIDE DEF new
  <1>4. \A j \in 1..Len(rows[n].store) :
          \E m \in 1..Len(new[n].store) : new[n].store[m] = rows[n].store[j]
    <2>1. ASSUME NEW j \in 1..Len(s) PROVE j + 1 \in 1..Len(t) /\ t[j + 1] = s[j]
      BY <1>2
    <2>2. \A j \in 1..Len(s) : \E m \in 1..Len(t) : t[m] = s[j]
      BY <2>1
    <2> QED BY <1>3, <2>2 DEF s
  <1>5. /\ Facts(rows) \subseteq Facts(new)
        /\ \A j \in 1..Len(new[n].store) :
             [id |-> rows[n].id, keys |-> {new[n].store[j]}] \in Facts(new)
    BY <1>3, <1>4, StoreFacts
  <1>6. 1 \in 1..Len(new[n].store) /\ new[n].store[1] = key
    BY <1>2, <1>3
  <1>7. Linked(rows, n, key) = new
    BY DEF new, t, s, Linked
  <1> QED BY <1>3, <1>5, <1>6, <1>7

(* While the daemon serves, a table that only grows keeps the restored     *)
(* facts; when the process ends, the file keeps them.                      *)
LEMMA ServingStep ==
  ASSUME RestoreInv, Serving, Serving', UNCHANGED <<ckpt, saved, boots, home>>,
         Facts(sessions) \subseteq Facts(sessions')
  PROVE  RestoreInv'
  <1>1. /\ pc' \notin {"down", "open", "read", "unlink", "parse"}
        /\ ~Building' /\ pc' \in {"down", "serve", "session", "enum", "write", "rename"}
    BY DEF Serving, Building
  <1>2. RestoredOnce'
    BY DEF RestoreInv, RestoredOnce
  <1> QED BY <1>1, <1>2 DEF RestoreInv, FirstBoot

LEMMA DownStep ==
  ASSUME RestoreInv, pc' = "down", sessions' = <<>>, UNCHANGED <<ckpt, saved, boots, home>>
  PROVE  RestoreInv'
  BY DEF RestoreInv, FirstBoot, Building, RestoredOnce, Serving

(* Booting with HOME (Start) or without (HupExec) counts a boot.           *)
LEMMA BootStep ==
  ASSUME RestoreInv, Start \/ HupExec
  PROVE  RestoreInv'
  <1>1. /\ pc' = "open" /\ sessions' = <<>>
        /\ ckpt' = ckpt /\ saved' = saved
    BY DEF Start, HupExec, Forget, RestoreInv, disk
  <1>2. boots' \in Nat /\ boots' # 0 /\ (boots' = 1 => boots = 0)
    BY LifecycleAssumption DEF Start, HupExec, CountBoot, RestoreInv
  <1> QED BY <1>1, <1>2 DEF RestoreInv, FirstBoot, Building, RestoredOnce, Serving

(* The checkpoint is read before it is removed, and built from.            *)
LEMMA RestoreFileStep ==
  ASSUME IInv, IInv', RestoreInv, WholeInv,
         RestoreOpen \/ RestoreRead \/ RestoreUnlink \/ RestoreParse
  PROVE  RestoreInv'
  <1> USE DEF disk, history
  <1>1. CASE RestoreOpen
    <2>1. /\ pc = "open" /\ sessions = <<>>
          /\ pc' = IF home /\ ckpt.exists THEN "read" ELSE "serve"
          /\ UNCHANGED <<sessions, ckpt, buf, saved, boots, home>>
      BY <1>1 DEF RestoreOpen, RestoreInv
    <2>2. CASE home /\ ckpt.exists
      BY <2>1, <2>2 DEF RestoreInv, FirstBoot, Building, RestoredOnce, Serving
    <2>3. CASE ~(home /\ ckpt.exists)
      <3>1. FirstBoot => saved \subseteq Facts(sessions)
        BY <2>1, <2>3 DEF RestoreInv, FirstBoot
      <3> QED BY <2>1, <2>3, <3>1 DEF RestoreInv, FirstBoot, Building, RestoredOnce, Serving
    <2> QED BY <2>2, <2>3
  <1>2. CASE RestoreRead
    <2>1. /\ pc = "read" /\ pc' = "unlink" /\ buf' = ckpt /\ ckpt.whole
          /\ UNCHANGED <<sessions, ckpt, saved, boots, home>>
      BY <1>2 DEF RestoreRead, RestoreInv, WholeInv, CheckpointWhole
    <2> QED BY <2>1 DEF RestoreInv, FirstBoot, Building, RestoredOnce, Serving
  <1>3. CASE RestoreUnlink
    <2>1. /\ pc = "unlink" /\ pc' = "parse"
          /\ ckpt'.rows = <<>> /\ UNCHANGED <<sessions, buf, saved, boots, home>>
      BY <1>3, Empty DEF RestoreUnlink
    <2> QED BY <2>1 DEF RestoreInv, FirstBoot, Building, RestoredOnce, Serving
  <1>4. CASE RestoreParse
    <2>1. /\ pc = "parse" /\ sessions = <<>>
          /\ UNCHANGED <<sessions, ckpt, saved, boots, home>>
          /\ buf \in Files
      BY <1>4 DEF RestoreParse, RestoreInv, IInv, Shape
    <2>2. CASE ~buf.whole
      <3>1. pc' = "serve" /\ ~FirstBoot
        BY <1>4, <2>1, <2>2 DEF RestoreParse, RestoreInv
      <3> QED BY <2>1, <3>1 DEF RestoreInv, FirstBoot, Building, RestoredOnce, Serving
    <2>3. CASE buf.whole
      <3>1. pc' = "build" /\ buf' = buf
        BY <1>4, <2>3 DEF RestoreParse
      <3>2. buf.rows \in Seq(Rows)
        BY <2>1 DEF Files
      <3>3. ASSUME FirstBoot, NEW f \in saved PROVE ToRestore(f)'
        <4>1. f \in Facts(buf.rows)
          BY <2>1, <3>3 DEF RestoreInv
        <4>2. PICK i \in 1..Len(buf.rows) : \E j \in 0..Len(buf.rows[i].store) : f = Fact(buf.rows, i, j)
          BY <3>2, <4>1, FactsAt
        <4>3. PICK j \in 0..Len(buf.rows[i].store) : f = Fact(buf.rows, i, j)
          BY <4>2
        <4>4. i > 1 \/ (i = 1 /\ j > -1)
          BY <3>2, <4>2, <4>3
        <4>5. Ahead(f, buf.rows, 1, -1)
          BY <4>3, <4>4 DEF Ahead
        <4>6. Len(sessions') + 1 = 1
          BY <2>1
        <4> QED BY <3>1, <4>5, <4>6 DEF ToRestore
      <3>4. SameIds(sessions, buf.rows)'
        BY <2>1, <3>1, <3>2 DEF SameIds
      <3> QED BY <2>1, <3>1, <3>3, <3>4 DEF RestoreInv, FirstBoot, RestoredOnce, Serving
    <2> QED BY <2>2, <2>3
  <1> QED BY <1>1, <1>2, <1>3, <1>4

(* The next session of the document is given an empty store.               *)
LEMMA RestoreSessionInv ==
  ASSUME IInv, IInv', RestoreInv, RestoreSession
  PROVE  RestoreInv'
  <1> DEFINE src == buf.rows
  <1>0. /\ sessions \in Seq(Rows) /\ src \in Seq(Rows)
        /\ Len(sessions) \in Nat /\ Len(src) \in Nat
        /\ pc = "build"
        /\ SameIds(sessions, src)
    BY DEF RestoreSession, IInv, Shape, Files, RestoreInv, Building
  <1>u. UNCHANGED <<ckpt, saved, boots, home>>
    BY DEF RestoreSession, disk, history
  <1>b. boots # 0
    BY <1>0 DEF RestoreInv
  <1>d. FirstBoot => \A f \in saved : f \in Facts(sessions) \/ Ahead(f, src, Len(sessions) + 1, -1)
    BY <1>0 DEF RestoreInv, Building, ToRestore
  <1>1. CASE Len(sessions) < Len(src)
    <2> DEFINE n == Len(sessions) + 1
               id == src[n].id
    <2>0. n \in 1..Len(src)
      BY <1>0, <1>1
    <2>1. src[n] \in Rows
      BY <1>0, <2>0
    <2>2. id \in Ids
      BY <2>1 DEF Rows
    <2>3. /\ sessions' = Append(sessions, [id |-> id, store |-> <<>>])
          /\ pc' = "fill" /\ idx' = 0 /\ buf' = buf
      BY <1>1 DEF RestoreSession
    <2> HIDE DEF id
    <2>4. /\ Facts(sessions) \subseteq Facts(sessions')
          /\ [id |-> id, keys |-> {}] \in Facts(sessions')
          /\ sessions'[n].id = id
          /\ \A i \in 1..Len(sessions) : sessions'[i] = sessions[i]
      BY <1>0, <2>2, <2>3, RowFacts
    <2>5. Len(sessions') = n
      BY <1>0, <2>2, <2>3, RowAdded
    <2>6. SameIds(sessions', src)
      <3>1. \A i \in 1..n : i \in 1..Len(sessions) \/ i = n
        BY <1>0
      <3>2. src[n].id = id
        BY DEF id
      <3> HIDE DEF n, src
      <3> QED BY <1>0, <2>0, <2>4, <2>5, <3>1, <3>2 DEF SameIds
    <2>7. ASSUME FirstBoot, NEW f \in saved PROVE f \in Facts(sessions') \/ ToRestore(f)'
      <3>1. CASE f \in Facts(sessions)
        BY <3>1, <2>4
      <3>2. CASE Ahead(f, src, n, -1)
        <4>1. f = [id |-> src[n].id, keys |-> {}] \/ Ahead(f, src, n, 0)
          BY <1>0, <2>0, <3>2, AheadRow
        <4>2. ASSUME Ahead(f, src, n, 0) PROVE ToRestore(f)'
          BY <2>3, <2>5, <4>2 DEF ToRestore
        <4> QED BY <4>1, <4>2, <2>4 DEF id
      <3> QED BY <2>7, <3>1, <3>2, <1>d
    <2>8. SameIds(sessions, buf.rows)'
      BY <2>3, <2>6
    <2> QED BY <1>u, <1>b, <2>3, <2>7, <2>8 DEF RestoreInv, FirstBoot, RestoredOnce, Serving
  <1>2. CASE ~(Len(sessions) < Len(src))
    <2>1. pc' = "serve" /\ sessions' = sessions
      BY <1>2 DEF RestoreSession
    <2>2. ASSUME FirstBoot, NEW f \in saved PROVE f \in Facts(sessions)
      <3>1. CASE Ahead(f, src, Len(sessions) + 1, -1)
        <4>1. Len(sessions) + 1 \in Nat /\ -1 \in Int
          BY <1>0
        <4>2. Len(sessions) + 1 <= Len(src)
          BY <1>0, <3>1, <4>1, AheadDone
        <4> QED BY <4>2, <1>0, <1>2
      <3> QED BY <2>2, <3>1, <1>d
    <2> QED BY <1>u, <1>b, <2>1, <2>2 DEF RestoreInv, FirstBoot, Building, RestoredOnce, Serving
  <1> QED BY <1>1, <1>2

(* One key of the document is set in the session being restored.           *)
LEMMA RestoreKeyInv ==
  ASSUME IInv, IInv', RestoreInv, RestoreKey
  PROVE  RestoreInv'
  <1> DEFINE src == buf.rows
             n == Len(sessions)
             key == src[n].store[idx + 1]
  <1>0. /\ sessions \in Seq(Rows) /\ src \in Seq(Rows)
        /\ n \in 1..Len(src) /\ n \in 1..Len(sessions) /\ n \in Nat
        /\ idx \in Nat
        /\ pc = "fill"
        /\ SameIds(sessions, src)
    BY DEF RestoreKey, IInv, Shape, Files, RestoreInv, Building
  <1>u. UNCHANGED <<ckpt, buf, saved, boots, home>>
    BY DEF RestoreKey, disk, history
  <1>b. boots # 0
    BY <1>0 DEF RestoreInv
  <1>d. FirstBoot => \A f \in saved : f \in Facts(sessions) \/ Ahead(f, src, n, idx)
    BY <1>0 DEF RestoreInv, Building, ToRestore
  <1>r. src[n] \in Rows /\ sessions[n] \in Rows /\ sessions[n].id = src[n].id
    BY <1>0 DEF SameIds
  <1>s. src[n].store \in Seq(Keys) /\ sessions[n].store \in Seq(Keys)
    BY <1>r DEF Rows
  <1>1. CASE idx < Len(src[n].store)
    <2>1. /\ pc' = "fill" /\ idx' = idx + 1
          /\ sessions' = IF Contains(sessions[n].store, key) THEN sessions
                         ELSE [sessions EXCEPT ![n].store = <<key>> \o sessions[n].store]
      BY <1>0, <1>1 DEF RestoreKey
    <2>2. key \in Keys
      BY <1>0, <1>1, <1>s
    <2>3. /\ Len(sessions') = n
          /\ Facts(sessions) \subseteq Facts(sessions')
          /\ [id |-> src[n].id, keys |-> {key}] \in Facts(sessions')
          /\ \A i \in 1..n : sessions'[i].id = sessions[i].id
      <3> HIDE DEF key
      <3>1. CASE Contains(sessions[n].store, key)
        <4>1. PICK j \in 1..Len(sessions[n].store) : sessions[n].store[j] = key
          BY <3>1 DEF Contains
        <4>2. j \in 0..Len(sessions[n].store) /\ j # 0
          BY <4>1, <1>s
        <4>3. Fact(sessions, n, j) = [id |-> src[n].id, keys |-> {key}]
          BY <1>r, <4>1, <4>2 DEF Fact
        <4>4. [id |-> src[n].id, keys |-> {key}] \in Facts(sessions)
          <5> HIDE DEF n
          <5> QED BY <1>0, <4>2, <4>3, FactsAt
        <4> QED BY <2>1, <3>1, <4>4
      <3>2. CASE ~Contains(sessions[n].store, key)
        <4>1. sessions' = [sessions EXCEPT ![n].store = <<key>> \o sessions[n].store]
          BY <2>1, <3>2
        <4>2. /\ Len(sessions') = Len(sessions)
              /\ Facts(sessions) \subseteq Facts(sessions')
              /\ [id |-> sessions[n].id, keys |-> {key}] \in Facts(sessions')
              /\ \A i \in 1..Len(sessions) : sessions'[i].id = sessions[i].id
          <5> HIDE DEF n
          <5>1. sessions' = Linked(sessions, n, key)
            BY <4>1 DEF Linked
          <5> QED BY <1>0, <2>2, <5>1, PrependFacts
        <4> QED BY <1>r, <4>2
      <3> QED BY <3>1, <3>2
    <2>4. SameIds(sessions, buf.rows)'
      BY <1>0, <1>u, <2>3 DEF SameIds
    <2>5. ASSUME FirstBoot, NEW f \in saved PROVE f \in Facts(sessions') \/ ToRestore(f)'
      <3>1. CASE f \in Facts(sessions)
        BY <3>1, <2>3
      <3>2. CASE Ahead(f, src, n, idx)
        <4>1. f = [id |-> src[n].id, keys |-> {key}] \/ Ahead(f, src, n, idx + 1)
          <5> HIDE DEF n, src
          <5> QED BY <1>0, <3>2, AheadKey
        <4>2. ASSUME Ahead(f, src, n, idx + 1) PROVE ToRestore(f)'
          BY <1>u, <2>1, <2>3, <4>2 DEF ToRestore
        <4> QED BY <4>1, <4>2, <2>3
      <3> QED BY <2>5, <3>1, <3>2, <1>d
    <2> QED BY <1>u, <1>b, <2>1, <2>4, <2>5 DEF RestoreInv, FirstBoot, RestoredOnce, Serving
  <1>2. CASE ~(idx < Len(src[n].store))
    <2>1. pc' = "build" /\ idx' = idx /\ sessions' = sessions
      BY <1>2 DEF RestoreKey
    <2>2. ASSUME FirstBoot, NEW f \in saved PROVE f \in Facts(sessions') \/ ToRestore(f)'
      <3>1. CASE Ahead(f, src, n, idx)
        <4>1. idx \in Int /\ idx >= Len(src[n].store)
          BY <1>0, <1>2, <1>s
        <4>2. Ahead(f, src, n + 1, -1)
          <5> HIDE DEF n, src
          <5> QED BY <1>0, <3>1, <4>1, AheadDone
        <4> QED BY <1>u, <2>1, <4>2 DEF ToRestore
      <3> QED BY <2>1, <2>2, <3>1, <1>d
    <2>3. SameIds(sessions, buf.rows)'
      BY <1>0, <1>u, <2>1
    <2> QED BY <1>u, <1>b, <2>1, <2>2, <2>3 DEF RestoreInv, FirstBoot, RestoredOnce, Serving
  <1> QED BY <1>1, <1>2

(* Every step preserves what RestoredOnce rests on.                        *)
LEMMA NextRestore ==
  ASSUME IInv, IInv', WholeInv, SaveInv, RestoreInv, [Next]_vars
  PROVE  RestoreInv'
  <1> USE DEF disk, history
  <1>1. CASE Start \/ HupExec
    BY <1>1, BootStep
  <1>2. CASE Restore
    BY <1>2, RestoreFileStep, RestoreSessionInv, RestoreKeyInv DEF Restore
  <1>3. ASSUME NEW id \in Ids, session_create(id) PROVE RestoreInv'
    <2>1. sessions' = Append(sessions, [id |-> id, store |-> <<>>]) /\ sessions \in Seq(Rows)
      BY <1>3 DEF session_create, IInv, Shape
    <2>2. Facts(sessions) \subseteq Facts(sessions')
      BY <2>1, RowFacts
    <2> QED BY <1>3, <2>2, ServingStep DEF session_create, Serving
  <1>4. ASSUME NEW i, NEW key \in Keys, store_subscribe(i, key) PROVE RestoreInv'
    <2>1. /\ sessions' = Linked(sessions, i, key)
          /\ sessions \in Seq(Rows) /\ i \in 1..Len(sessions)
      BY <1>4 DEF store_subscribe, Linked, IInv, Shape
    <2>2. Facts(sessions) \subseteq Facts(sessions')
      BY <2>1, PrependFacts
    <2> QED BY <1>4, <2>2, ServingStep DEF store_subscribe, Serving
  <1>5. ASSUME NEW c \in Conns, Connect(c) \/ Finish(c) PROVE RestoreInv'
    BY <1>5, ServingStep DEF Connect, Finish, Serving
  <1>6. CASE HupSent
    BY <1>6, ServingStep DEF HupSent, Serving
  <1>7. CASE Crash
    BY <1>7, DownStep DEF Crash, Quit, Forget
  <1>8. ASSUME NEW last \in BOOLEAN, SaveSkip(last) PROVE RestoreInv'
    <2>1. CASE last
      BY <1>8, <2>1, DownStep DEF SaveSkip, Quit, Forget
    <2>2. CASE ~last
      BY <1>8, <2>2, ServingStep DEF SaveSkip, Serving
    <2> QED BY <2>1, <2>2
  <1>9. ASSUME NEW last \in BOOLEAN, SaveOpen(last) PROVE RestoreInv'
    BY <1>9, ServingStep DEF SaveOpen, Serving
  <1>10. CASE SaveSession \/ SaveKey \/ SaveWrite
    <2>1. Serving /\ Serving'
      BY <1>10 DEF SaveSession, SaveKey, SaveWrite, Serving
    <2>2. UNCHANGED <<ckpt, saved, boots, home, sessions>>
      BY <1>10 DEF SaveSession, SaveKey, SaveWrite
    <2> QED BY <2>1, <2>2, ServingStep
  <1>11. CASE SaveRename
    <2>1. /\ ckpt' = tmp /\ saved' = due /\ boots' = 0
          /\ due \subseteq Facts(tmp.rows) /\ tmp.exists
          /\ pc' = "serve" \/ (pc' = "down" /\ sessions' = <<>>)
      BY <1>11 DEF SaveRename, Quit, Forget, SaveInv
    <2>2. pc' # "read" /\ ~Building' /\ ~FirstBoot'
      BY <2>1 DEF Building, FirstBoot
    <2>3. RestoredOnce'
      BY <2>1 DEF RestoredOnce
    <2> QED BY <2>1, <2>2, <2>3 DEF RestoreInv
  <1>12. CASE UNCHANGED vars
    BY <1>12 DEF vars, RestoreInv, FirstBoot, Building, SameIds, RestoredOnce, Serving,
                 ToRestore, Ahead, Fact, Facts
  <1> QED BY <1>1, <1>2, <1>3, <1>4, <1>5, <1>6, <1>7, <1>8, <1>9, <1>10, <1>11, <1>12
       DEF Next, Save

(* Provided that writes do not fall short, the first boot after a          *)
(* checkpoint restores every fact of it before the accept loop starts,     *)
(* whatever crash, stop or unfinished later checkpoint came in between.    *)
THEOREM FirstBootRestores ==
  ASSUME ~DiskFull
  PROVE  Spec => []RestoredOnce
  <1>1. Init => WholeInv /\ SaveInv /\ RestoreInv
    <2> SUFFICES ASSUME Init PROVE WholeInv /\ SaveInv /\ RestoreInv
      OBVIOUS
    <2>1. WholeInv
      BY DEF Init, WholeInv, CheckpointWhole, NoFile
    <2>2. SaveInv
      BY DEF Init, SaveInv, Copying, CheckpointComplete, NoFile
    <2>3. RestoreInv
      BY DEF Init, RestoreInv, FirstBoot, Building, RestoredOnce, Serving, NoFile
    <2> QED BY <2>1, <2>2, <2>3
  <1>2. RestoreInv => RestoredOnce
    BY DEF RestoreInv
  <1>3. IInv /\ IInv' /\ SaveInv /\ [Next]_vars => SaveInv'
    BY NextSave
  <1>4. IInv /\ IInv' /\ WholeInv /\ SaveInv /\ RestoreInv /\ [Next]_vars => RestoreInv'
    BY NextRestore
  <1> QED BY <1>1, <1>2, <1>3, <1>4, InitIInv, NextIInv, NextWhole, PTL DEF Spec
=============================================================================
