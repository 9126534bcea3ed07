----------------------------- MODULE Lifecycle ------------------------------
(***************************************************************************)
(* The life of the daemon across restarts: checkpoint_save and             *)
(* checkpoint_restore (src/backend/daemon/checkpoint.c) step by step       *)
(* against the two files they touch, with client threads that subscribe to *)
(* store keys meanwhile, crashes at any point, SIGTERM with its final      *)
(* checkpoint, and SIGHUP with its exec.                                   *)
(*                                                                         *)
(* A session is its id and the list of its store's keys, newest first, as  *)
(* store_subscribe links them; values play no part here.                   *)
(***************************************************************************)
EXTENDS Integers, Sequences, FiniteSets, SequencesExt

CONSTANTS
  Ids,        \* bound: the session ids of a behaviour
  Keys,       \* store keys
  Sensitive,  \* those is_sensitive_key recognises
  Conns,      \* bound: connections of a behaviour
  MaxBoots,   \* bound: boots since the last checkpoint that are counted
  DiskFull    \* whether a write to the disk may fall short

ASSUME LifecycleAssumption ==
  /\ Sensitive \subseteq Keys
  /\ MaxBoots \in Nat \ {0}
  /\ DiskFull \in BOOLEAN

VARIABLES
  pc,        \* where the main thread stands; "down" if there is no process
  stopping,  \* the checkpoint being written is the last one
  sessions,  \* the table: a sequence of [id, store]
  idx,       \* store_enum's index into the store of the session being saved
  out,       \* the JSON document built so far
  buf,       \* what checkpoint_restore has read
  ckpt,      \* checkpoint.json
  tmp,       \* checkpoint.json.tmp
  home,      \* getenv("HOME") is set
  hup,       \* SIGHUP: "none", "pending"
  masked,    \* the signal mask of the process blocks SIGHUP
  open,      \* connections whose descriptor is open in the daemon
  handled,   \* connections that have a client thread
  due,       \* history: the facts the running checkpoint_save must keep
  saved,     \* history: the facts the last finished checkpoint promised
  boots      \* history: boots since then, MaxBoots + 1 if more

disk == <<ckpt, tmp>>
conns == <<open, handled>>
history == <<due, saved, boots>>
vars == <<pc, stopping, sessions, idx, out, buf, disk, home, hup, masked,
          conns, history>>

-----------------------------------------------------------------------------
Rows == [id : Ids, store : Seq(Keys)]
NoFile == [rows |-> <<>>, whole |-> FALSE, exists |-> FALSE]
Files == [rows : Seq(Rows), whole : BOOLEAN, exists : BOOLEAN]

(* The facts a table or a document states: which sessions there are (an    *)
(* id alone) and which keys each has.                                      *)
Facts(rows) ==
  {[id |-> rows[i].id, keys |-> {}] : i \in DOMAIN rows} \cup
  UNION {{[id |-> rows[i].id, keys |-> {rows[i].store[j]}] :
             j \in DOMAIN rows[i].store} : i \in DOMAIN rows}

is_sensitive_key(key) == key \in Sensitive

(* What a checkpoint of the table has to keep.                             *)
Lasting(facts) == {f \in facts : f.keys \cap Sensitive = {}}

TypeOK ==
  /\ pc \in {"down", "open", "read", "unlink", "parse", "build", "fill", "serve",
             "session", "enum", "write", "rename"}
  /\ stopping \in BOOLEAN
  /\ sessions \in Seq(Rows)
  /\ idx \in Nat
  /\ out \in Seq(Rows)
  /\ buf \in Files
  /\ ckpt \in Files
  /\ tmp \in Files
  /\ home \in BOOLEAN
  /\ hup \in {"none", "pending"}
  /\ masked \in BOOLEAN
  /\ open \subseteq Conns
  /\ handled \subseteq open
  /\ due \subseteq [id : Ids, keys : SUBSET Keys]
  /\ saved \subseteq [id : Ids, keys : SUBSET Keys]
  /\ boots \in 0..MaxBoots + 1

Init ==
  /\ pc = "down"
  /\ stopping = FALSE
  /\ sessions = <<>>
  /\ idx = 0
  /\ out = <<>>
  /\ buf = NoFile
  /\ ckpt = NoFile
  /\ tmp = NoFile
  /\ home = TRUE
  /\ hup = "none"
  /\ masked = FALSE
  /\ open = {}
  /\ handled = {}
  /\ due = {}
  /\ saved = {}
  /\ boots = 0

Up == pc # "down"
Serving == pc \in {"serve", "session", "enum", "write", "rename"}
CountBoot == boots' = IF boots > MaxBoots THEN boots ELSE boots + 1

-----------------------------------------------------------------------------
(* daemon_run up to the accept loop: checkpoint_restore.                   *)

Start ==
  /\ pc = "down"
  /\ pc' = "open"
  /\ stopping' = FALSE
  /\ home' = TRUE
  /\ masked' = FALSE
  /\ CountBoot
  /\ UNCHANGED <<sessions, idx, out, buf, disk, hup, conns, due, saved>>

(* No HOME or no file: nothing is restored.                                *)
RestoreOpen ==
  /\ pc = "open"
  /\ pc' = IF home /\ ckpt.exists THEN "read" ELSE "serve"
  /\ UNCHANGED <<stopping, sessions, idx, out, buf, disk, home, hup, masked, conns, history>>

RestoreRead ==
  /\ pc = "read"
  /\ buf' = ckpt
  /\ pc' = "unlink"
  /\ UNCHANGED <<stopping, sessions, idx, out, disk, home, hup, masked, conns, history>>

RestoreUnlink ==
  /\ pc = "unlink"
  /\ ckpt' = NoFile
  /\ pc' = "parse"
  /\ UNCHANGED <<stopping, sessions, idx, out, buf, tmp, home, hup, masked, conns, history>>

(* cJSON_Parse fails on a torn file, and nothing is restored.              *)
RestoreParse ==
  /\ pc = "parse"
  /\ pc' = IF buf.whole THEN "build" ELSE "serve"
  /\ buf' = IF buf.whole THEN buf ELSE NoFile
  /\ UNCHANGED <<stopping, sessions, idx, out, disk, home, hup, masked, conns, history>>

(* The next session of the document is given an empty store.               *)
RestoreSession ==
  /\ pc = "build"
  /\ IF Len(sessions) < Len(buf.rows)
       THEN /\ sessions' = Append(sessions, [id |-> buf.rows[Len(sessions) + 1].id, store |-> <<>>])
            /\ pc' = "fill"
            /\ UNCHANGED buf
       ELSE /\ pc' = "serve"
            /\ buf' = NoFile
            /\ UNCHANGED sessions
  /\ idx' = 0
  /\ UNCHANGED <<stopping, out, disk, home, hup, masked, conns, history>>

(* Mutant of RestoreKey: the last key of the document is not set.          *)
RestoreKeyShort ==
  /\ pc = "fill"
  /\ LET n == Len(sessions) IN
     IF idx < Len(buf.rows[n].store) - 1
       THEN /\ idx' = idx + 1
            /\ sessions' = [sessions EXCEPT ![n].store = <<buf.rows[n].store[idx + 1]>> \o @]
            /\ UNCHANGED pc
       ELSE pc' = "build" /\ UNCHANGED <<sessions, idx>>
  /\ UNCHANGED <<stopping, out, buf, disk, home, hup, masked, conns, history>>

(* store_set(key): a new key is linked in front, so the list is reversed;  *)
(* a key that the document repeats is only set again.                      *)
RestoreKey ==
  /\ pc = "fill"
  /\ LET n == Len(sessions) IN
     IF idx < Len(buf.rows[n].store)
       THEN LET key == buf.rows[n].store[idx + 1] IN
            /\ idx' = idx + 1
            /\ sessions' = IF Contains(sessions[n].store, key) THEN sessions
                           ELSE [sessions EXCEPT ![n].store = <<key>> \o @]
            /\ UNCHANGED pc
       ELSE pc' = "build" /\ UNCHANGED <<sessions, idx>>
  /\ UNCHANGED <<stopping, out, buf, disk, home, hup, masked, conns, history>>

-----------------------------------------------------------------------------
(* Client threads.  session_create needs the write half of session_lock,   *)
(* whose read half the main thread holds while it saves; store_subscribe   *)
(* takes no lock at all.                                                   *)

session_create(id) ==
  /\ pc = "serve"
  /\ \A i \in DOMAIN sessions : sessions[i].id # id
  /\ sessions' = Append(sessions, [id |-> id, store |-> <<>>])
  /\ UNCHANGED <<pc, stopping, idx, out, buf, disk, home, hup, masked, conns, history>>

store_subscribe(i, key) ==
  /\ Serving
  /\ i \in DOMAIN sessions
  /\ ~Contains(sessions[i].store, key)
  /\ sessions' = [sessions EXCEPT ![i].store = <<key>> \o @]
  /\ UNCHANGED <<pc, stopping, idx, out, buf, disk, home, hup, masked, conns, history>>

Connect(c) ==
  /\ pc = "serve"
  /\ c \notin open
  /\ open' = open \cup {c}
  /\ handled' = handled \cup {c}
  /\ UNCHANGED <<pc, stopping, sessions, idx, out, buf, disk, home, hup, masked, history>>

(* The client thread has answered and closes the connection.               *)
Finish(c) ==
  /\ Serving
  /\ c \in handled
  /\ open' = open \ {c}
  /\ handled' = handled \ {c}
  /\ UNCHANGED <<pc, stopping, sessions, idx, out, buf, disk, home, hup, masked, history>>

-----------------------------------------------------------------------------
(* checkpoint_save, every few connections and once after the accept loop.  *)

(* What the process had in memory is gone.                                 *)
Forget == sessions' = <<>> /\ idx' = 0 /\ out' = <<>> /\ buf' = NoFile

(* The process ends; the kernel closes its descriptors.                    *)
Quit ==
  /\ Forget
  /\ pc' = "down"
  /\ hup' = "none"
  /\ open' = {}
  /\ handled' = {}

(* Without HOME, or if the file cannot be created, nothing is saved.       *)
SaveSkip(last) ==
  /\ pc = "serve"
  /\ stopping' = last
  /\ IF last THEN Quit ELSE UNCHANGED <<pc, sessions, idx, out, buf, hup, conns>>
  /\ UNCHANGED <<disk, home, masked, history>>

(* Mutant of SaveOpen: checkpoint.json itself is opened for writing.       *)
SaveInPlace(last) ==
  /\ pc = "serve"
  /\ home
  /\ stopping' = last
  /\ ckpt' = [rows |-> <<>>, whole |-> FALSE, exists |-> TRUE]
  /\ tmp' = ckpt'
  /\ out' = <<>>
  /\ idx' = 0
  /\ due' = Lasting(Facts(sessions))
  /\ pc' = "session"
  /\ UNCHANGED <<sessions, buf, home, hup, masked, conns, saved, boots>>

SaveOpen(last) ==
  /\ pc = "serve"
  /\ home
  /\ stopping' = last
  /\ tmp' = [rows |-> <<>>, whole |-> FALSE, exists |-> TRUE]
  /\ out' = <<>>
  /\ idx' = 0
  /\ due' = Lasting(Facts(sessions))
  /\ pc' = "session"
  /\ UNCHANGED <<sessions, buf, ckpt, home, hup, masked, conns, saved, boots>>

(* The next session's object is begun, or the document is complete.        *)
SaveSession ==
  /\ pc = "session"
  /\ IF Len(out) < Len(sessions)
       THEN /\ out' = Append(out, [id |-> sessions[Len(out) + 1].id, store |-> <<>>])
            /\ idx' = 0
            /\ pc' = "enum"
       ELSE /\ pc' = "write"
            /\ UNCHANGED <<out, idx>>
  /\ UNCHANGED <<stopping, sessions, buf, disk, home, hup, masked, conns, history>>

(* Mutant of SaveKey: every key is written.                                *)
SaveEveryKey ==
  /\ pc = "enum"
  /\ LET n == Len(out) IN
     IF idx < Len(sessions[n].store)
       THEN /\ idx' = idx + 1
            /\ out' = [out EXCEPT ![n].store = Append(@, sessions[n].store[idx + 1])]
            /\ UNCHANGED pc
       ELSE pc' = "session" /\ UNCHANGED <<idx, out>>
  /\ UNCHANGED <<stopping, sessions, buf, disk, home, hup, masked, conns, history>>

(* Mutant of SaveKey: the walk ends one entry early.                       *)
SaveKeyShort ==
  /\ pc = "enum"
  /\ LET n == Len(out) IN
     IF idx < Len(sessions[n].store) - 1
       THEN LET key == sessions[n].store[idx + 1] IN
            /\ idx' = idx + 1
            /\ out' = IF is_sensitive_key(key) THEN out
                      ELSE [out EXCEPT ![n].store = Append(@, key)]
            /\ UNCHANGED pc
       ELSE pc' = "session" /\ UNCHANGED <<idx, out>>
  /\ UNCHANGED <<stopping, sessions, buf, disk, home, hup, masked, conns, history>>

(* One turn of the store_enum loop: the idx-th entry, counted from the     *)
(* head as it is now, unless its key is sensitive.                         *)
SaveKey ==
  /\ pc = "enum"
  /\ LET n == Len(out) IN
     IF idx < Len(sessions[n].store)
       THEN LET key == sessions[n].store[idx + 1] IN
            /\ idx' = idx + 1
            /\ out' = IF is_sensitive_key(key) THEN out
                      ELSE [out EXCEPT ![n].store = Append(@, key)]
            /\ UNCHANGED pc
       ELSE pc' = "session" /\ UNCHANGED <<idx, out>>
  /\ UNCHANGED <<stopping, sessions, buf, disk, home, hup, masked, conns, history>>

(* fprintf and fclose, whose results nobody looks at.                      *)
SaveWrite ==
  /\ pc = "write"
  /\ \E whole \in BOOLEAN :
       /\ whole \/ DiskFull
       /\ tmp' = [rows |-> IF whole THEN out ELSE <<>>, whole |-> whole, exists |-> TRUE]
  /\ pc' = "rename"
  /\ UNCHANGED <<stopping, sessions, idx, out, buf, ckpt, home, hup, masked, conns, history>>

SaveRename ==
  /\ pc = "rename"
  /\ ckpt' = tmp
  /\ tmp' = NoFile
  /\ saved' = due
  /\ boots' = 0
  /\ IF stopping THEN Quit
     ELSE /\ pc' = "serve"
          /\ idx' = 0 /\ out' = <<>>
          /\ UNCHANGED <<sessions, buf, hup, conns>>
  /\ due' = {}
  /\ UNCHANGED <<stopping, home, masked>>

-----------------------------------------------------------------------------
(* Signals and crashes.                                                    *)

Crash ==
  /\ Up
  /\ Quit
  /\ UNCHANGED <<stopping, disk, home, masked, history>>

HupSent ==
  /\ Serving
  /\ hup' = "pending"
  /\ UNCHANGED <<pc, stopping, sessions, idx, out, buf, disk, home, masked, conns, history>>

(* handle_signal on Linux: execve with no environment, from inside the     *)
(* handler, during which SIGHUP is masked; the mask and the descriptors    *)
(* pass to the new image, the threads do not.  `filly daemon` does not     *)
(* look at --restore-fd, so it boots as if nothing had been there.         *)
HupExec ==
  /\ hup = "pending"
  /\ ~masked
  /\ hup' = "none"
  /\ masked' = TRUE
  /\ home' = FALSE
  /\ handled' = {}
  /\ Forget
  /\ stopping' = FALSE
  /\ pc' = "open"
  /\ CountBoot
  /\ UNCHANGED <<disk, open, due, saved>>

Restore == RestoreOpen \/ RestoreRead \/ RestoreUnlink \/ RestoreParse
           \/ RestoreSession \/ RestoreKey
Save == SaveSession \/ SaveKey \/ SaveWrite \/ SaveRename

Next ==
  \/ Start \/ Restore
  \/ \E id \in Ids : session_create(id)
  \/ \E i \in 1..Cardinality(Ids), key \in Keys : store_subscribe(i, key)
  \/ \E c \in Conns : Connect(c) \/ Finish(c)
  \/ \E last \in BOOLEAN : SaveSkip(last) \/ SaveOpen(last)
  \/ Save
  \/ Crash \/ HupSent \/ HupExec

(* The main thread goes through a boot or a checkpoint it has begun, a     *)
(* client thread finishes its connection, and a signal is delivered.       *)
Fairness ==
  /\ WF_vars(Restore) /\ WF_vars(Save) /\ WF_vars(HupExec)
  /\ \A c \in Conns : SF_vars(Finish(c))

Spec == Init /\ [][Next]_vars /\ Fairness

-----------------------------------------------------------------------------
(* No crash, no restart and no thread that subscribes in the meantime puts *)
(* the name of a sensitive key on the disk, in the checkpoint or in the    *)
(* temporary file a crash leaves behind (checkpoint.c, is_sensitive_key).  *)
NoSensitiveOnDisk ==
  \A f \in Facts(ckpt.rows) \cup Facts(tmp.rows) : f.keys \cap Sensitive = {}

(* A crash at any point of checkpoint_save leaves a complete checkpoint,   *)
(* the old one or the new one: the file is written aside and renamed.      *)
CheckpointWhole == ckpt.exists => ckpt.whole

(* A checkpoint keeps every session and every key that is not sensitive of *)
(* the moment checkpoint_save began, although store_enum counts from a     *)
(* head that other threads' subscriptions move.                            *)
CheckpointComplete == ckpt.exists => saved \subseteq Facts(ckpt.rows)

(* The first boot after a checkpoint restores all of it, whatever crash,   *)
(* graceful stop or unfinished later checkpoint came in between.           *)
RestoredOnce == Serving /\ home /\ boots = 1 => saved \subseteq Facts(sessions)

(* spec.md:205-207: the periodic checkpoint is "Restored on daemon         *)
(* restart", under the heading Crash Resilience.  Whatever was             *)
(* checkpointed is there again when a restarted daemon serves.             *)
(* Refuted by TLC: see "Where code and docs disagree" in the README.       *)
RestoredOnRestart == Serving /\ home /\ boots > 0 => saved \subseteq Facts(sessions)

(* spec.md:212: after SIGHUP "existing connections are not dropped": an    *)
(* open connection is finished by somebody.                                *)
(* Refuted by TLC: see "Where code and docs disagree" in the README.       *)
ConnectionsFinished == \A c \in Conns : c \in open ~> c \notin open

=============================================================================
