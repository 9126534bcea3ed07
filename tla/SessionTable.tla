---------------------------- MODULE SessionTable ----------------------------
(***************************************************************************)
(* The daemon's table of sessions (src/backend/daemon/daemon.c): a heap    *)
(* array `sessions` that session_create grows with realloc under the       *)
(* write half of session_lock, that session_find scans under the read      *)
(* half, and that the accept loop serialises under the read half every few *)
(* connections.                                                            *)
(*                                                                         *)
(* A client thread keeps the `Session *` it got for as long as it serves   *)
(* its connection.  The pointer is modelled by the array block it points   *)
(* into and an index; it is dangling once realloc has moved the array.     *)
(***************************************************************************)
EXTENDS Integers, Sequences, FiniteSets, FiniteSetsExt

CONSTANTS
  Threads,      \* client threads; a member stands for one pthread_self() value
  Main,         \* the accept loop's thread, the only one that checkpoints
  NoThread,     \* "nobody holds the write lock"
  MaxSessions,  \* bound: sessions created in a behaviour
  MaxTime       \* bound: seconds time(NULL) advances

ASSUME ThreadsAssumption ==
  /\ Main \notin Threads
  /\ NoThread \notin Threads \cup {Main}
  /\ MaxSessions \in Nat
  /\ MaxTime \in Nat

VARIABLES
  sessions,   \* the array: records [id, ready]; ready = all fields assigned
  block,      \* which heap block the array occupies; realloc may change it
  writer,     \* holder of the write half of session_lock, or NoThread
  readers,    \* holders of the read half
  pc,         \* where each client thread stands
  ptr,        \* the Session pointer each client thread holds
  wanted,     \* the session_id a widget request names, or NoId
  made,       \* the Session pointer a "session create" request got back
  reply,      \* the id it was answered with
  scan,       \* checkpoint_save's loop index, -1 outside the loop
  snapshot,   \* the sessions checkpoint_save has serialised so far
  now         \* time(NULL)

vars == <<sessions, block, writer, readers, pc, ptr, wanted, made, reply,
          scan, snapshot, now>>

-----------------------------------------------------------------------------
(* A session id is the text of time(NULL) and pthread_self().              *)
Ids == [time : 0..MaxTime, self : Threads]

NoId  == [time |-> -1, self |-> NoThread]
UnknownId == [time |-> 0, self |-> Main]   \* an id no session has
NoPtr == [block |-> -1, index |-> 0]
Pointers == [block : Nat \cup {-1}, index : Nat]
Rows == [id : Ids \cup {NoId}, ready : BOOLEAN]

Holding == {"realloc", "assign", "unlock", "realloc2", "assign2", "unlock2"}
Scanning == {"find", "found"}

TypeOK ==
  /\ sessions \in Seq(Rows)
  /\ block \in Nat
  /\ writer \in Threads \cup {NoThread}
  /\ readers \subseteq Threads \cup {Main}
  /\ pc \in [Threads -> {"idle", "create", "rdlock", "use", "create2", "answer"}
                          \cup Holding \cup Scanning]
  /\ ptr \in [Threads -> Pointers]
  /\ wanted \in [Threads -> Ids \cup {NoId, UnknownId}]
  /\ made \in [Threads -> Pointers]
  /\ reply \in [Threads -> Ids \cup {NoId}]
  /\ scan \in Nat \cup {-1}
  /\ snapshot \in Seq(Rows)
  /\ now \in 0..MaxTime

Init ==
  /\ sessions = <<>>
  /\ block = 0
  /\ writer = NoThread
  /\ readers = {}
  /\ pc = [t \in Threads |-> "idle"]
  /\ ptr = [t \in Threads |-> NoPtr]
  /\ wanted = [t \in Threads |-> NoId]
  /\ made = [t \in Threads |-> NoPtr]
  /\ reply = [t \in Threads |-> NoId]
  /\ scan = -1
  /\ snapshot = <<>>
  /\ now = 0

Goto(t, there) == pc' = [pc EXCEPT ![t] = there]

(* realloc has moved the array since p was taken.                          *)
Dangling(p) == p.block # block

(* Bound: slots are reserved when a creation starts, so that none blocks.  *)
Creating == {t \in Threads : pc[t] \in {"create", "realloc", "create2", "realloc2"}}
Room == Len(sessions) + Cardinality(Creating) < MaxSessions

-----------------------------------------------------------------------------
(* A client thread.  Every connection creates a session, whatever it asks. *)

(* handle_client has parsed its request: a widget request may carry a      *)
(* session_id (one a client has seen, or a stale one), others carry none.  *)
Accept(t) ==
  /\ pc[t] = "idle"
  /\ Room
  /\ Goto(t, "create")
  /\ wanted' \in {[wanted EXCEPT ![t] = id] :
                    id \in {NoId, UnknownId} \cup {reply[u] : u \in Threads}}
  /\ UNCHANGED <<sessions, block, writer, readers, ptr, made, reply, scan, snapshot, now>>

(* pthread_rwlock_wrlock(&session_lock)                                    *)
WrLock(t, here, there) ==
  /\ pc[t] = here
  /\ writer = NoThread
  /\ readers = {}
  /\ writer' = t
  /\ Goto(t, there)
  /\ UNCHANGED <<sessions, block, readers, ptr, wanted, made, reply, scan, snapshot, now>>

(* sessions = realloc(...); session_count++: the new slot holds garbage,   *)
(* and the array either stays where it is or moves.                        *)
Grow(t, here, there) ==
  /\ pc[t] = here
  /\ sessions' = Append(sessions, [id |-> NoId, ready |-> FALSE])
  /\ block' \in IF sessions = <<>> THEN {block + 1} ELSE {block, block + 1}
  /\ Goto(t, there)
  /\ UNCHANGED <<writer, readers, ptr, wanted, made, reply, scan, snapshot, now>>

(* Mutant of Assign: the fields are written through the array's start.     *)
AssignFirstSlot(t, here, there) ==
  /\ pc[t] = here
  /\ sessions' = [sessions EXCEPT ![1] = [id |-> [time |-> now, self |-> t], ready |-> TRUE]]
  /\ LET s == [block |-> block, index |-> Len(sessions)] IN
       IF here = "assign" THEN ptr' = [ptr EXCEPT ![t] = s] /\ UNCHANGED made
                          ELSE made' = [made EXCEPT ![t] = s] /\ UNCHANGED ptr
  /\ Goto(t, there)
  /\ UNCHANGED <<block, writer, readers, wanted, reply, scan, snapshot, now>>

(* The assignments to the new slot; s is about to be returned.             *)
Assign(t, here, there) ==
  /\ pc[t] = here
  /\ sessions' = [sessions EXCEPT ![Len(sessions)] =
                    [id |-> [time |-> now, self |-> t], ready |-> TRUE]]
  /\ LET s == [block |-> block, index |-> Len(sessions)] IN
       IF here = "assign" THEN ptr' = [ptr EXCEPT ![t] = s] /\ UNCHANGED made
                          ELSE made' = [made EXCEPT ![t] = s] /\ UNCHANGED ptr
  /\ Goto(t, there)
  /\ UNCHANGED <<block, writer, readers, wanted, reply, scan, snapshot, now>>

WrUnlock(t, here, there) ==
  /\ pc[t] = here
  /\ writer' = NoThread
  /\ Goto(t, there)
  /\ UNCHANGED <<sessions, block, readers, ptr, wanted, made, reply, scan, snapshot, now>>

session_create(t) ==
  \/ WrLock(t, "create", "realloc")
  \/ Grow(t, "realloc", "assign")
  \/ Assign(t, "assign", "unlock")
  \/ WrUnlock(t, "unlock", IF wanted[t] = NoId THEN "use" ELSE "rdlock")

(* The request names a session: look it up under the read lock.            *)
RdLock(t) ==
  /\ pc[t] = "rdlock"
  /\ writer = NoThread
  /\ readers' = readers \cup {t}
  /\ Goto(t, "find")
  /\ UNCHANGED <<sessions, block, writer, ptr, wanted, made, reply, scan, snapshot, now>>

(* The first entry whose id matches (sessions are never deactivated).      *)
Matches(id) == {i \in DOMAIN sessions : sessions[i].id = id}

(* Mutant of session_find: the newest session is returned unchecked.       *)
FindLastSlot(t) ==
  /\ pc[t] = "find"
  /\ ptr' = [ptr EXCEPT ![t] = [block |-> block, index |-> Len(sessions)]]
  /\ Goto(t, "found")
  /\ UNCHANGED <<sessions, block, writer, readers, wanted, made, reply, scan, snapshot, now>>

session_find(t) ==
  /\ pc[t] = "find"
  /\ \/ Matches(wanted[t]) = {} /\ UNCHANGED ptr
     \/ \E i \in Matches(wanted[t]) :
          /\ \A j \in Matches(wanted[t]) : i <= j
          /\ ptr' = [ptr EXCEPT ![t] = [block |-> block, index |-> i]]
  /\ Goto(t, "found")
  /\ UNCHANGED <<sessions, block, writer, readers, wanted, made, reply, scan, snapshot, now>>

RdUnlock(t) ==
  /\ pc[t] = "found"
  /\ readers' = readers \ {t}
  /\ Goto(t, "use")
  /\ UNCHANGED <<sessions, block, writer, ptr, wanted, made, reply, scan, snapshot, now>>

(* g_active_store = session->store and whatever dispatch_message does with *)
(* the session, with no lock held.  A connection is then over, or asks for *)
(* a session of its own, or (the GUI loop) sends another message.          *)
Use(t) ==
  /\ pc[t] = "use"
  /\ \/ /\ Goto(t, "idle")
        /\ ptr' = [ptr EXCEPT ![t] = NoPtr]
     \/ /\ wanted[t] = NoId
        /\ Room
        /\ Goto(t, "create2")
        /\ UNCHANGED ptr
  /\ UNCHANGED <<sessions, block, writer, readers, wanted, made, reply, scan, snapshot, now>>

(* {"type":"session","action":"create"}: session_create once more, then    *)
(* the new id goes back to the client.                                     *)
HandleCreate(t) ==
  \/ WrLock(t, "create2", "realloc2")
  \/ Grow(t, "realloc2", "assign2")
  \/ Assign(t, "assign2", "unlock2")
  \/ WrUnlock(t, "unlock2", "answer")

(* s->id is read without the lock: garbage if the array has moved.         *)
Answer(t) ==
  /\ pc[t] = "answer"
  /\ \E id \in {sessions[made[t].index].id} \cup (IF Dangling(made[t]) THEN {NoId} ELSE {}) :
       reply' = [reply EXCEPT ![t] = id]
  /\ Goto(t, "use")
  /\ UNCHANGED <<sessions, block, writer, readers, ptr, wanted, made, scan, snapshot, now>>

-----------------------------------------------------------------------------
(* The accept loop: checkpoint_save under the read lock, entry by entry.   *)

(* Mutant of CheckpointLock: the table is serialised without the lock.     *)
CheckpointLockForgotten ==
  /\ scan = -1
  /\ scan' = 0
  /\ snapshot' = <<>>
  /\ UNCHANGED <<sessions, block, writer, readers, pc, ptr, wanted, made, reply, now>>

CheckpointLock ==
  /\ scan = -1
  /\ writer = NoThread
  /\ readers' = readers \cup {Main}
  /\ scan' = 0
  /\ snapshot' = <<>>
  /\ UNCHANGED <<sessions, block, writer, pc, ptr, wanted, made, reply, now>>

CheckpointEntry ==
  /\ scan # -1
  /\ scan < Len(sessions)
  /\ snapshot' = Append(snapshot, sessions[scan + 1])
  /\ scan' = scan + 1
  /\ UNCHANGED <<sessions, block, writer, readers, pc, ptr, wanted, made, reply, now>>

CheckpointUnlock ==
  /\ scan = Len(sessions)
  /\ readers' = readers \ {Main}
  /\ scan' = -1
  /\ UNCHANGED <<sessions, block, writer, pc, ptr, wanted, made, reply, snapshot, now>>

Tick ==
  /\ now < MaxTime
  /\ now' = now + 1
  /\ UNCHANGED <<sessions, block, writer, readers, pc, ptr, wanted, made, reply, scan, snapshot>>

Next ==
  \/ \E t \in Threads :
       \/ Accept(t) \/ session_create(t)
       \/ RdLock(t) \/ session_find(t) \/ RdUnlock(t)
       \/ Use(t) \/ HandleCreate(t) \/ Answer(t)
  \/ CheckpointLock \/ CheckpointEntry \/ CheckpointUnlock
  \/ Tick

Spec == Init /\ [][Next]_vars

-----------------------------------------------------------------------------
(* What checkpoint_save serialises is, at every moment, the initial part   *)
(* of the table as it is now, and never contains a slot that               *)
(* session_create has allocated but not yet filled in.                     *)
SnapshotConsistent ==
  /\ scan # -1 => /\ scan <= Len(sessions)
                  /\ Len(snapshot) = scan
                  /\ \A i \in 1..scan : snapshot[i] = sessions[i]
  /\ \A i \in 1..Len(snapshot) : snapshot[i].ready

(* A session that session_create has filled in is never overwritten, moved *)
(* to another index or dropped by a concurrent session_create.             *)
SessionsStable ==
  [][\A i \in 1..Len(sessions) :
       sessions[i].ready => /\ i \in 1..Len(sessions')
                            /\ sessions'[i] = sessions[i]]_sessions

(* A widget request that names an id the daemon has handed out is served   *)
(* with a session of that id, however the table has grown meanwhile; one   *)
(* that names an id nobody has is served with a session of its own.        *)
AttachFindsSession ==
  \A t \in Threads :
    pc[t] \in {"found", "use"} /\ wanted[t] # NoId =>
      /\ ptr[t].index \in DOMAIN sessions
      /\ LET id == sessions[ptr[t].index].id IN
           IF wanted[t] = UnknownId THEN id.self = t ELSE id = wanted[t]

(* The strengthening from which TypeOK, SnapshotConsistent and             *)
(* SessionsStable follow: session_lock excludes as a readers-writer lock   *)
(* does, and only its holder can meet a slot that is not filled in.        *)
LockInv ==
  /\ \A t \in Threads : writer = t <=> pc[t] \in Holding
  /\ writer # NoThread => readers = {}
  /\ scan # -1 <=> Main \in readers

SlotInv ==
  /\ \A i \in 1..Len(sessions) :
       ~sessions[i].ready => /\ i = Len(sessions)
                             /\ \E t \in Threads : pc[t] \in {"assign", "assign2"}
  /\ \A t \in Threads :
       pc[t] \in {"assign", "assign2"} => /\ Len(sessions) # 0
                                         /\ ~sessions[Len(sessions)].ready
  /\ \A t \in Threads :
       pc[t] \in {"unlock2", "answer"} => made[t].index \in 1..Len(sessions)

(* The table's readers and its writer never meet: the lock's promise, the  *)
(* discipline of the slots, and what checkpoint_save has copied.           *)
IInv == TypeOK /\ LockInv /\ SlotInv /\ SnapshotConsistent

(* What AttachFindsSession rests on: an id that was answered or is being   *)
(* looked up stays the id of a session that is filled in, and the session  *)
(* a thread holds before session_find is the one it created itself.        *)
Known(id) == \E i \in DOMAIN sessions : sessions[i].ready /\ sessions[i].id = id
Filled(p) == p.index \in DOMAIN sessions /\ sessions[p.index].ready

RowInv ==
  \A i \in DOMAIN sessions :
    IF sessions[i].ready THEN sessions[i].id \in Ids ELSE sessions[i].id = NoId

ThreadInv(t) ==
  /\ reply[t] # NoId => Known(reply[t])
  /\ wanted[t] \notin {NoId, UnknownId} => Known(wanted[t])
  /\ pc[t] \in {"rdlock", "find"} => wanted[t] # NoId
  /\ pc[t] \in {"create2", "realloc2", "assign2", "unlock2", "answer"} => wanted[t] = NoId
  /\ pc[t] \in {"unlock2", "answer"} => Filled(made[t])
  /\ \/ pc[t] \in {"unlock", "rdlock", "find"}
     \/ pc[t] \in {"found", "use"} /\ wanted[t] = UnknownId
     => Filled(ptr[t]) /\ sessions[ptr[t].index].id.self = t
  /\ pc[t] \in {"found", "use"} /\ wanted[t] \notin {NoId, UnknownId}
     => Filled(ptr[t]) /\ sessions[ptr[t].index].id = wanted[t]

AttachInv == RowInv /\ \A t \in Threads : ThreadInv(t)

(* CHANGELOG.md:43 claims thread safety of the session table: no thread    *)
(* is about to go through a Session pointer into an array realloc has      *)
(* released.                                                               *)
NoDanglingSession ==
  \A t \in Threads :
    /\ pc[t] = "use" => ~Dangling(ptr[t])
    /\ pc[t] = "answer" => ~Dangling(made[t])

=============================================================================
