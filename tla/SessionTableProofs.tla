------------------------- MODULE SessionTableProofs -------------------------
(***************************************************************************)
(* Proofs about SessionTable for any set of threads and any bounds.        *)
(***************************************************************************)
EXTENDS SessionTable, TLAPS

(* The initial state satisfies the inductive invariant.                    *)
LEMMA InitIInv == Init => IInv
  <1> SUFFICES ASSUME Init PROVE IInv
    OBVIOUS
  <1>1. TypeOK
    BY ThreadsAssumption DEF Init, TypeOK, Pointers, Rows, NoId, NoPtr, Ids, Holding, Scanning
  <1>2. LockInv
    BY ThreadsAssumption DEF Init, LockInv, Holding
  <1>3. SlotInv
    BY DEF Init, SlotInv
  <1>4. SnapshotConsistent
    BY DEF Init, SnapshotConsistent
  <1> QED BY <1>1, <1>2, <1>3, <1>4 DEF IInv

(* Taking session_lock for writing preserves the invariant.                *)
LEMMA WrLockIInv ==
  ASSUME IInv, NEW t \in Threads, NEW h, NEW g,
         <<h, g>> \in {<<"create", "realloc">>, <<"create2", "realloc2">>},
         WrLock(t, h, g)
  PROVE  IInv'
  <1> USE DEF IInv
  <1>1. TypeOK'
    BY DEF TypeOK, WrLock, Goto, Holding
  <1>2. LockInv'
    BY ThreadsAssumption DEF TypeOK, LockInv, WrLock, Goto, Holding
  <1>3. SlotInv'
    BY DEF TypeOK, SlotInv, WrLock, Goto
  <1>4. SnapshotConsistent'
    BY DEF SnapshotConsistent, WrLock
  <1> QED BY <1>1, <1>2, <1>3, <1>4

(* So does growing the array by a slot that is not yet filled in.          *)
LEMMA GrowIInv ==
  ASSUME IInv, NEW t \in Threads, NEW h, NEW g,
         <<h, g>> \in {<<"realloc", "assign">>, <<"realloc2", "assign2">>},
         Grow(t, h, g)
  PROVE  IInv'
  <1> USE DEF IInv
  <1> DEFINE slot == [id |-> NoId, ready |-> FALSE]
  <1>0. /\ slot \in Rows
        /\ sessions \in Seq(Rows)
        /\ sessions' = Append(sessions, slot)
    BY DEF Rows, TypeOK, Grow
  <1>a. /\ Len(sessions') = Len(sessions) + 1
        /\ sessions'[Len(sessions')] = slot
        /\ \A i \in 1..Len(sessions) : sessions'[i] = sessions[i]
        /\ Len(sessions) \in Nat
        /\ sessions' \in Seq(Rows)
    BY <1>0
  <1>b. writer = t /\ scan = -1
    BY ThreadsAssumption DEF LockInv, Grow, Holding
  <1>1. TypeOK'
    BY <1>a DEF TypeOK, Grow, Goto, Holding, Rows
  <1>2. LockInv'
    BY ThreadsAssumption DEF TypeOK, LockInv, Grow, Goto, Holding
  <1>c. \A u \in Threads : pc[u] \notin {"assign", "assign2"}
    BY <1>b DEF LockInv, Grow, Holding
  <1>d. \A i \in 1..Len(sessions) : sessions[i].ready
    BY <1>c DEF SlotInv
  <1>e. /\ pc' = [pc EXCEPT ![t] = g]
        /\ made' = made
        /\ g \in {"assign", "assign2"}
    BY DEF Grow, Goto
  <1>3. SlotInv'
    <2>0. pc'[t] \in {"assign", "assign2"}
      BY <1>e DEF TypeOK
    <2>1. ASSUME NEW i \in 1..Len(sessions'), ~sessions'[i].ready
          PROVE  i = Len(sessions')
      <3>1. CASE i \in 1..Len(sessions)
        BY <3>1, <2>1, <1>a, <1>d
      <3> QED BY <3>1, <1>a
    <2>2. (\A u \in Threads :
             pc[u] \in {"assign", "assign2"} => /\ Len(sessions) # 0
                                               /\ ~sessions[Len(sessions)].ready)'
      BY <1>a
    <2>3. (\A u \in Threads :
             pc[u] \in {"unlock2", "answer"} => made[u].index \in 1..Len(sessions))'
      BY <1>a, <1>e DEF SlotInv, TypeOK
    <2> QED BY <2>0, <2>1, <2>2, <2>3 DEF SlotInv
  <1>4. SnapshotConsistent'
    BY <1>b DEF SnapshotConsistent, Grow
  <1> QED BY <1>1, <1>2, <1>3, <1>4

(* So do the assignments that fill the slot in.                            *)
LEMMA AssignIInv ==
  ASSUME IInv, NEW t \in Threads, NEW h, NEW g,
         <<h, g>> \in {<<"assign", "unlock">>, <<"assign2", "unlock2">>},
         Assign(t, h, g)
  PROVE  IInv'
  <1> USE DEF IInv
  <1> DEFINE slot == [id |-> [time |-> now, self |-> t], ready |-> TRUE]
  <1>0. /\ slot \in Rows
        /\ sessions \in Seq(Rows)
        /\ sessions' = [sessions EXCEPT ![Len(sessions)] = slot]
        /\ Len(sessions) # 0
    BY DEF Rows, TypeOK, Assign, Ids, SlotInv
  <1>a. /\ Len(sessions') = Len(sessions)
        /\ sessions'[Len(sessions)] = slot
        /\ \A i \in 1..Len(sessions) : i # Len(sessions) => sessions'[i] = sessions[i]
        /\ Len(sessions) \in Nat \ {0}
        /\ sessions' \in Seq(Rows)
    BY <1>0
  <1>b. writer = t /\ scan = -1
    BY ThreadsAssumption DEF LockInv, Assign, Holding
  <1>e. /\ pc' = [pc EXCEPT ![t] = g]
        /\ g \in {"unlock", "unlock2"}
        /\ g = "unlock2" => made' = [made EXCEPT ![t] = [block |-> block, index |-> Len(sessions)]]
        /\ g # "unlock2" => made' = made
    BY DEF Assign, Goto
  <1>p. [block |-> block, index |-> Len(sessions)] \in Pointers
    BY <1>a DEF TypeOK, Pointers
  <1>f. /\ ptr' \in [Threads -> Pointers]
        /\ made' \in [Threads -> Pointers]
    BY <1>p DEF Assign, TypeOK
  <1>1. TypeOK'
    BY <1>a, <1>f DEF TypeOK, Assign, Goto, Holding, Rows
  <1>2. LockInv'
    BY ThreadsAssumption DEF TypeOK, LockInv, Assign, Goto, Holding
  <1>3. SlotInv'
    <2>0. \A i \in 1..Len(sessions) : i # Len(sessions) => sessions[i].ready
      BY DEF SlotInv
    <2>1. \A i \in 1..Len(sessions') : sessions'[i].ready
      BY <2>0, <1>a
    <2>2. \A u \in Threads : pc'[u] \notin {"assign", "assign2"}
      BY <1>b, <1>e DEF LockInv, Holding, TypeOK
    <2>3. ASSUME NEW u \in Threads, pc'[u] \in {"unlock2", "answer"}
          PROVE  made'[u].index \in 1..Len(sessions')
      <3>1. CASE u = t
        BY <3>1, <2>3, <1>a, <1>e DEF TypeOK
      <3>2. CASE u # t
        BY <3>2, <2>3, <1>a, <1>e DEF TypeOK, SlotInv
      <3> QED BY <3>1, <3>2
    <2> QED BY <2>1, <2>2, <2>3 DEF SlotInv
  <1>4. SnapshotConsistent'
    BY <1>b DEF SnapshotConsistent, Assign
  <1> QED BY <1>1, <1>2, <1>3, <1>4

(* So does releasing the lock once the slot is filled in.                  *)
LEMMA WrUnlockIInv ==
  ASSUME IInv, NEW t \in Threads, NEW h, NEW g,
         \/ h = "unlock" /\ g \in {"use", "rdlock"}
         \/ h = "unlock2" /\ g = "answer",
         WrUnlock(t, h, g)
  PROVE  IInv'
  <1> USE DEF IInv
  <1>1. TypeOK'
    BY DEF TypeOK, WrUnlock, Goto
  <1>2. LockInv'
    BY ThreadsAssumption DEF TypeOK, LockInv, WrUnlock, Goto, Holding
  <1>3. SlotInv'
    BY DEF TypeOK, SlotInv, WrUnlock, Goto
  <1>4. SnapshotConsistent'
    BY DEF SnapshotConsistent, WrUnlock
  <1> QED BY <1>1, <1>2, <1>3, <1>4

(* The steps of a client thread that leave the table alone.                *)
LEMMA ClientIInv ==
  ASSUME IInv, NEW t \in Threads,
         \/ Accept(t) \/ RdLock(t) \/ session_find(t)
         \/ RdUnlock(t) \/ Use(t) \/ Answer(t)
  PROVE  IInv'
  <1> USE DEF IInv
  <1>1. CASE Accept(t)
    <2>0. PICK id \in {NoId, UnknownId} \cup {reply[u] : u \in Threads} :
            wanted' = [wanted EXCEPT ![t] = id]
      BY <1>1 DEF Accept
    <2>a. id \in Ids \cup {NoId, UnknownId}
      BY DEF TypeOK
    <2>1. TypeOK'
      BY <1>1, <2>0, <2>a DEF TypeOK, Accept, Goto
    <2>2. LockInv'
      BY <1>1 DEF TypeOK, LockInv, Accept, Goto, Holding
    <2>3. SlotInv'
      BY <1>1 DEF TypeOK, SlotInv, Accept, Goto
    <2>4. SnapshotConsistent'
      BY <1>1 DEF SnapshotConsistent, Accept
    <2> QED BY <2>1, <2>2, <2>3, <2>4
  <1>2. CASE RdLock(t)
    <2>1. TypeOK'
      BY <1>2 DEF TypeOK, RdLock, Goto, Scanning
    <2>2. LockInv'
      BY <1>2, ThreadsAssumption DEF TypeOK, LockInv, RdLock, Goto, Holding
    <2>3. SlotInv'
      BY <1>2 DEF TypeOK, SlotInv, RdLock, Goto
    <2>4. SnapshotConsistent'
      BY <1>2 DEF SnapshotConsistent, RdLock
    <2> QED BY <2>1, <2>2, <2>3, <2>4
  <1>3. CASE session_find(t)
    <2>0. ptr' \in [Threads -> Pointers]
      <3>1. \A i \in Matches(wanted[t]) : [block |-> block, index |-> i] \in Pointers
        BY DEF Matches, TypeOK, Pointers
      <3> QED BY <1>3, <3>1 DEF session_find, TypeOK
    <2>1. TypeOK'
      BY <1>3, <2>0 DEF TypeOK, session_find, Goto, Scanning
    <2>2. LockInv'
      BY <1>3 DEF TypeOK, LockInv, session_find, Goto, Holding
    <2>3. SlotInv'
      BY <1>3 DEF TypeOK, SlotInv, session_find, Goto
    <2>4. SnapshotConsistent'
      BY <1>3 DEF SnapshotConsistent, session_find
    <2> QED BY <2>1, <2>2, <2>3, <2>4
  <1>4. CASE RdUnlock(t)
    <2>1. TypeOK'
      BY <1>4 DEF TypeOK, RdUnlock, Goto
    <2>2. LockInv'
      BY <1>4, ThreadsAssumption DEF TypeOK, LockInv, RdUnlock, Goto, Holding
    <2>3. SlotInv'
      BY <1>4 DEF TypeOK, SlotInv, RdUnlock, Goto
    <2>4. SnapshotConsistent'
      BY <1>4 DEF SnapshotConsistent, RdUnlock
    <2> QED BY <2>1, <2>2, <2>3, <2>4
  <1>5. CASE Use(t)
    <2>0. NoPtr \in Pointers
      BY DEF NoPtr, Pointers
    <2>1. TypeOK'
      BY <1>5, <2>0 DEF TypeOK, Use, Goto
    <2>2. LockInv'
      BY <1>5 DEF TypeOK, LockInv, Use, Goto, Holding
    <2>3. SlotInv'
      BY <1>5 DEF TypeOK, SlotInv, Use, Goto
    <2>4. SnapshotConsistent'
      BY <1>5 DEF SnapshotConsistent, Use
    <2> QED BY <2>1, <2>2, <2>3, <2>4
  <1>6. CASE Answer(t)
    <2>0. made[t].index \in 1..Len(sessions)
      BY <1>6 DEF Answer, SlotInv
    <2>r. sessions[made[t].index] \in Rows
      BY <2>0 DEF TypeOK
    <2>a. sessions[made[t].index].id \in Ids \cup {NoId}
      BY <2>r DEF Rows
    <2>b. PICK id \in Ids \cup {NoId} :
            reply' = [reply EXCEPT ![t] = id]
      BY <1>6, <2>a DEF Answer
    <2>1. TypeOK'
      <3>1. made[t].index \in Nat
        BY DEF TypeOK, Pointers
      <3>2. [id |-> id, index |-> made[t].index] \in [id : Ids \cup {NoId}, index : Nat]
        BY <3>1
      <3>3. reply' \in [Threads -> Ids \cup {NoId}]
        BY <2>b, <3>2 DEF TypeOK
      <3> QED BY <1>6, <3>3 DEF TypeOK, Answer, Goto
    <2>2. LockInv'
      BY <1>6 DEF TypeOK, LockInv, Answer, Goto, Holding
    <2>3. SlotInv'
      BY <1>6 DEF TypeOK, SlotInv, Answer, Goto
    <2>4. SnapshotConsistent'
      BY <1>6 DEF SnapshotConsistent, Answer
    <2> QED BY <2>1, <2>2, <2>3, <2>4
  <1> QED BY <1>1, <1>2, <1>3, <1>4, <1>5, <1>6

(* The accept loop's serialisation of the table, and the clock.            *)
LEMMA MainIInv ==
  ASSUME IInv,
         CheckpointLock \/ CheckpointEntry \/ CheckpointUnlock \/ Tick
  PROVE  IInv'
  <1> USE DEF IInv
  <1>1. CASE CheckpointLock
    <2>1. TypeOK'
      BY <1>1 DEF TypeOK, CheckpointLock
    <2>2. LockInv'
      BY <1>1 DEF LockInv, CheckpointLock, Holding
    <2>3. SlotInv'
      BY <1>1 DEF SlotInv, CheckpointLock
    <2>4. SnapshotConsistent'
      BY <1>1 DEF SnapshotConsistent, CheckpointLock, TypeOK
    <2> QED BY <2>1, <2>2, <2>3, <2>4
  <1>2. CASE CheckpointEntry
    <2> DEFINE row == sessions[scan + 1]
    <2>0. /\ scan \in Nat
          /\ Len(sessions) \in Nat
          /\ scan + 1 \in 1..Len(sessions)
          /\ snapshot \in Seq(Rows)
          /\ sessions \in Seq(Rows)
          /\ snapshot' = Append(snapshot, row)
          /\ scan' = scan + 1
          /\ sessions' = sessions
          /\ Len(snapshot) = scan
      BY <1>2 DEF TypeOK, CheckpointEntry, SnapshotConsistent, Rows
    <2>a. row \in Rows
      BY <2>0
    <2>b. /\ Len(snapshot') = scan + 1
          /\ snapshot'[scan + 1] = row
          /\ \A i \in 1..scan : snapshot'[i] = snapshot[i]
          /\ snapshot' \in Seq(Rows)
      BY <2>0, <2>a
    <2>c. writer = NoThread
      BY <1>2 DEF LockInv, CheckpointEntry, TypeOK
    <2>d. \A i \in 1..Len(sessions) : sessions[i].ready
      BY <2>c, ThreadsAssumption DEF SlotInv, LockInv, Holding
    <2>1. TypeOK'
      BY <1>2, <2>0, <2>b DEF TypeOK, CheckpointEntry, Rows
    <2>2. LockInv'
      BY <1>2, <2>0 DEF LockInv, CheckpointEntry, Holding
    <2>3. SlotInv'
      BY <1>2 DEF SlotInv, CheckpointEntry
    <2>4. SnapshotConsistent'
      <3>1. \A i \in 1..scan : snapshot[i] = sessions[i]
        BY <2>0 DEF SnapshotConsistent
      <3>2. \A i \in 1..scan + 1 : snapshot'[i] = sessions[i]
        BY <3>1, <2>0, <2>b
      <3> QED BY <3>2, <2>0, <2>b, <2>d DEF SnapshotConsistent
    <2> QED BY <2>1, <2>2, <2>3, <2>4
  <1>3. CASE CheckpointUnlock
    <2>1. TypeOK'
      BY <1>3 DEF TypeOK, CheckpointUnlock
    <2>2. LockInv'
      BY <1>3, ThreadsAssumption DEF LockInv, CheckpointUnlock, Holding
    <2>3. SlotInv'
      BY <1>3 DEF SlotInv, CheckpointUnlock
    <2>4. SnapshotConsistent'
      BY <1>3 DEF SnapshotConsistent, CheckpointUnlock
    <2> QED BY <2>1, <2>2, <2>3, <2>4
  <1>4. CASE Tick
    <2>1. TypeOK'
      BY <1>4, ThreadsAssumption DEF TypeOK, Tick
    <2>2. LockInv'
      BY <1>4 DEF LockInv, Tick, Holding
    <2>3. SlotInv'
      BY <1>4 DEF SlotInv, Tick
    <2>4. SnapshotConsistent'
      BY <1>4 DEF SnapshotConsistent, Tick
    <2> QED BY <2>1, <2>2, <2>3, <2>4
  <1> QED BY <1>1, <1>2, <1>3, <1>4

(* Every step of the daemon preserves the invariant.                       *)
LEMMA NextIInv == IInv /\ [Next]_vars => IInv'
  <1> SUFFICES ASSUME IInv, [Next]_vars PROVE IInv'
    OBVIOUS
  <1>1. ASSUME NEW t \in Threads, session_create(t) PROVE IInv'
    <2>1. CASE WrLock(t, "create", "realloc")
      BY <2>1, WrLockIInv
    <2>2. CASE Grow(t, "realloc", "assign")
      BY <2>2, GrowIInv
    <2>3. CASE Assign(t, "assign", "unlock")
      BY <2>3, AssignIInv
    <2>4. CASE WrUnlock(t, "unlock", IF wanted[t] = NoId THEN "use" ELSE "rdlock")
      <3> DEFINE g == IF wanted[t] = NoId THEN "use" ELSE "rdlock"
      <3>1. g \in {"use", "rdlock"}
        OBVIOUS
      <3> QED BY <2>4, <3>1, WrUnlockIInv
    <2> QED BY <1>1, <2>1, <2>2, <2>3, <2>4 DEF session_create
  <1>2. ASSUME NEW t \in Threads, HandleCreate(t) PROVE IInv'
    <2>1. CASE WrLock(t, "create2", "realloc2")
      BY <2>1, WrLockIInv
    <2>2. CASE Grow(t, "realloc2", "assign2")
      BY <2>2, GrowIInv
    <2>3. CASE Assign(t, "assign2", "unlock2")
      BY <2>3, AssignIInv
    <2>4. CASE WrUnlock(t, "unlock2", "answer")
      BY <2>4, WrUnlockIInv
    <2> QED BY <1>2, <2>1, <2>2, <2>3, <2>4 DEF HandleCreate
  <1>3. CASE UNCHANGED vars
    BY <1>3 DEF vars, IInv, TypeOK, LockInv, SlotInv, SnapshotConsistent, Holding
  <1> QED BY <1>1, <1>2, <1>3, ClientIInv, MainIInv DEF Next

(* TypeOK is an invariant of the table for every set of threads.           *)
THEOREM TypeCorrect == Spec => []TypeOK
  <1>1. IInv => TypeOK
    BY DEF IInv
  <1> QED BY <1>1, InitIInv, NextIInv, PTL DEF Spec

(* checkpoint_save never serialises a slot that session_create has not     *)
(* filled in, and never a stale row, however many threads create sessions  *)
(* while the accept loop walks the table (daemon.c, checkpoint.c).         *)
THEOREM SnapshotCorrect == Spec => []SnapshotConsistent
  <1>1. IInv => SnapshotConsistent
    BY DEF IInv
  <1> QED BY <1>1, InitIInv, NextIInv, PTL DEF Spec

(* No step of the daemon overwrites, moves or drops a session that is      *)
(* filled in: realloc only appends, and the slot that is assigned is the   *)
(* one its thread appended under the same lock.                            *)
Kept == \A i \in 1..Len(sessions) :
          sessions[i].ready => /\ i \in 1..Len(sessions')
                               /\ sessions'[i] = sessions[i]

LEMMA NextKept == IInv /\ [Next]_vars => Kept
  <1> SUFFICES ASSUME IInv, [Next]_vars PROVE Kept
    OBVIOUS
  <1>0. /\ sessions \in Seq(Rows)
        /\ Len(sessions) \in Nat
    BY DEF IInv, TypeOK
  <1>1. ASSUME NEW t \in Threads, NEW h, NEW g, Grow(t, h, g) PROVE Kept
    <2>1. sessions' = Append(sessions, [id |-> NoId, ready |-> FALSE])
      BY <1>1 DEF Grow
    <2> QED BY <1>0, <2>1 DEF Kept
  <1>2. ASSUME NEW t \in Threads, NEW h \in {"assign", "assign2"}, NEW g, Assign(t, h, g)
        PROVE  Kept
    <2>1. /\ pc[t] = h
          /\ sessions' = [sessions EXCEPT ![Len(sessions)] =
                            [id |-> [time |-> now, self |-> t], ready |-> TRUE]]
      BY <1>2 DEF Assign
    <2>2. ~sessions[Len(sessions)].ready
      BY <2>1 DEF IInv, SlotInv
    <2>3. /\ Len(sessions') = Len(sessions)
          /\ \A i \in 1..Len(sessions) : i # Len(sessions) => sessions'[i] = sessions[i]
      BY <2>1, <1>0
    <2> QED BY <2>2, <2>3, <1>0 DEF Kept
  <1>3. sessions' = sessions => Kept
    BY DEF Kept
  <1>4. ASSUME NEW t \in Threads, session_create(t) PROVE Kept
    BY <1>1, <1>2, <1>3, <1>4 DEF session_create, WrLock, WrUnlock
  <1>5. ASSUME NEW t \in Threads, HandleCreate(t) PROVE Kept
    BY <1>1, <1>2, <1>3, <1>5 DEF HandleCreate, WrLock, WrUnlock
  <1> QED BY <1>3, <1>4, <1>5
       DEF Next, vars, Accept, RdLock, session_find, RdUnlock, Use, Answer,
           CheckpointLock, CheckpointEntry, CheckpointUnlock, Tick

(* No session_create overwrites, moves or drops a session another thread's *)
(* session_create has filled in, whatever the threads do meanwhile.        *)
THEOREM SessionsKept == Spec => SessionsStable
  <1>1. IInv /\ [Next]_vars => [Kept]_sessions
    BY NextKept
  <1> QED BY <1>1, InitIInv, NextIInv, PTL DEF Spec, SessionsStable, Kept

-----------------------------------------------------------------------------
(* The ids that no session has are none of the ids session_create forms.   *)
LEMMA NoSuchId == /\ NoId \notin Ids
                  /\ UnknownId \notin Ids
                  /\ UnknownId # NoId
  BY ThreadsAssumption DEF Ids, NoId, UnknownId

(* The id session_create gives a session names the thread that made it.    *)
LEMMA OwnId ==
  ASSUME TypeOK, NEW t \in Threads
  PROVE  [time |-> now, self |-> t] \in Ids
  BY DEF TypeOK, Ids

(* What is known of an id or a pointer stays so while sessions are kept.   *)
LEMMA KeptFacts ==
  ASSUME TypeOK, TypeOK', Kept
  PROVE  /\ DOMAIN sessions = 1..Len(sessions)
         /\ DOMAIN sessions' = 1..Len(sessions')
         /\ \A id : Known(id) => \E i \in DOMAIN sessions' : sessions'[i].ready /\ sessions'[i].id = id
         /\ \A p : Filled(p) => /\ p.index \in DOMAIN sessions'
                               /\ sessions'[p.index].ready
                               /\ sessions'[p.index] = sessions[p.index]
  <1>1. /\ DOMAIN sessions = 1..Len(sessions)
        /\ DOMAIN sessions' = 1..Len(sessions')
    BY DEF TypeOK
  <1>2. \A i \in DOMAIN sessions :
          sessions[i].ready => i \in DOMAIN sessions' /\ sessions'[i] = sessions[i]
    BY <1>1 DEF Kept
  <1> QED BY <1>1, <1>2 DEF Known, Filled

(* A thread that does not move keeps what is known of it.                  *)
LEMMA OthersKeep ==
  ASSUME TypeOK, TypeOK', Kept, NEW u \in Threads, ThreadInv(u),
         pc'[u] = pc[u], ptr'[u] = ptr[u], wanted'[u] = wanted[u],
         made'[u] = made[u], reply'[u] = reply[u]
  PROVE  ThreadInv(u)'
  <1>0. /\ reply[u] # NoId => Known(reply[u])
        /\ wanted[u] \notin {NoId, UnknownId} => Known(wanted[u])
    BY DEF ThreadInv
  <1>1. reply'[u] # NoId => Known(reply[u])'
    BY <1>0, KeptFacts DEF Known
  <1>2. wanted'[u] \notin {NoId, UnknownId} => Known(wanted[u])'
    BY <1>0, KeptFacts DEF Known
  <1>3. pc'[u] \in {"unlock2", "answer"} => Filled(made[u])'
    BY KeptFacts DEF ThreadInv, Filled
  <1>4. (\/ pc[u] \in {"unlock", "rdlock", "find"}
         \/ pc[u] \in {"found", "use"} /\ wanted[u] = UnknownId
        => Filled(ptr[u]) /\ sessions[ptr[u].index].id.self = u)'
    BY KeptFacts DEF ThreadInv, Filled
  <1>5. (pc[u] \in {"found", "use"} /\ wanted[u] \notin {NoId, UnknownId}
        => Filled(ptr[u]) /\ sessions[ptr[u].index].id = wanted[u])'
    BY KeptFacts DEF ThreadInv, Filled
  <1> QED BY <1>1, <1>2, <1>3, <1>4, <1>5 DEF ThreadInv

(* No step leaves a row that is filled in without an id of its own.        *)
LEMMA NextRow ==
  ASSUME IInv, IInv', [Next]_vars, RowInv
  PROVE  RowInv'
  <1>0. /\ sessions \in Seq(Rows)
        /\ Len(sessions) \in Nat
        /\ DOMAIN sessions = 1..Len(sessions)
    BY DEF IInv, TypeOK
  <1>1. ASSUME NEW t \in Threads, NEW h, NEW g, Grow(t, h, g) PROVE RowInv'
    <2> DEFINE slot == [id |-> NoId, ready |-> FALSE]
    <2>1. /\ DOMAIN sessions' = 1..Len(sessions) + 1
          /\ sessions'[Len(sessions) + 1] = slot
          /\ \A i \in 1..Len(sessions) : sessions'[i] = sessions[i]
      BY <1>0, <1>1 DEF Grow
    <2>2. slot.id = NoId /\ ~slot.ready
      OBVIOUS
    <2>3. \A i \in DOMAIN sessions' : i \in 1..Len(sessions) \/ i = Len(sessions) + 1
      BY <2>1, <1>0
    <2> QED BY <1>0, <2>1, <2>2, <2>3 DEF RowInv
  <1>2. ASSUME NEW t \in Threads, NEW h, NEW g, Assign(t, h, g) PROVE RowInv'
    <2> DEFINE slot == [id |-> [time |-> now, self |-> t], ready |-> TRUE]
    <2>1. sessions' = [sessions EXCEPT ![Len(sessions)] = slot]
      BY <1>2 DEF Assign
    <2>2. slot.id \in Ids /\ slot.ready
      BY OwnId DEF IInv
    <2> QED BY <1>0, <2>1, <2>2 DEF RowInv
  <1>3. sessions' = sessions => RowInv'
    BY DEF RowInv
  <1>4. ASSUME NEW t \in Threads, session_create(t) PROVE RowInv'
    BY <1>1, <1>2, <1>3, <1>4 DEF session_create, WrLock, WrUnlock
  <1>5. ASSUME NEW t \in Threads, HandleCreate(t) PROVE RowInv'
    BY <1>1, <1>2, <1>3, <1>5 DEF HandleCreate, WrLock, WrUnlock
  <1> QED BY <1>3, <1>4, <1>5
       DEF Next, vars, Accept, RdLock, session_find, RdUnlock, Use, Answer,
           CheckpointLock, CheckpointEntry, CheckpointUnlock, Tick

(* The thread that moves: what AttachInv says of it, and that nobody else  *)
(* is touched, for each of its steps.                                      *)
OnlyMoves(t) ==
  \A u \in Threads \ {t} :
    /\ pc'[u] = pc[u]
    /\ ptr'[u] = ptr[u]
    /\ wanted'[u] = wanted[u]
    /\ made'[u] = made[u]
    /\ reply'[u] = reply[u]

LEMMA CreateAttach ==
  ASSUME IInv, IInv', Kept, RowInv, NEW t \in Threads, ThreadInv(t),
         session_create(t) \/ HandleCreate(t)
  PROVE  ThreadInv(t)' /\ OnlyMoves(t)
  <1> USE DEF IInv
  <1>0. /\ reply[t] # NoId => Known(reply[t])
        /\ wanted[t] \notin {NoId, UnknownId} => Known(wanted[t])
    BY DEF ThreadInv
  <1>f. /\ reply'[t] # NoId /\ reply' = reply => Known(reply[t])'
        /\ wanted'[t] \notin {NoId, UnknownId} /\ wanted' = wanted => Known(wanted[t])'
    BY <1>0, KeptFacts DEF Known
  <1>1. ASSUME NEW h, NEW g, WrLock(t, h, g),
               \/ h = "create" /\ g = "realloc"
               \/ h = "create2" /\ g = "realloc2"
        PROVE  ThreadInv(t)' /\ OnlyMoves(t)
    <2>1. /\ wanted' = wanted
          /\ reply' = reply
          /\ pc[t] = h /\ pc'[t] = g
      BY <1>1 DEF WrLock, Goto, TypeOK
    <2>2. OnlyMoves(t)
      BY <1>1 DEF WrLock, Goto, TypeOK, OnlyMoves
    <2> QED BY <1>1, <2>1, <2>2, <1>f DEF ThreadInv
  <1>2. ASSUME NEW h, NEW g, Grow(t, h, g),
               \/ h = "realloc" /\ g = "assign"
               \/ h = "realloc2" /\ g = "assign2"
        PROVE  ThreadInv(t)' /\ OnlyMoves(t)
    <2>1. /\ wanted' = wanted
          /\ reply' = reply
          /\ pc[t] = h /\ pc'[t] = g
      BY <1>2 DEF Grow, Goto, TypeOK
    <2>2. OnlyMoves(t)
      BY <1>2 DEF Grow, Goto, TypeOK, OnlyMoves
    <2> QED BY <1>2, <2>1, <2>2, <1>f DEF ThreadInv
  <1>3. ASSUME NEW h, NEW g, Assign(t, h, g),
               \/ h = "assign" /\ g = "unlock"
               \/ h = "assign2" /\ g = "unlock2"
        PROVE  ThreadInv(t)' /\ OnlyMoves(t)
    <2> DEFINE slot == [id |-> [time |-> now, self |-> t], ready |-> TRUE]
               s == [block |-> block, index |-> Len(sessions)]
    <2>1. /\ sessions' = [sessions EXCEPT ![Len(sessions)] = slot]
          /\ sessions \in Seq(Rows)
          /\ Len(sessions) # 0
          /\ Len(sessions) \in Nat
      BY <1>3 DEF Assign, TypeOK, SlotInv
    <2>2. /\ s.index \in DOMAIN sessions'
          /\ sessions'[s.index] = slot
      BY <2>1
    <2>3. slot.ready /\ slot.id.self = t
      OBVIOUS
    <2>4. /\ pc' = [pc EXCEPT ![t] = g]
          /\ reply' = reply
          /\ wanted' = wanted
          /\ g = "unlock" => ptr' = [ptr EXCEPT ![t] = s] /\ made' = made
          /\ g = "unlock2" => made' = [made EXCEPT ![t] = s] /\ ptr' = ptr
      BY <1>3 DEF Assign, Goto
    <2>5. OnlyMoves(t)
      BY <2>4, <1>3 DEF OnlyMoves, TypeOK
    <2>6. CASE g = "unlock"
      <3>1. pc'[t] = "unlock" /\ ptr'[t] = s
        BY <2>4, <2>6 DEF TypeOK
      <3>2. Filled(ptr[t])' /\ sessions'[ptr'[t].index].id.self = t
        BY <3>1, <2>2, <2>3 DEF Filled
      <3> QED BY <3>1, <3>2, <2>4, <2>5, <1>f DEF ThreadInv
    <2>7. CASE g = "unlock2"
      <3>1. pc'[t] = "unlock2" /\ made'[t] = s
        BY <2>4, <2>7 DEF TypeOK
      <3>2. Filled(made[t])'
        BY <3>1, <2>2, <2>3 DEF Filled
      <3>3. wanted'[t] = NoId
        BY <1>3, <2>4, <2>7 DEF Assign, ThreadInv
      <3> QED BY <3>1, <3>2, <3>3, <2>4, <2>5, <1>f DEF ThreadInv
    <2> QED BY <1>3, <2>6, <2>7
  <1>4. CASE WrUnlock(t, "unlock", IF wanted[t] = NoId THEN "use" ELSE "rdlock")
    <2>1. /\ sessions' = sessions /\ ptr' = ptr /\ wanted' = wanted
          /\ made' = made /\ reply' = reply
          /\ pc[t] = "unlock"
          /\ pc'[t] = IF wanted[t] = NoId THEN "use" ELSE "rdlock"
      BY <1>4 DEF WrUnlock, Goto, TypeOK
    <2>2. OnlyMoves(t)
      BY <1>4 DEF WrUnlock, Goto, TypeOK, OnlyMoves
    <2>3. Filled(ptr[t])' /\ sessions'[ptr'[t].index].id.self = t
      BY <2>1 DEF ThreadInv, Filled
    <2> QED BY <2>1, <2>2, <2>3, <1>f, NoSuchId DEF ThreadInv
  <1>5. CASE WrUnlock(t, "unlock2", "answer")
    <2>1. /\ sessions' = sessions /\ ptr' = ptr /\ wanted' = wanted
          /\ made' = made /\ reply' = reply
          /\ pc[t] = "unlock2"
          /\ pc'[t] = "answer"
      BY <1>5 DEF WrUnlock, Goto, TypeOK
    <2>2. OnlyMoves(t)
      BY <1>5 DEF WrUnlock, Goto, TypeOK, OnlyMoves
    <2>3. Filled(made[t])'
      BY <2>1 DEF ThreadInv, Filled
    <2> QED BY <2>1, <2>2, <2>3, <1>f DEF ThreadInv
  <1> QED BY <1>1, <1>2, <1>3, <1>4, <1>5 DEF session_create, HandleCreate

(* The steps of a client thread that leave the table alone.                *)
LEMMA ClientAttach ==
  ASSUME IInv, IInv', Kept, RowInv, NEW t \in Threads,
         \A u \in Threads : ThreadInv(u),
         \/ Accept(t) \/ RdLock(t) \/ session_find(t)
         \/ RdUnlock(t) \/ Use(t) \/ Answer(t)
  PROVE  ThreadInv(t)' /\ OnlyMoves(t)
  <1> USE DEF IInv
  <1>s. /\ sessions' = sessions
        /\ DOMAIN sessions = 1..Len(sessions)
    BY DEF Accept, RdLock, session_find, RdUnlock, Use, Answer, TypeOK
  <1>k. \A id : Known(id) => \E i \in DOMAIN sessions' : sessions'[i].ready /\ sessions'[i].id = id
    BY <1>s DEF Known
  <1>0. /\ reply[t] # NoId => Known(reply[t])
        /\ wanted[t] \notin {NoId, UnknownId} => Known(wanted[t])
    BY DEF ThreadInv
  <1>f. /\ reply'[t] # NoId /\ reply' = reply => Known(reply[t])'
        /\ wanted'[t] \notin {NoId, UnknownId} /\ wanted' = wanted => Known(wanted[t])'
    BY <1>k, <1>0 DEF Known
  <1>1. CASE Accept(t)
    <2>0. PICK id \in {NoId, UnknownId} \cup {reply[u] : u \in Threads} :
            wanted' = [wanted EXCEPT ![t] = id]
      BY <1>1 DEF Accept
    <2>1. id \notin {NoId, UnknownId} => Known(id)
      BY DEF ThreadInv
    <2>2. wanted'[t] = id /\ pc'[t] = "create" /\ reply' = reply
      BY <2>0, <1>1 DEF Accept, Goto, TypeOK
    <2>3. wanted'[t] \notin {NoId, UnknownId} => Known(wanted[t])'
      BY <2>1, <2>2, <1>k DEF Known
    <2>4. OnlyMoves(t)
      BY <1>1, <2>0 DEF Accept, Goto, TypeOK, OnlyMoves
    <2> QED BY <2>2, <2>3, <2>4, <1>f DEF ThreadInv
  <1>2. CASE RdLock(t)
    <2>1. /\ ptr' = ptr /\ wanted' = wanted /\ reply' = reply
          /\ pc[t] = "rdlock" /\ pc'[t] = "find"
      BY <1>2 DEF RdLock, Goto, TypeOK
    <2>2. OnlyMoves(t)
      BY <1>2 DEF RdLock, Goto, TypeOK, OnlyMoves
    <2>3. Filled(ptr[t])' /\ sessions'[ptr'[t].index].id.self = t
      BY <2>1, <1>s DEF ThreadInv, Filled
    <2> QED BY <2>1, <2>2, <2>3, <1>f DEF ThreadInv
  <1>3. CASE session_find(t)
    <2>1. /\ wanted' = wanted /\ reply' = reply
          /\ pc[t] = "find" /\ pc'[t] = "found"
          /\ wanted[t] # NoId
      BY <1>3 DEF session_find, Goto, TypeOK, ThreadInv
    <2>2. OnlyMoves(t)
      BY <1>3 DEF session_find, Goto, TypeOK, OnlyMoves
    <2>3. CASE wanted[t] = UnknownId
      <3>1. Matches(wanted[t]) = {}
        BY <2>3, NoSuchId DEF Matches, RowInv
      <3>2. ptr' = ptr
        BY <3>1, <1>3 DEF session_find
      <3>3. Filled(ptr[t])' /\ sessions'[ptr'[t].index].id.self = t
        BY <3>2, <2>1, <1>s DEF ThreadInv, Filled
      <3> QED BY <2>1, <2>2, <2>3, <3>3, <1>f DEF ThreadInv
    <2>4. CASE wanted[t] # UnknownId
      <3>1. Known(wanted[t])
        BY <2>1, <2>4 DEF ThreadInv
      <3>2. Matches(wanted[t]) # {}
        BY <3>1 DEF Known, Matches
      <3>3. PICK i \in Matches(wanted[t]) :
              ptr' = [ptr EXCEPT ![t] = [block |-> block, index |-> i]]
        BY <3>2, <1>3 DEF session_find
      <3>4. /\ i \in DOMAIN sessions
            /\ sessions[i].id = wanted[t]
            /\ sessions[i].ready
        BY <2>1 DEF Matches, RowInv
      <3>5. ptr'[t].index = i
        BY <3>3 DEF TypeOK
      <3>6. Filled(ptr[t])' /\ sessions'[ptr'[t].index].id = wanted'[t]
        BY <3>4, <3>5, <2>1, <1>s DEF Filled
      <3> QED BY <2>1, <2>2, <2>4, <3>6, <1>f DEF ThreadInv
    <2> QED BY <2>3, <2>4
  <1>4. CASE RdUnlock(t)
    <2>1. /\ ptr' = ptr /\ wanted' = wanted /\ reply' = reply
          /\ pc[t] = "found" /\ pc'[t] = "use"
      BY <1>4 DEF RdUnlock, Goto, TypeOK
    <2>2. OnlyMoves(t)
      BY <1>4 DEF RdUnlock, Goto, TypeOK, OnlyMoves
    <2> QED BY <2>1, <2>2, <1>s, <1>f DEF ThreadInv, Filled
  <1>5. CASE Use(t)
    <2>1. /\ wanted' = wanted /\ reply' = reply
          /\ \/ pc'[t] = "idle"
             \/ pc'[t] = "create2" /\ wanted[t] = NoId
      BY <1>5 DEF Use, Goto, TypeOK
    <2>2. OnlyMoves(t)
      BY <1>5 DEF Use, Goto, TypeOK, OnlyMoves
    <2> QED BY <2>1, <2>2, <1>f DEF ThreadInv
  <1>6. CASE Answer(t)
    <2>0. PICK id \in {sessions[made[t].index].id, NoId} :
            reply' = [reply EXCEPT ![t] = id]
      BY <1>6 DEF Answer
    <2>1. /\ Filled(made[t])
          /\ wanted' = wanted /\ ptr' = ptr
          /\ pc[t] = "answer" /\ pc'[t] = "use"
          /\ reply'[t] = id
      BY <1>6, <2>0 DEF Answer, Goto, TypeOK, ThreadInv
    <2>2. OnlyMoves(t)
      BY <1>6, <2>0 DEF Answer, Goto, TypeOK, OnlyMoves
    <2>3. id # NoId => Known(id)
      BY <2>1 DEF Filled, Known
    <2>4. reply'[t] # NoId => Known(reply[t])'
      BY <2>1, <2>3, <1>k DEF Known
    <2>5. wanted[t] = NoId
      BY <2>1 DEF ThreadInv
    <2> QED BY <2>1, <2>2, <2>4, <2>5, <1>f, NoSuchId DEF ThreadInv
  <1> QED BY <1>1, <1>2, <1>3, <1>4, <1>5, <1>6

(* Every step preserves what AttachFindsSession rests on.                  *)
LEMMA NextAttach == IInv /\ IInv' /\ [Next]_vars /\ AttachInv => AttachInv'
  <1> SUFFICES ASSUME IInv, IInv', [Next]_vars, AttachInv PROVE AttachInv'
    OBVIOUS
  <1>1. Kept
    BY NextKept
  <1>2. RowInv'
    BY NextRow DEF AttachInv
  <1>3. /\ TypeOK /\ TypeOK'
        /\ RowInv
        /\ \A u \in Threads : ThreadInv(u)
    BY DEF IInv, AttachInv
  <1>4. ASSUME NEW t \in Threads, ThreadInv(t)', OnlyMoves(t) PROVE AttachInv'
    <2>1. \A u \in Threads \ {t} : ThreadInv(u)'
      BY <1>1, <1>3, <1>4, OthersKeep DEF OnlyMoves
    <2> QED BY <1>2, <1>4, <2>1 DEF AttachInv
  <1>5. ASSUME NEW t \in Threads,
               \/ Accept(t) \/ session_create(t)
               \/ RdLock(t) \/ session_find(t) \/ RdUnlock(t)
               \/ Use(t) \/ HandleCreate(t) \/ Answer(t)
        PROVE  AttachInv'
    BY <1>1, <1>3, <1>4, <1>5, CreateAttach, ClientAttach
  <1>6. CASE /\ pc' = pc /\ ptr' = ptr /\ wanted' = wanted
             /\ made' = made /\ reply' = reply
    BY <1>1, <1>2, <1>3, <1>6, OthersKeep DEF AttachInv
  <1> QED BY <1>5, <1>6 DEF Next, vars, CheckpointLock, CheckpointEntry, CheckpointUnlock, Tick

(* A widget request that names an id the daemon has answered is served     *)
(* with the session of that id, and one that names none with the session   *)
(* its own thread created, for any number of threads growing the table     *)
(* between the answer, the request and session_find.                       *)
THEOREM AttachCorrect == Spec => []AttachFindsSession
  <1>1. Init => AttachInv
    BY DEF Init, AttachInv, RowInv, ThreadInv
  <1>2. IInv /\ AttachInv => AttachFindsSession
    BY DEF AttachInv, ThreadInv, Filled, AttachFindsSession
  <1> QED BY <1>1, <1>2, InitIInv, NextIInv, NextAttach, PTL DEF Spec
=============================================================================
