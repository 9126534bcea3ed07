-------------------------- MODULE EventLoopProofs ---------------------------
(* Proofs about EventLoop, for any number of loops, limits and capacities. *)
EXTENDS EventLoop, TLAPS

(* The ring's indices stay within the buffer.                              *)
LEMMA StepInRange == ASSUME NEW i \in Slots PROVE Step(i) \in Slots
  BY EventLoopAssumption, SMT DEF Step, Slots

(* Reduction modulo the capacity, for the values it is used on.            *)
LEMMA Reduce ==
  ASSUME NEW d \in Int, -queue_capacity <= d, d < 2 * queue_capacity
  PROVE  d % queue_capacity = IF d < 0 THEN d + queue_capacity
                              ELSE IF d < queue_capacity THEN d
                              ELSE d - queue_capacity
  BY EventLoopAssumption, SMT

(* Two indices are a distance of 0 apart only if they are the same.        *)
LEMMA Distance ==
  ASSUME NEW h \in Slots, NEW t \in Slots
  PROVE  /\ (t - h) % queue_capacity \in 0..queue_capacity - 1
         /\ (t - h) % queue_capacity = 0 <=> h = t
  <1> USE EventLoopAssumption DEF Slots
  <1>1. (t - h) % queue_capacity = IF t < h THEN t - h + queue_capacity ELSE t - h
    BY Reduce
  <1> QED BY <1>1

(* A function keeps its range when a value of it is replaced by another.   *)
LEMMA SetType ==
  ASSUME NEW S, NEW T, NEW f \in [S -> T], NEW x \in S, NEW v \in T
  PROVE  Set(f, x, v) \in [S -> T]
  BY DEF Set

Ring == [event_queue : [Slots -> Events], queue_head : Slots, queue_tail : Slots]
Eof == [events_injected : BOOLEAN, auto_eof_sent : BOOLEAN]

(* What headless_inject and hl_next_event make of the ring and of the two  *)
(* flags is again a ring and two flags.                                    *)
LEMMA RingType ==
  ASSUME NEW r \in [Sessions -> Ring], NEW s \in Sessions,
         NEW t \in Slots, NEW n \in Slots, NEW e \in Events
  PROVE  /\ [r EXCEPT ![s].event_queue[t] = e, ![s].queue_tail = n] \in [Sessions -> Ring]
         /\ [r EXCEPT ![s].queue_head = n] \in [Sessions -> Ring]
  BY DEF Ring

LEMMA EofType ==
  ASSUME NEW f \in [Sessions -> Eof], NEW s \in Sessions, NEW b \in BOOLEAN
  PROVE  /\ [f EXCEPT ![s].auto_eof_sent = b] \in [Sessions -> Eof]
         /\ [f EXCEPT ![s].events_injected = b] \in [Sessions -> Eof]
  BY DEF Eof

(* The invariant holds at first ...                                        *)
LEMMA InitIInv == Init => IInv
  <1> SUFFICES ASSUME Init PROVE IInv
    OBVIOUS
  <1>1. 0 \in Slots
    BY EventLoopAssumption DEF Slots
  <1>2. TypeOK
    BY <1>1, EventLoopAssumption DEF Init, TypeOK, Events, Kinds
  <1>3. QueueFaithful
    <2>1. (0 - 0) % queue_capacity = 0
      BY <1>1, Distance
    <2> SUFFICES ASSUME NEW s \in Sessions
                 PROVE  /\ Len(pending[s]) = Waiting(s)
                        /\ \A i \in 1..Len(pending[s]) :
                             ring[s].event_queue[(ring[s].queue_head + i - 1) % queue_capacity]
                               = pending[s][i]
      BY DEF QueueFaithful
    <2>2. pending[s] = <<>> /\ ring[s].queue_head = 0 /\ ring[s].queue_tail = 0
      BY DEF Init
    <2>3. Len(pending[s]) = 0
      BY <2>2
    <2>4. Waiting(s) = 0
      BY <2>1, <2>2 DEF Waiting
    <2> QED BY <2>3, <2>4
  <1> QED BY <1>2, <1>3, EventLoopAssumption
          DEF Init, IInv, IdleInv, FreshInv, FrameFresh, OpenInv, CleanedUp, At

(* ... and after every step.  The types first: the steps of the loop, which *)
(* leave the backend alone,                                                *)
LEMMA TypeLoop ==
  ASSUME IInv, NEW s \in Sessions, Start(s) \/ Inner(s)
  PROVE  TypeOK'
  <1> USE EventLoopAssumption DEF TypeOK, At, Goto, Set, backend, loop, mark_dirty, Draw
  <1> TypeOK
    BY DEF IInv
  <1>1. CASE Start(s)
    BY <1>1 DEF Start
  <1>2. CASE FirstFrame(s)
    BY <1>2 DEF FirstFrame
  <1>3. CASE PollSize(s)
    BY <1>3 DEF PollSize
  <1>4. CASE Frame(s)
    <2>1. Draw(s) \/ UNCHANGED <<drawn, shown, dirty>>
      BY <1>4, Zenon DEF Frame
    <2>2. /\ Goto(s, "wait")
          /\ UNCHANGED <<ev, last, idle, open, arena, backend>>
      BY <1>4 DEF Frame
    <2> QED BY <2>1, <2>2
  <1>5. CASE Idle(s)
    <2>0. pc[s] = "event" /\ idle[s] \in 0..IdleLimit + 1
      BY <1>5 DEF Idle
    <2>a. idle[s] > IdleLimit => pc[s] \in {"finish", "done"}
      BY DEF IInv, IdleInv
    <2>1. idle[s] + 1 \in 0..IdleLimit + 1
      BY <2>0, <2>a
    <2>2. idle' = idle \/ idle' = [idle EXCEPT ![s] = @ + 1]
      BY <1>5, Zenon DEF Idle
    <2>3. idle' \in [Sessions -> 0..IdleLimit + 1]
      BY <2>1, <2>2
    <2> QED BY <1>5, <2>3 DEF Idle
  <1>6. CASE Swallow(s)
    BY <1>6 DEF Swallow
  <1>7. CASE Paste(s)
    BY <1>7 DEF Paste
  <1>8. CASE UndoRedo(s)
    BY <1>8 DEF UndoRedo
  <1>9. CASE Translate(s)
    BY <1>9 DEF Translate, Events
  <1>10. CASE Deliver(s)
    <2>1. dirty' \in [Sessions -> BOOLEAN]
      BY <1>10 DEF Deliver
    <2>2. shown' \in [Sessions -> BOOLEAN]
      BY <1>10 DEF Deliver
    <2>3. /\ pc' = Set(pc, s, "finish") \/ pc' = Set(pc, s, "size")
          /\ idle' = Set(idle, s, 0)
          /\ UNCHANGED <<ev, last, drawn, open, arena, backend>>
      BY <1>10 DEF Deliver
    <2>4. pc' \in [Sessions -> {"idle", "first", "size", "frame", "wait", "event",
                                "deliver", "finish", "done"}]
      BY <2>3
    <2>5. idle' \in [Sessions -> 0..IdleLimit + 1]
      BY <2>3
    <2> QED BY <2>1, <2>2, <2>3, <2>4, <2>5
  <1>11. CASE Finish(s)
    <2>1. open[s] = 1
      BY <1>11 DEF Finish, IInv, OpenInv
    <2> QED BY <1>11, <2>1 DEF Finish
  <1>12. CASE Tab(s)
    BY <1>12 DEF Tab
  <1> QED BY <1>1, <1>2, <1>3, <1>4, <1>5, <1>6, <1>7, <1>8, <1>9, <1>10, <1>11, <1>12 DEF Inner

(* then those of the backend.                                              *)
LEMMA TypeBackend ==
  ASSUME IInv, NEW s \in Sessions,
         next_event(s) \/ Resize(s) \/ \E e \in Injectable : headless_inject(s, e)
  PROVE  TypeOK'
  <1> USE EventLoopAssumption
  <1>0. TypeOK
    BY DEF IInv
  <1>a. ring \in [Sessions -> Ring] /\ eof \in [Sessions -> Eof]
    BY <1>0 DEF TypeOK, Ring, Eof
  <1>b. /\ ring[s].queue_tail \in Slots /\ Step(ring[s].queue_tail) \in Slots
        /\ ring[s].queue_head \in Slots /\ Step(ring[s].queue_head) \in Slots
        /\ ring[s].event_queue \in [Slots -> Events]
    BY <1>a, StepInRange DEF Ring
  <1>c. Spend(s) => inputs' \in [Sessions -> 0..MaxInputs]
    BY <1>0 DEF TypeOK, Spend
  <1>d. [size EXCEPT ![s] = 1 - @] \in [Sessions -> 0..1]
    <2>1. size \in [Sessions -> 0..1] /\ size[s] \in 0..1
      BY <1>0 DEF TypeOK
    <2>2. 1 - size[s] \in 0..1
      BY <2>1
    <2> QED BY <2>1, <2>2
  <1>1. ASSUME NEW e \in Injectable, headless_inject(s, e)
        PROVE  TypeOK'
    <2>1. e \in Events
      BY DEF Injectable
    <2>2. \/ ring' = ring /\ pending' = pending
          \/ /\ ring' = [ring EXCEPT ![s].event_queue[ring[s].queue_tail] = e,
                                     ![s].queue_tail = Step(ring[s].queue_tail)]
             /\ pending' = [pending EXCEPT ![s] = Append(@, e)]
      BY <1>1, Zenon DEF headless_inject
    <2>3. ring' \in [Sessions -> Ring]
      <3>1. [ring EXCEPT ![s].event_queue[ring[s].queue_tail] = e,
                         ![s].queue_tail = Step(ring[s].queue_tail)] \in [Sessions -> Ring]
        BY <1>a, <1>b, <2>1, RingType
      <3> QED BY <1>a, <2>2, <3>1, Zenon
    <2>4. pending' \in [Sessions -> Seq(Events)]
      <3>1. Append(pending[s], e) \in Seq(Events)
        BY <1>0, <2>1 DEF TypeOK
      <3>2. pending' = pending \/ pending' = Set(pending, s, Append(pending[s], e))
        BY <2>2 DEF Set
      <3>3. pending \in [Sessions -> Seq(Events)]
        BY <1>0 DEF TypeOK
      <3>4. Set(pending, s, Append(pending[s], e)) \in [Sessions -> Seq(Events)]
        BY <3>1, <3>3, SetType, Zenon
      <3> QED BY <3>2, <3>3, <3>4, Zenon
    <2>5. size' \in [Sessions -> 0..1]
      BY <1>0, <1>1, <1>d DEF headless_inject, TypeOK
    <2>6. inputs' \in [Sessions -> 0..MaxInputs] /\ UNCHANGED <<pc, ev, loop, kind, eof>>
      BY <1>1, <1>c DEF headless_inject
    <2> QED BY <1>0, <2>3, <2>4, <2>5, <2>6 DEF TypeOK, loop, Ring
  <1>2. CASE hl_next_event(s)
    <2>1. \/ /\ \E b \in BOOLEAN : eof' = [eof EXCEPT ![s].auto_eof_sent = b]
             /\ \E e \in {"key", "none"} : ev' = Set(ev, s, e)
             /\ UNCHANGED <<ring, pending>>
          \/ /\ ring[s].queue_head # ring[s].queue_tail
             /\ ev' = Set(ev, s, ring[s].event_queue[ring[s].queue_head])
             /\ ring' = [ring EXCEPT ![s].queue_head = Step(ring[s].queue_head)]
             /\ pending' = [pending EXCEPT ![s] = Tail(@)]
             /\ eof' = [eof EXCEPT ![s].events_injected = TRUE]
      <3>1. eof[s].auto_eof_sent \/ (eof[s].events_injected /\ ~eof[s].auto_eof_sent) \in BOOLEAN
        OBVIOUS
      <3> QED BY <1>2, <3>1, Zenon DEF hl_next_event
    <2>2. ring' \in [Sessions -> Ring]
      <3>1. [ring EXCEPT ![s].queue_head = Step(ring[s].queue_head)] \in [Sessions -> Ring]
        BY <1>a, <1>b, RingType
      <3> QED BY <1>a, <2>1, <3>1, Zenon
    <2>3. pending' \in [Sessions -> Seq(Events)]
      <3>1. CASE ring[s].queue_head = ring[s].queue_tail
        BY <1>0, <2>1, <3>1 DEF TypeOK
      <3>2. CASE ring[s].queue_head # ring[s].queue_tail
        <4>1. Len(pending[s]) = (ring[s].queue_tail - ring[s].queue_head) % queue_capacity
          BY DEF IInv, QueueFaithful, Waiting
        <4>2. pending[s] \in Seq(Events)
          BY <1>0 DEF TypeOK
        <4>3. pending[s] # <<>>
          BY <1>b, <3>2, <4>1, <4>2, Distance
        <4>4. Tail(pending[s]) \in Seq(Events)
          BY <4>2, <4>3
        <4>5. pending' = pending \/ pending' = Set(pending, s, Tail(pending[s]))
          BY <2>1 DEF Set
        <4>6. pending \in [Sessions -> Seq(Events)]
          BY <1>0 DEF TypeOK
        <4>7. Set(pending, s, Tail(pending[s])) \in [Sessions -> Seq(Events)]
          BY <4>4, <4>6, SetType, Zenon
        <4> QED BY <4>5, <4>6, <4>7, Zenon
      <3> QED BY <3>1, <3>2
    <2>4. eof' \in [Sessions -> Eof]
      <3>1. ASSUME NEW b \in BOOLEAN, eof' = [eof EXCEPT ![s].auto_eof_sent = b]
            PROVE  eof' \in [Sessions -> Eof]
        BY <1>a, <3>1, EofType
      <3>2. CASE eof' = [eof EXCEPT ![s].events_injected = TRUE]
        BY <1>a, <3>2, EofType
      <3> QED BY <2>1, <3>1, <3>2
    <2>5. ev' \in [Sessions -> Events]
      <3>1. "key" \in Events /\ "none" \in Events
        BY DEF Events
      <3>2. ring[s].event_queue[ring[s].queue_head] \in Events
        BY <1>b
      <3>3. ev \in [Sessions -> Events]
        BY <1>0 DEF TypeOK
      <3>4. \E e \in Events : ev' = Set(ev, s, e)
        BY <2>1, <3>1, <3>2, Zenon
      <3> QED BY <3>3, <3>4, SetType
    <2>6. Goto(s, "event") /\ UNCHANGED <<loop, kind, size, inputs>>
      BY <1>2 DEF hl_next_event
    <2> QED BY <1>0, <2>2, <2>3, <2>4, <2>5, <2>6 DEF TypeOK, loop, Ring, Eof, Goto
  <1>3. CASE interactive_next_event(s)
    <2>1. \E e \in Events : ev' = Set(ev, s, e)
      BY <1>3 DEF interactive_next_event, Readable, Events
    <2>2. ev' \in [Sessions -> Events]
      BY <1>0, <2>1, SetType DEF TypeOK
    <2>3. size' \in [Sessions -> 0..1]
      <3>1. size' = size \/ size' = [size EXCEPT ![s] = 1 - @]
        BY <1>3, Zenon DEF interactive_next_event
      <3> QED BY <1>0, <1>d, <3>1 DEF TypeOK
    <2>4. inputs' \in [Sessions -> 0..MaxInputs]
      BY <1>0, <1>3, <1>c DEF interactive_next_event, TypeOK
    <2>5. Goto(s, "event") /\ UNCHANGED <<loop, kind, ring, pending, eof>>
      BY <1>3 DEF interactive_next_event
    <2> QED BY <1>0, <2>2, <2>3, <2>4, <2>5 DEF TypeOK, loop, Goto
  <1>4. CASE Resize(s)
    BY <1>0, <1>4, <1>c, <1>d DEF Resize, TypeOK, loop
  <1> QED BY <1>1, <1>2, <1>3, <1>4 DEF next_event

(* What the invariant says of one loop, the queue left aside.              *)
Good(t) ==
  /\ idle[t] > IdleLimit => pc[t] \in {"finish", "done"}
  /\ pc[t] \notin {"idle", "first"} => dirty[t] \/ (shown[t] /\ drawn[t] = last[t])
  /\ pc[t] = "wait" => shown[t] /\ drawn[t] = last[t]
  /\ open[t] = IF pc[t] \in {"idle", "done"} THEN 0 ELSE 1
  /\ pc[t] = "done" => arena # t

LEMMA GoodIInv ==
  (\A t \in Sessions : Good(t)) <=> IdleInv /\ FreshInv /\ FrameFresh /\ OpenInv /\ CleanedUp
  BY DEF Good, IdleInv, FreshInv, FrameFresh, OpenInv, CleanedUp, At

(* Every step of a loop keeps it for that loop ...                         *)
LEMMA GoodSelf ==
  ASSUME TypeOK, NEW s \in Sessions, Good(s), Start(s) \/ Inner(s)
  PROVE  Good(s)'
  <1> USE EventLoopAssumption DEF Good, At, Goto, Set, mark_dirty, Draw
  <1>0. /\ idle \in [Sessions -> 0..IdleLimit + 1] /\ open \in [Sessions -> Nat]
        /\ DOMAIN pc = Sessions /\ DOMAIN last = Sessions /\ DOMAIN drawn = Sessions
        /\ DOMAIN dirty = Sessions /\ DOMAIN shown = Sessions
        /\ NoArena # s
    BY DEF TypeOK
  <1>1. CASE Start(s)
    BY <1>0, <1>1 DEF Start
  <1>2. CASE FirstFrame(s)
    BY <1>0, <1>2 DEF FirstFrame
  <1>3. CASE PollSize(s)
    BY <1>0, <1>3 DEF PollSize
  <1>4. CASE Frame(s)
    BY <1>0, <1>4 DEF Frame
  <1>5. CASE Idle(s)
    BY <1>0, <1>5 DEF Idle
  <1>6. CASE Swallow(s)
    BY <1>0, <1>6 DEF Swallow
  <1>7. CASE Paste(s)
    BY <1>0, <1>7 DEF Paste
  <1>8. CASE UndoRedo(s)
    BY <1>0, <1>8 DEF UndoRedo
  <1>9. CASE Translate(s)
    BY <1>0, <1>9 DEF Translate, loop
  <1>10. CASE Deliver(s)
    BY <1>0, <1>10 DEF Deliver
  <1>11. CASE Finish(s)
    BY <1>0, <1>11 DEF Finish
  <1>12. CASE Tab(s)
    BY <1>0, <1>12 DEF Tab, loop
  <1> QED BY <1>1, <1>2, <1>3, <1>4, <1>5, <1>6, <1>7, <1>8, <1>9, <1>10, <1>11, <1>12 DEF Inner

(* ... and for the others, of which it changes nothing but the arena.      *)
LEMMA GoodOther ==
  ASSUME TypeOK, NEW s \in Sessions, NEW t \in Sessions \ {s}, Good(t), Start(s) \/ Inner(s)
  PROVE  Good(t)'
  <1>1. arena' \in {arena, s, NoArena}
    BY DEF Start, Inner, FirstFrame, PollSize, Frame, Idle, Swallow, Tab, Paste, UndoRedo,
           Translate, Deliver, Finish, loop
  <1>2. /\ pc'[t] = pc[t] /\ idle'[t] = idle[t] /\ open'[t] = open[t]
        /\ dirty'[t] = dirty[t] /\ shown'[t] = shown[t]
        /\ drawn'[t] = drawn[t] /\ last'[t] = last[t]
    BY DEF Start, Inner, FirstFrame, PollSize, Frame, Idle, Swallow, Tab, Paste, UndoRedo,
           Translate, Deliver, Finish, loop, Goto, Set, mark_dirty, Draw, TypeOK
  <1> QED BY <1>1, <1>2, EventLoopAssumption DEF Good

(* The backend's steps move a loop from "wait" to "event", if at all.      *)
LEMMA GoodBackend ==
  ASSUME TypeOK, NEW s \in Sessions, NEW t \in Sessions, Good(t),
         next_event(s) \/ Resize(s) \/ \E e \in Injectable : headless_inject(s, e)
  PROVE  Good(t)'
  <1>1. UNCHANGED loop /\ (UNCHANGED pc \/ (At(s, "wait") /\ Goto(s, "event")))
    BY DEF next_event, hl_next_event, interactive_next_event, Resize, headless_inject
  <1> QED BY <1>1 DEF Good, loop, At, Goto, TypeOK

-----------------------------------------------------------------------------
(* The queue of one loop holds its pending events.                         *)
Holds(t) ==
  /\ Len(pending[t]) = Waiting(t)
  /\ \A i \in 1..Len(pending[t]) :
       ring[t].event_queue[(ring[t].queue_head + i - 1) % queue_capacity] = pending[t][i]

(* Advancing the tail lengthens the queue by one, unless it meets the head; *)
(* advancing the head shortens it by one.                                  *)
LEMMA Advance ==
  ASSUME NEW h \in Slots, NEW t \in Slots
  PROVE  /\ Step(t) # h => (Step(t) - h) % queue_capacity = ((t - h) % queue_capacity) + 1
         /\ h # t => (t - Step(h)) % queue_capacity = ((t - h) % queue_capacity) - 1
  <1> USE EventLoopAssumption
  <1>1. Step(t) = (IF t + 1 = queue_capacity THEN 0 ELSE t + 1)
    BY Reduce DEF Step, Slots
  <1>2. Step(h) = (IF h + 1 = queue_capacity THEN 0 ELSE h + 1)
    BY Reduce DEF Step, Slots
  <1>3. Step(t) \in Slots /\ Step(h) \in Slots
    BY StepInRange
  <1>4. (t - h) % queue_capacity = IF t < h THEN t - h + queue_capacity ELSE t - h
    BY Reduce DEF Slots
  <1>5. (Step(t) - h) % queue_capacity
          = IF Step(t) < h THEN Step(t) - h + queue_capacity ELSE Step(t) - h
    BY <1>3, Reduce DEF Slots
  <1>6. (t - Step(h)) % queue_capacity
          = IF t < Step(h) THEN t - Step(h) + queue_capacity ELSE t - Step(h)
    BY <1>3, Reduce DEF Slots
  <1>7. Step(t) # h => (Step(t) - h) % queue_capacity = ((t - h) % queue_capacity) + 1
    BY <1>1, <1>4, <1>5 DEF Slots
  <1>8. h # t => (t - Step(h)) % queue_capacity = ((t - h) % queue_capacity) - 1
    BY <1>2, <1>4, <1>6 DEF Slots
  <1> QED BY <1>7, <1>8

(* The slot of the i-th waiting event, counted from the head, is the tail  *)
(* exactly when i events wait before it, and the slot counted from the     *)
(* next head is that of the event after it.                                *)
LEMMA Place ==
  ASSUME NEW h \in Slots, NEW t \in Slots, NEW i \in 1..queue_capacity
  PROVE  /\ (h + i - 1) % queue_capacity \in Slots
         /\ (h + i - 1) % queue_capacity = t <=> (t - h) % queue_capacity = i - 1
         /\ i < queue_capacity =>
              (Step(h) + i - 1) % queue_capacity = (h + (i + 1) - 1) % queue_capacity
  <1> USE EventLoopAssumption
  <1>1. Step(h) = (IF h + 1 = queue_capacity THEN 0 ELSE h + 1)
    BY Reduce DEF Step, Slots
  <1>2. (h + i - 1) % queue_capacity
          = IF h + i - 1 < queue_capacity THEN h + i - 1 ELSE h + i - 1 - queue_capacity
    BY Reduce DEF Slots
  <1>3. (t - h) % queue_capacity = IF t < h THEN t - h + queue_capacity ELSE t - h
    BY Reduce DEF Slots
  <1>4. (h + i - 1) % queue_capacity = t <=> (t - h) % queue_capacity = i - 1
    BY <1>2, <1>3 DEF Slots
  <1>5. ASSUME i < queue_capacity
        PROVE  (Step(h) + i - 1) % queue_capacity = (h + (i + 1) - 1) % queue_capacity
    <2>1. (h + (i + 1) - 1) % queue_capacity
            = IF h + i < queue_capacity THEN h + i ELSE h + i - queue_capacity
      BY <1>5, Reduce DEF Slots
    <2>2. CASE h + 1 = queue_capacity
      <3>1. (Step(h) + i - 1) % queue_capacity = i - 1
        BY <1>1, <1>5, <2>2, Reduce
      <3> QED BY <2>1, <2>2, <3>1 DEF Slots
    <2>3. CASE h + 1 # queue_capacity
      <3>1. Step(h) + i - 1 = h + (i + 1) - 1
        BY <1>1, <2>3 DEF Slots
      <3> QED BY <3>1
    <2> QED BY <2>2, <2>3
  <1> QED BY <1>2, <1>4, <1>5 DEF Slots

(* What the types say of one loop's queue.                                 *)
LEMMA RingTyped ==
  ASSUME TypeOK, NEW t \in Sessions
  PROVE  /\ ring[t].queue_head \in Slots /\ ring[t].queue_tail \in Slots
         /\ ring[t].event_queue \in [Slots -> Events]
         /\ pending[t] \in Seq(Events)
         /\ ring[t] \in Ring
  BY DEF TypeOK, Ring

(* An injected event ends up behind the others ...                         *)
LEMMA HoldsInject ==
  ASSUME TypeOK, NEW s \in Sessions, NEW e \in Injectable, NEW t \in Sessions,
         Holds(t), headless_inject(s, e)
  PROVE  Holds(t)'
  <1> DEFINE h == ring[s].queue_head
             l == ring[s].queue_tail
  <1>1. \/ UNCHANGED <<ring, pending>>
        \/ /\ Step(l) # h
           /\ ring' = [ring EXCEPT ![s].event_queue[l] = e, ![s].queue_tail = Step(l)]
           /\ pending' = [pending EXCEPT ![s] = Append(@, e)]
    BY Zenon DEF headless_inject
  <1>2. CASE UNCHANGED <<ring, pending>>
    BY <1>2 DEF Holds, Waiting
  <1>3. CASE /\ Step(l) # h
             /\ ring' = [ring EXCEPT ![s].event_queue[l] = e, ![s].queue_tail = Step(l)]
             /\ pending' = [pending EXCEPT ![s] = Append(@, e)]
    <2>0. /\ h \in Slots /\ l \in Slots /\ Step(l) \in Slots /\ pending[s] \in Seq(Events)
          /\ e \in Events
      BY RingTyped, StepInRange DEF Injectable
    <2>1. CASE t # s
      <3>1. ring'[t] = ring[t] /\ pending'[t] = pending[t]
        BY <1>3, <2>1 DEF TypeOK
      <3> QED BY <3>1 DEF Holds, Waiting
    <2>2. CASE t = s
      <3>1. /\ ring'[s].queue_head = h /\ ring'[s].queue_tail = Step(l)
            /\ ring'[s].event_queue = [ring[s].event_queue EXCEPT ![l] = e]
            /\ pending'[s] = Append(pending[s], e)
        BY <1>3, RingTyped DEF TypeOK, Ring
      <3> DEFINE n == Len(pending[s])
      <3>2. n = (l - h) % queue_capacity /\ n \in Nat
        BY <2>0, <2>2 DEF Holds, Waiting
      <3>3. /\ Len(pending'[s]) = n + 1 /\ pending'[s][n + 1] = e
            /\ \A i \in 1..n : pending'[s][i] = pending[s][i]
        BY <2>0, <3>1
      <3>4. Len(pending'[s]) = Waiting(s)'
        BY <1>3, <2>0, <3>1, <3>2, <3>3, Advance DEF Waiting
      <3>5. n + 1 \in 1..queue_capacity
        BY <2>0, <3>2, Distance, EventLoopAssumption
      <3>6. ASSUME NEW i \in 1..n + 1
            PROVE  ring'[s].event_queue[(h + i - 1) % queue_capacity] = pending'[s][i]
        <4>0. i \in 1..queue_capacity
          BY <3>2, <3>5, EventLoopAssumption
        <4>1. /\ (h + i - 1) % queue_capacity \in Slots
              /\ (h + i - 1) % queue_capacity = l <=> n = i - 1
          BY <2>0, <3>2, <4>0, Place
        <4>2. CASE i = n + 1
          <5>1. (h + i - 1) % queue_capacity = l
            BY <3>2, <4>1, <4>2
          <5>2. ring'[s].event_queue[l] = e
            BY <2>0, <3>1, RingTyped
          <5> QED BY <3>3, <4>2, <5>1, <5>2
        <4>3. CASE i # n + 1
          <5>1. i \in 1..n /\ n # i - 1
            BY <3>2, <4>3
          <5>2. ring'[s].event_queue[(h + i - 1) % queue_capacity]
                  = ring[s].event_queue[(h + i - 1) % queue_capacity]
            BY <2>0, <3>1, <4>1, <5>1, RingTyped
          <5> QED BY <2>2, <3>3, <5>1, <5>2 DEF Holds
        <4> QED BY <4>2, <4>3
      <3> QED BY <2>2, <3>1, <3>3, <3>4, <3>6 DEF Holds
    <2> QED BY <2>1, <2>2
  <1> QED BY <1>1, <1>2, <1>3

(* ... and the one that is read was the first.                             *)
LEMMA HoldsNext ==
  ASSUME TypeOK, NEW s \in Sessions, NEW t \in Sessions, Holds(t), hl_next_event(s)
  PROVE  Holds(t)'
  <1> DEFINE h == ring[s].queue_head
             l == ring[s].queue_tail
  <1>1. \/ UNCHANGED <<ring, pending>>
        \/ /\ h # l
           /\ ring' = [ring EXCEPT ![s].queue_head = Step(h)]
           /\ pending' = [pending EXCEPT ![s] = Tail(@)]
    BY Zenon DEF hl_next_event
  <1>2. CASE UNCHANGED <<ring, pending>>
    BY <1>2 DEF Holds, Waiting
  <1>3. CASE /\ h # l
             /\ ring' = [ring EXCEPT ![s].queue_head = Step(h)]
             /\ pending' = [pending EXCEPT ![s] = Tail(@)]
    <2>0. h \in Slots /\ l \in Slots /\ Step(h) \in Slots /\ pending[s] \in Seq(Events)
      BY RingTyped, StepInRange
    <2>1. CASE t # s
      <3>1. ring'[t] = ring[t] /\ pending'[t] = pending[t]
        BY <1>3, <2>1 DEF TypeOK
      <3> QED BY <3>1 DEF Holds, Waiting
    <2>2. CASE t = s
      <3>1. /\ ring'[s].queue_head = Step(h) /\ ring'[s].queue_tail = l
            /\ ring'[s].event_queue = ring[s].event_queue
            /\ pending'[s] = Tail(pending[s])
        BY <1>3, RingTyped DEF TypeOK, Ring
      <3> DEFINE n == Len(pending[s])
      <3>2. n = (l - h) % queue_capacity /\ n \in 1..queue_capacity - 1
        BY <1>3, <2>0, <2>2, Distance, EventLoopAssumption DEF Holds, Waiting
      <3>3. /\ Len(pending'[s]) = n - 1
            /\ \A i \in 1..n - 1 : pending'[s][i] = pending[s][i + 1]
        BY <2>0, <3>1, <3>2
      <3>4. Len(pending'[s]) = Waiting(s)'
        BY <1>3, <2>0, <3>1, <3>2, <3>3, Advance DEF Waiting
      <3>6. ASSUME NEW i \in 1..n - 1
            PROVE  ring'[s].event_queue[(Step(h) + i - 1) % queue_capacity] = pending'[s][i]
        <4>1. i \in 1..queue_capacity /\ i < queue_capacity /\ i + 1 \in 1..n
          BY <3>2, EventLoopAssumption
        <4>2. (Step(h) + i - 1) % queue_capacity = (h + (i + 1) - 1) % queue_capacity
          BY <2>0, <4>1, Place
        <4>3. ring[s].event_queue[(h + (i + 1) - 1) % queue_capacity] = pending[s][i + 1]
          BY <2>2, <4>1 DEF Holds
        <4> QED BY <3>1, <3>3, <4>2, <4>3
      <3> QED BY <2>2, <3>1, <3>3, <3>4, <3>6 DEF Holds
    <2> QED BY <2>1, <2>2
  <1> QED BY <1>1, <1>2, <1>3

-----------------------------------------------------------------------------
(* The invariant is preserved by every step.                               *)
LEMMA NextIInv == IInv /\ [Next]_vars => IInv'
  <1> SUFFICES ASSUME IInv, [Next]_vars PROVE IInv'
    OBVIOUS
  <1>0. /\ TypeOK /\ (\A t \in Sessions : Good(t)) /\ (\A t \in Sessions : Holds(t))
    BY GoodIInv DEF IInv, QueueFaithful, Holds
  <1>1. CASE UNCHANGED vars
    BY <1>1 DEF vars, loop, backend, IInv, TypeOK, IdleInv, FreshInv, FrameFresh,
                QueueFaithful, Waiting, OpenInv, CleanedUp, At
  <1>2. ASSUME NEW s \in Sessions, Start(s) \/ Inner(s)
        PROVE  TypeOK' /\ (\A t \in Sessions : Good(t)') /\ (\A t \in Sessions : Holds(t)')
    <2>1. TypeOK'
      BY <1>2, TypeLoop
    <2>2. ASSUME NEW t \in Sessions PROVE Good(t)'
      <3>1. CASE t = s
        BY <1>0, <1>2, <3>1, GoodSelf
      <3>2. CASE t # s
        BY <1>0, <1>2, <3>2, GoodOther
      <3> QED BY <3>1, <3>2
    <2>3. UNCHANGED backend
      BY <1>2 DEF Start, Inner, FirstFrame, PollSize, Frame, Idle, Swallow, Tab, Paste, UndoRedo,
                  Translate, Deliver, Finish
    <2>4. ASSUME NEW t \in Sessions PROVE Holds(t)'
      BY <1>0, <2>3 DEF Holds, Waiting, backend
    <2> QED BY <2>1, <2>2, <2>4
  <1>3. ASSUME NEW s \in Sessions,
               next_event(s) \/ Resize(s) \/ \E e \in Injectable : headless_inject(s, e)
        PROVE  TypeOK' /\ (\A t \in Sessions : Good(t)') /\ (\A t \in Sessions : Holds(t)')
    <2>1. TypeOK'
      BY <1>3, TypeBackend
    <2>2. ASSUME NEW t \in Sessions PROVE Good(t)'
      BY <1>0, <1>3, GoodBackend
    <2>3. ASSUME NEW t \in Sessions PROVE Holds(t)'
      <3>1. CASE hl_next_event(s)
        BY <1>0, <3>1, HoldsNext
      <3>2. CASE interactive_next_event(s) \/ Resize(s)
        BY <1>0, <3>2 DEF interactive_next_event, Resize, Holds, Waiting
      <3>3. CASE \E e \in Injectable : headless_inject(s, e)
        BY <1>0, <3>3, HoldsInject
      <3> QED BY <1>3, <3>1, <3>2, <3>3 DEF next_event
    <2> QED BY <2>1, <2>2, <2>3
  <1>4. CASE Next
    <2>1. TypeOK' /\ (\A t \in Sessions : Good(t)') /\ (\A t \in Sessions : Holds(t)')
      BY <1>2, <1>3, <1>4 DEF Next
    <2>2. (IdleInv /\ FreshInv /\ FrameFresh /\ OpenInv /\ CleanedUp)'
      BY <2>1 DEF Good, IdleInv, FreshInv, FrameFresh, OpenInv, CleanedUp, At
    <2>3. QueueFaithful'
      BY <2>1 DEF Holds, QueueFaithful
    <2> QED BY <2>1, <2>2, <2>3 DEF IInv
  <1> QED BY <1>1, <1>4

LEMMA IInvAlways == Spec => []IInv
  BY InitIInv, NextIInv, PTL DEF Spec

(* Every variable of session_run and of the headless backend keeps its     *)
(* type: no index leaves the ring, idle_count stops one past its limit.    *)
THEOREM LoopTypes == Spec => []TypeOK
  <1>1. IInv => TypeOK
    BY DEF IInv
  <1> QED BY <1>1, IInvAlways, PTL

(* session_run never waits for an event in front of a frame that is not    *)
(* the widget's present state or was laid out for another size than the    *)
(* loop knows.                                                             *)
THEOREM FrameIsFresh == Spec => []FrameFresh
  <1>1. IInv => FrameFresh
    BY DEF IInv
  <1> QED BY <1>1, IInvAlways, PTL

(* The headless ring buffer is a first-in first-out queue that loses only  *)
(* the events it had no room for, whatever its capacity.                   *)
THEOREM QueueIsFaithful == Spec => []QueueFaithful
  <1>1. IInv => QueueFaithful
    BY DEF IInv
  <1> QED BY <1>1, IInvAlways, PTL

(* However session_run ends, it has torn the backend down exactly once and *)
(* its arena is no longer the global one.                                  *)
THEOREM LoopCleansUp == Spec => []CleanedUp
  <1>1. IInv => CleanedUp
    BY DEF IInv
  <1> QED BY <1>1, IInvAlways, PTL
=============================================================================
