-------------------------- MODULE ConnectionProofs --------------------------
(***************************************************************************)
(* Proofs about Connection for any set of connections, any bounds and      *)
(* either build (with or without the GUI backend).                         *)
(***************************************************************************)
EXTENDS Connection, TLAPS

(* write() appends to one connection's output or kills the process; after  *)
(* a prelude of acknowledgements and frames an answer is the last output.  *)
LEMMA WriteSent ==
  ASSUME TypeOK, NEW c \in Conns, NEW out \in Outputs, Write(c, out)
  PROVE  /\ sent' \in [Conns -> Seq(Outputs)]
         /\ daemon' \in {"up", "killed"}
         /\ \A d \in Conns \ {c} : sent'[d] = sent[d]
         /\ OnlyPrelude(c) => AnswerLast(c)'
         /\ OnlyPrelude(c) /\ out.kind \in {"ack", "draw"} => OnlyPrelude(c)'
  <1>0. /\ sent \in [Conns -> Seq(Outputs)]
        /\ sent[c] \in Seq(Outputs)
        /\ daemon \in {"up", "killed"}
    BY DEF TypeOK
  <1>1. CASE client[c] = "gone"
    BY <1>0, <1>1 DEF Write, OnlyPrelude, AnswerLast
  <1>3. CASE client[c] # "gone" /\ inGui[c]
    BY <1>0, <1>3 DEF Write, OnlyPrelude, AnswerLast
  <1>2. CASE client[c] # "gone" /\ ~inGui[c]
    <2>1. /\ sent' = [sent EXCEPT ![c] = Append(sent[c], out)]
          /\ daemon' = daemon
      BY <1>2 DEF Write
    <2>2. Append(sent[c], out) \in Seq(Outputs)
      BY <1>0
    <2>3. /\ sent'[c] = Append(sent[c], out)
          /\ sent' \in [Conns -> Seq(Outputs)]
          /\ \A d \in Conns \ {c} : sent'[d] = sent[d]
      BY <1>0, <2>1, <2>2
    <2>4. /\ Len(sent'[c]) = Len(sent[c]) + 1
          /\ Len(sent[c]) \in Nat
          /\ sent'[c][Len(sent[c]) + 1] = out
          /\ \A i \in 1..Len(sent[c]) : sent'[c][i] = sent[c][i]
      BY <1>0, <2>3
    <2>5. \A i \in 1..Len(sent'[c]) : i \in 1..Len(sent[c]) \/ i = Len(sent[c]) + 1
      BY <2>4
    <2> QED BY <1>0, <2>1, <2>3, <2>4, <2>5 DEF OnlyPrelude, AnswerLast
  <1> QED BY <1>1, <1>2, <1>3

(* Everything the daemon writes is one of the outputs.                     *)
LEMMA OutputKinds ==
  ASSUME TypeOK
  PROVE  /\ \A k \in {"ack", "pong", "query_response", "response", "error"} :
              Json(k) \in Outputs /\ Encoded(k) \in Outputs
         /\ Frame \in Outputs /\ Frame.kind = "draw"
         /\ Json("ack").kind = "ack"
  BY DEF TypeOK, Outputs, Json, Encoded, Frame

(* A connection whose thread does not move keeps its invariant.            *)
LEMMA OthersKeep ==
  ASSUME NEW d \in Conns, ConnInv(d), sent'[d] = sent[d],
         pc'[d] = pc[d], inGui'[d] = inGui[d], raw'[d] = raw[d]
  PROVE  ConnInv(d)'
  BY DEF ConnInv, AnswerLast, OnlyPrelude

(* The initial state satisfies the inductive invariant.                    *)
LEMMA InitIInv == Init => IInv
  <1> SUFFICES ASSUME Init PROVE IInv
    OBVIOUS
  <1>1. TypeOK
    <2>1. MaxEvents \in 0..MaxEvents /\ NoLine \in [n : 0..LineMax, idle : BOOLEAN]
      BY ConnectionAssumption DEF NoLine
    <2>2. PlainMode \in [msgpack : BOOLEAN, streaming : BOOLEAN]
      BY DEF PlainMode
    <2>3. 0 \in 0..INACTIVITY_TIMEOUT + 1
      BY ConnectionAssumption
    <2>4. <<>> \in Seq(Outputs)
      OBVIOUS
    <2> QED BY <2>1, <2>2, <2>3, <2>4 DEF Init, TypeOK
  <1>2. ASSUME NEW c \in Conns PROVE ConnInv(c)
    BY DEF Init, ConnInv, AnswerLast, OnlyPrelude
  <1> QED BY <1>1, <1>2 DEF IInv

(* The steps of a thread that write nothing.                               *)
LEMMA QuietType ==
  ASSUME TypeOK, NEW c \in Conns,
         \/ Accepted(c) \/ ReadByte(c) \/ ReadNothing(c) \/ WidgetAnswers(c) \/ Close(c)
         \/ \E kind \in Kinds : ReadMessage(c, kind)
  PROVE  TypeOK'
  <1>0. 0 \in 0..INACTIVITY_TIMEOUT + 1
    BY ConnectionAssumption
  <1>1. CASE Accepted(c)
    BY <1>0, <1>1 DEF TypeOK, Accepted, Goto, Set, globals
  <1>2. CASE ReadNothing(c)
    BY <1>2 DEF TypeOK, ReadNothing, Goto, globals
  <1>3. CASE WidgetAnswers(c)
    BY <1>3 DEF TypeOK, WidgetAnswers, Goto, Set, globals
  <1>4. CASE Close(c)
    BY <1>4 DEF TypeOK, Close, Goto, globals
  <1>5. ASSUME NEW kind \in Kinds, ReadMessage(c, kind) PROVE TypeOK'
    <2>1. line' \in [Conns -> [n : 0..LineMax, idle : BOOLEAN]]
      BY <1>5, ConnectionAssumption DEF TypeOK, ReadMessage, Set, NoLine
    <2>2. /\ pc' \in [Conns -> {"new", "read", "first", "second", "gui", "dispatch",
                                "run", "respond", "close", "closed"}]
          /\ req' \in [Conns -> Kinds \cup {"none"}]
          /\ quiet' \in [Conns -> 0..INACTIVITY_TIMEOUT + 1]
      BY <1>0, <1>5 DEF TypeOK, ReadMessage, Goto, Set
    <2> QED BY <1>5, <2>1, <2>2 DEF TypeOK, ReadMessage, globals
  <1>6. CASE ReadByte(c)
    <2>1. line[c] \in [n : 0..LineMax, idle : BOOLEAN] /\ line[c].n + 1 \in 0..LineMax
      BY <1>6, ConnectionAssumption DEF TypeOK, ReadByte
    <2>2. [n |-> line[c].n + 1, idle |-> FALSE] \in [n : 0..LineMax, idle : BOOLEAN]
      BY <2>1
    <2>3. line' \in [Conns -> [n : 0..LineMax, idle : BOOLEAN]]
      BY <1>6, <2>2 DEF TypeOK, ReadByte, Set
    <2> QED BY <1>6, <2>3 DEF TypeOK, ReadByte, Goto, globals
  <1> QED BY <1>1, <1>2, <1>3, <1>4, <1>5, <1>6

LEMMA QuietConn ==
  ASSUME TypeOK, NEW c \in Conns, ConnInv(c),
         \/ Accepted(c) \/ ReadByte(c) \/ ReadNothing(c) \/ WidgetAnswers(c) \/ Close(c)
         \/ \E kind \in Kinds : ReadMessage(c, kind)
  PROVE  /\ ConnInv(c)'
         /\ \A d \in Conns \ {c} : /\ sent'[d] = sent[d] /\ pc'[d] = pc[d]
                                    /\ inGui'[d] = inGui[d] /\ raw'[d] = raw[d]
  <1>1. /\ sent' = sent /\ inGui' = inGui
        /\ \A d \in Conns \ {c} : pc'[d] = pc[d] /\ raw'[d] = raw[d]
    BY DEF TypeOK, Accepted, ReadByte, ReadNothing, WidgetAnswers, Close, ReadMessage, Goto, Set
  <1>2. /\ raw'[c] => pc'[c] = "run"
        /\ inGui[c] => pc'[c] \notin {"new", "first", "second", "gui"}
        /\ pc[c] \in {"close", "closed"} => pc'[c] \in {"close", "closed"}
    BY DEF TypeOK, ConnInv, Accepted, ReadByte, ReadNothing, WidgetAnswers, Close, ReadMessage, Goto, Set, At
  <1> QED BY <1>1, <1>2 DEF ConnInv, AnswerLast, OnlyPrelude

(* handle_client's first message: at most an acknowledgement goes out.     *)
LEMMA FirstConn ==
  ASSUME TypeOK, NEW c \in Conns, ConnInv(c), FirstMessage(c)
  PROVE  /\ TypeOK'
         /\ ConnInv(c)'
         /\ \A d \in Conns \ {c} : /\ sent'[d] = sent[d] /\ pc'[d] = pc[d]
                                    /\ inGui'[d] = inGui[d] /\ raw'[d] = raw[d]
  <1>1. /\ pc[c] = "first" /\ ~inGui[c] /\ ~raw[c] /\ OnlyPrelude(c)
        /\ pc'[c] \in {"gui", "read", "second"}
        /\ inGui' = inGui /\ raw' = raw
    BY DEF FirstMessage, ConnInv, At, Goto, TypeOK
  <1>2. /\ sent' \in [Conns -> Seq(Outputs)] /\ daemon' \in {"up", "killed"}
        /\ \A d \in Conns \ {c} : sent'[d] = sent[d]
        /\ OnlyPrelude(c)'
    <2>1. CASE Write(c, Json("ack"))
      BY <1>1, <2>1, WriteSent, OutputKinds
    <2>2. CASE NoWrite
      BY <1>1, <2>2 DEF NoWrite, TypeOK, OnlyPrelude
    <2> QED BY <2>1, <2>2 DEF FirstMessage
  <1>3. /\ neg' \in [Conns -> [msgpack : BOOLEAN, streaming : BOOLEAN]]
        /\ use_msgpack' \in BOOLEAN
        /\ session_use_streaming' \in BOOLEAN
    <2>1. Negotiated(req[c]) \in [msgpack : BOOLEAN, streaming : BOOLEAN]
      BY DEF Negotiated
    <2>2. neg' = [neg EXCEPT ![c] = Negotiated(req[c])]
      BY DEF FirstMessage, Set
    <2>3. /\ neg' \in [Conns -> [msgpack : BOOLEAN, streaming : BOOLEAN]]
          /\ neg'[c] \in [msgpack : BOOLEAN, streaming : BOOLEAN]
      BY <2>1, <2>2 DEF TypeOK
    <2> QED BY <2>3 DEF FirstMessage
  <1>4. TypeOK'
    <2>1. pc' \in [Conns -> {"new", "read", "first", "second", "gui", "dispatch",
                             "run", "respond", "close", "closed"}]
      BY DEF FirstMessage, Goto, TypeOK
    <2> QED BY <1>2, <1>3, <2>1 DEF FirstMessage, TypeOK
  <1>5. ConnInv(c)'
    BY <1>1, <1>2 DEF ConnInv, AnswerLast, OnlyPrelude
  <1> QED BY <1>1, <1>2, <1>4, <1>5 DEF FirstMessage, Goto, TypeOK

(* What the other steps that may write have in common: one output at most, *)
(* and who goes on after an answer outside the GUI loop is about to close. *)
Moves(c) ==
  /\ \/ NoWrite
     \/ \E out \in Outputs :
          /\ Write(c, out)
          /\ out.kind \in {"ack", "draw"} \/ pc'[c] = "close" \/ inGui[c]
  /\ \A d \in Conns \ {c} : pc'[d] = pc[d] /\ raw'[d] = raw[d] /\ inGui'[d] = inGui[d]

LEMMA MovesConn ==
  ASSUME TypeOK, NEW c \in Conns, ConnInv(c), Moves(c),
         pc[c] \notin {"close", "closed"},
         inGui[c] => inGui'[c],
         raw'[c] => pc'[c] = "run",
         inGui'[c] => pc'[c] \notin {"new", "first", "second", "gui"}
  PROVE  /\ sent' \in [Conns -> Seq(Outputs)]
         /\ daemon' \in {"up", "killed"}
         /\ ConnInv(c)'
         /\ \A d \in Conns \ {c} : /\ sent'[d] = sent[d] /\ pc'[d] = pc[d]
                                    /\ inGui'[d] = inGui[d] /\ raw'[d] = raw[d]
  <1>1. CASE NoWrite
    <2>1. sent' = sent /\ daemon' = daemon
      BY <1>1 DEF NoWrite
    <2>2. ConnInv(c)'
      BY <2>1 DEF ConnInv, AnswerLast, OnlyPrelude
    <2> QED BY <2>1, <2>2 DEF TypeOK, Moves
  <1>2. ASSUME NEW out \in Outputs, Write(c, out),
               out.kind \in {"ack", "draw"} \/ pc'[c] = "close" \/ inGui[c]
        PROVE  /\ sent' \in [Conns -> Seq(Outputs)]
               /\ daemon' \in {"up", "killed"}
               /\ \A d \in Conns \ {c} : sent'[d] = sent[d]
               /\ ConnInv(c)'
    <2>1. /\ sent' \in [Conns -> Seq(Outputs)]
          /\ daemon' \in {"up", "killed"}
          /\ \A d \in Conns \ {c} : sent'[d] = sent[d]
          /\ OnlyPrelude(c) => AnswerLast(c)'
          /\ OnlyPrelude(c) /\ out.kind \in {"ack", "draw"} => OnlyPrelude(c)'
      BY <1>2, WriteSent
    <2>2. ~inGui'[c] => ~inGui[c] /\ OnlyPrelude(c)
      BY DEF ConnInv
    <2> QED BY <1>2, <2>1, <2>2 DEF ConnInv
  <1> QED BY <1>1, <1>2 DEF Moves

(* Each of those steps is such a move.                                     *)
LEMMA ServeMoves ==
  ASSUME TypeOK, NEW c \in Conns, ConnInv(c),
         \/ GuiStart(c) \/ SecondMessage(c) \/ Dispatch(c)
         \/ WidgetEvent(c) \/ Respond(c)
  PROVE  /\ Moves(c)
         /\ pc[c] \notin {"close", "closed"}
         /\ inGui[c] => inGui'[c]
         /\ raw'[c] => pc'[c] = "run"
         /\ inGui'[c] => pc'[c] \notin {"new", "first", "second", "gui"}
  <1> DEFINE Stay == \A d \in Conns \ {c} : pc'[d] = pc[d] /\ raw'[d] = raw[d] /\ inGui'[d] = inGui[d]
  <1>1. CASE GuiStart(c)
    <2>1. Stay /\ pc[c] = "gui" /\ ~inGui[c] /\ ~raw'[c] /\ pc'[c] \in {"close", "read"}
      BY <1>1 DEF GuiStart, Goto, Set, At, TypeOK, ConnInv
    <2>2. Moves(c)
      <3>1. CASE Write(c, Json("error")) /\ Goto(c, "close")
        <4>1. pc'[c] = "close"
          BY <3>1 DEF Goto, TypeOK
        <4> QED BY <2>1, <3>1, <4>1, OutputKinds DEF Moves
      <3> QED BY <1>1, <2>1, <3>1 DEF GuiStart, Moves
    <2> QED BY <2>1, <2>2
  <1>2. CASE SecondMessage(c)
    <2>1. Stay /\ pc[c] = "second" /\ ~inGui[c] /\ inGui' = inGui
      BY <1>2 DEF SecondMessage, Goto, Set, At, TypeOK, ConnInv
    <2>2. ~raw[c]
      BY <2>1 DEF ConnInv
    <2>3. raw'[c] => pc'[c] = "run"
      BY <1>2, <2>2 DEF SecondMessage, Goto, Set, TypeOK
    <2>4. Moves(c)
      <3>1. CASE Write(c, Json("error")) /\ Goto(c, "close")
        <4>1. pc'[c] = "close"
          BY <3>1 DEF Goto, TypeOK
        <4> QED BY <2>1, <3>1, <4>1, OutputKinds DEF Moves
      <3>2. CASE Write(c, Frame)
        BY <2>1, <3>2, OutputKinds DEF Moves
      <3>3. CASE NoWrite
        BY <2>1, <3>3 DEF Moves
      <3> QED BY <1>2, <3>1, <3>2, <3>3 DEF SecondMessage
    <2> QED BY <2>1, <2>3, <2>4
  <1>3. CASE Dispatch(c)
    <2>1. /\ Stay /\ pc[c] = "dispatch" /\ inGui' = inGui /\ raw' = raw /\ ~raw[c]
          /\ pc'[c] \in {"read", "close", "respond", "run"}
      BY <1>3 DEF Dispatch, Goto, At, Onward, TypeOK, ConnInv
    <2>2. Moves(c)
      <3>1. ASSUME NEW k \in {"pong", "query_response", "response", "error"},
                   Write(c, Json(k)) \/ Write(c, Encoded(k)),
                   Goto(c, Onward(c)) \/ Goto(c, "close")
            PROVE  Moves(c)
        <4>1. pc'[c] = "close" \/ inGui[c]
          BY <3>1 DEF Goto, Onward, TypeOK
        <4>2. Json(k) \in Outputs /\ Encoded(k) \in Outputs
          BY <3>1, OutputKinds
        <4> QED BY <2>1, <3>1, <4>1, <4>2 DEF Moves
      <3>2. CASE NoWrite
        BY <2>1, <3>2 DEF Moves
      <3> QED BY <1>3, <3>1, <3>2 DEF Dispatch
    <2> QED BY <2>1, <2>2
  <1>4. CASE WidgetEvent(c)
    <2>1. Stay /\ pc[c] = "run" /\ pc' = pc /\ inGui' = inGui
      BY <1>4 DEF WidgetEvent, At
    <2>2. Moves(c)
      BY <1>4, <2>1, OutputKinds DEF WidgetEvent, Moves
    <2> QED BY <2>1, <2>2
  <1>5. CASE Respond(c)
    <2>1. /\ Stay /\ pc[c] = "respond" /\ inGui' = inGui /\ ~raw'[c]
          /\ pc'[c] = Onward(c)
          /\ Write(c, Encoded("response"))
      BY <1>5 DEF Respond, Goto, At, TypeOK, ConnInv
    <2>2. Encoded("response") \in Outputs
      BY OutputKinds
    <2>3. Moves(c)
      BY <2>1, <2>2 DEF Moves, Onward
    <2> QED BY <2>1, <2>3 DEF Onward
  <1> QED BY <1>1, <1>2, <1>3, <1>4, <1>5

(* They keep the types of everything but what is written.                  *)
LEMMA ServeType ==
  ASSUME TypeOK, NEW c \in Conns,
         sent' \in [Conns -> Seq(Outputs)], daemon' \in {"up", "killed"},
         \/ GuiStart(c) \/ SecondMessage(c) \/ Dispatch(c)
         \/ WidgetEvent(c) \/ Respond(c)
  PROVE  TypeOK'
  <1>1. CASE GuiStart(c)
    <2>1. 0 \in 0..INACTIVITY_TIMEOUT + 1
      BY ConnectionAssumption
    <2>2. /\ quiet' \in [Conns -> 0..INACTIVITY_TIMEOUT + 1]
          /\ inGui' \in [Conns -> BOOLEAN]
      <3>1. CASE UNCHANGED <<inGui, quiet>>
        BY <3>1 DEF TypeOK
      <3>2. CASE inGui' = Set(inGui, c, TRUE) /\ quiet' = Set(quiet, c, 0)
        BY <3>2, <2>1 DEF Set, TypeOK
      <3> QED BY <1>1, <3>1, <3>2 DEF GuiStart
    <2> QED BY <1>1, <2>2 DEF GuiStart, Goto, globals, TypeOK
  <1>2. CASE SecondMessage(c)
    <2>1. raw' \in [Conns -> BOOLEAN]
      BY <1>2 DEF SecondMessage, Set, TypeOK
    <2> QED BY <1>2, <2>1 DEF SecondMessage, Goto, globals, TypeOK
  <1>3. CASE Dispatch(c)
    BY <1>3 DEF Dispatch, Goto, Onward, globals, TypeOK
  <1>4. CASE WidgetEvent(c)
    <2>4. events' \in [Conns -> 0..MaxEvents]
      BY <1>4, ConnectionAssumption DEF TypeOK, WidgetEvent
    <2> QED BY <1>4, <2>4 DEF WidgetEvent, globals, TypeOK
  <1>5. CASE Respond(c)
    BY <1>5 DEF Respond, Goto, Onward, globals, TypeOK
  <1> QED BY <1>1, <1>2, <1>3, <1>4, <1>5

(* Every step of every thread and client preserves the invariant.          *)
LEMMA NextIInv == IInv /\ [Next]_vars => IInv'
  <1> SUFFICES ASSUME IInv, [Next]_vars PROVE IInv'
    OBVIOUS
  <1>0. TypeOK /\ \A c \in Conns : ConnInv(c)
    BY DEF IInv
  <1>1. ASSUME NEW c \in Conns, TypeOK', ConnInv(c)',
               \A d \in Conns \ {c} : /\ sent'[d] = sent[d] /\ pc'[d] = pc[d]
                                       /\ inGui'[d] = inGui[d] /\ raw'[d] = raw[d]
        PROVE  IInv'
    <2>1. \A d \in Conns \ {c} : ConnInv(d)'
      BY <1>0, <1>1, OthersKeep
    <2> QED BY <1>1, <2>1 DEF IInv
  <1>2. ASSUME NEW c \in Conns, Thread(c) PROVE IInv'
    <2>1. CASE FirstMessage(c)
      BY <1>0, <1>1, <2>1, FirstConn
    <2>2. CASE \/ GuiStart(c) \/ SecondMessage(c) \/ Dispatch(c)
               \/ WidgetEvent(c) \/ Respond(c)
      <3>1. /\ sent' \in [Conns -> Seq(Outputs)]
            /\ daemon' \in {"up", "killed"}
            /\ ConnInv(c)'
            /\ \A d \in Conns \ {c} : /\ sent'[d] = sent[d] /\ pc'[d] = pc[d]
                                       /\ inGui'[d] = inGui[d] /\ raw'[d] = raw[d]
        BY <1>0, <2>2, ServeMoves, MovesConn
      <3>2. TypeOK'
        BY <1>0, <2>2, <3>1, ServeType
      <3> QED BY <1>1, <3>1, <3>2
    <2>3. CASE \/ Accepted(c) \/ ReadByte(c) \/ ReadNothing(c) \/ WidgetAnswers(c) \/ Close(c)
               \/ \E kind \in Kinds : ReadMessage(c, kind)
      BY <1>0, <1>1, <2>3, QuietType, QuietConn
    <2> QED BY <1>2, <2>1, <2>2, <2>3 DEF Thread
  <1>3. ASSUME NEW c \in Conns, NEW how \in {"silent", "gone"}, ClientTurns(c, how) PROVE IInv'
    <2>1. TypeOK'
      BY <1>0, <1>3 DEF ClientTurns, Set, locals, globals, TypeOK
    <2> QED BY <1>0, <1>3, <2>1, OthersKeep DEF ClientTurns, locals, IInv
  <1>4. CASE Tick
    <2>1. quiet' \in [Conns -> 0..INACTIVITY_TIMEOUT + 1]
      BY <1>0, <1>4, ConnectionAssumption DEF Tick, TypeOK
    <2>3. line' \in [Conns -> [n : 0..LineMax, idle : BOOLEAN]]
      <3>1. \A c \in Conns : (pc[c] = "read") \in BOOLEAN
        OBVIOUS
      <3> QED BY <1>0, <1>4, <3>1 DEF Tick, TypeOK
    <2>2. TypeOK'
      BY <1>0, <1>4, <2>1, <2>3 DEF Tick, locals, globals, TypeOK
    <2> QED BY <1>0, <1>4, <2>2, OthersKeep DEF Tick, locals, IInv
  <1>5. CASE UNCHANGED vars
    <2>1. TypeOK'
      BY <1>0, <1>5 DEF vars, locals, globals, TypeOK
    <2> QED BY <1>0, <1>5, <2>1, OthersKeep DEF vars, locals, IInv
  <1> QED BY <1>2, <1>3, <1>4, <1>5 DEF Next

(* TypeOK is an invariant of the client threads.                           *)
THEOREM TypeCorrect == Spec => []TypeOK
  <1>1. IInv => TypeOK
    BY DEF IInv
  <1> QED BY <1>1, InitIInv, NextIInv, PTL DEF Spec

(* Outside the GUI loop no path of handle_client and dispatch_message      *)
(* answers twice or sends a frame after the answer, for any number of      *)
(* threads, whoever leaves while it is written to.                         *)
THEOREM AnswersOnce == Spec => []AnsweredOnce
  <1>1. IInv => AnsweredOnce
    BY DEF IInv, ConnInv, AnswerLast, AnsweredOnce
  <1> QED BY <1>1, InitIInv, NextIInv, PTL DEF Spec

(* No connection is closed with the terminal that a relayed widget uses    *)
(* still in raw mode.                                                      *)
THEOREM RestoresTty == Spec => []TtyRestored
  <1>1. IInv => TtyRestored
    BY DEF IInv, ConnInv, TtyRestored
  <1> QED BY <1>1, InitIInv, NextIInv, PTL DEF Spec
=============================================================================
