----------------------------- MODULE Connection -----------------------------
(***************************************************************************)
(* The client threads of the daemon (handle_client, handle_gui_client and  *)
(* dispatch_message in src/backend/daemon/daemon.c): what each connection  *)
(* is sent, when it is closed, and how the threads disturb each other      *)
(* through the process-wide use_msgpack and session_use_streaming.         *)
(*                                                                         *)
(* A message is its kind.  Requests of the same fate share one: "ok" is    *)
(* any typed message answered by send_ok (position, unsubscribe, reloads,  *)
(* set_accessibility, session), "subscribe" any that is not answered,      *)
(* "refused" any that send_error answers, "unknown" a widget or a type     *)
(* nobody registered.                                                      *)
(***************************************************************************)
EXTENDS Integers, Sequences, SequencesExt

CONSTANTS
  Conns,              \* the connections, each served by a thread of its own
  INACTIVITY_TIMEOUT, \* seconds
  MaxEvents,          \* bound: events a relayed or GUI widget handles
  LineMax,            \* bytes of a line before read_message gives up
  FILLY_GCORE         \* whether the build has the GUI backend

ASSUME ConnectionAssumption ==
  /\ INACTIVITY_TIMEOUT \in Nat
  /\ MaxEvents \in Nat
  /\ LineMax \in Nat \ {0}
  /\ FILLY_GCORE \in BOOLEAN

VARIABLES
  pc,         \* where each thread stands
  req,        \* the message it works on
  inGui,      \* it is in handle_gui_client
  neg,        \* what its client negotiated: [msgpack, streaming]
  sent,       \* what was written to its socket outside the GUI loop
  client,     \* "here", "silent" (sends nothing any more) or "gone"
  quiet,      \* seconds since last_activity, at most the timeout plus one
  line,       \* the line read_message is in: [n, idle], idle after a second without a byte
  events,     \* what is left of MaxEvents
  raw,        \* its terminal is in raw mode (sock_setup)
  use_msgpack,            \* the two globals
  session_use_streaming,
  daemon      \* "up", or "killed" by a signal

locals == <<pc, req, inGui, neg, events, raw>>
globals == <<use_msgpack, session_use_streaming>>
vars == <<locals, line, sent, client, quiet, globals, daemon>>

-----------------------------------------------------------------------------
Typed == {"ping", "query", "subscribe", "ok", "refused", "quit"}
Widgets == {"widget", "relay", "unknown"}
AskMsgpack == {"handshake+msgpack", "handshake+both"}
AskStreaming == {"handshake+streaming", "handshake+both"}
ListCapabilities == AskStreaming \cup {"handshake+caps"}
AskGui == {"gui", "handshake+gui"}
Handshakes == {"handshake", "handshake+gui"} \cup AskMsgpack \cup ListCapabilities
Kinds == Typed \cup Widgets \cup Handshakes \cup {"gui", "garbage"}

Outputs == [kind : {"ack", "pong", "query_response", "response", "error", "draw"},
            msgpack : BOOLEAN, streamed : BOOLEAN]

NoLine == [n |-> 0, idle |-> FALSE]
PlainMode == [msgpack |-> FALSE, streaming |-> FALSE]

TypeOK ==
  /\ pc \in [Conns -> {"new", "read", "first", "second", "gui", "dispatch",
                       "run", "respond", "close", "closed"}]
  /\ req \in [Conns -> Kinds \cup {"none"}]
  /\ inGui \in [Conns -> BOOLEAN]
  /\ neg \in [Conns -> [msgpack : BOOLEAN, streaming : BOOLEAN]]
  /\ sent \in [Conns -> Seq(Outputs)]
  /\ client \in [Conns -> {"here", "silent", "gone"}]
  /\ quiet \in [Conns -> 0..INACTIVITY_TIMEOUT + 1]
  /\ line \in [Conns -> [n : 0..LineMax, idle : BOOLEAN]]
  /\ events \in [Conns -> 0..MaxEvents]
  /\ raw \in [Conns -> BOOLEAN]
  /\ use_msgpack \in BOOLEAN
  /\ session_use_streaming \in BOOLEAN
  /\ daemon \in {"up", "killed"}

Init ==
  /\ pc = [c \in Conns |-> "new"]
  /\ req = [c \in Conns |-> "none"]
  /\ inGui = [c \in Conns |-> FALSE]
  /\ neg = [c \in Conns |-> PlainMode]
  /\ sent = [c \in Conns |-> <<>>]
  /\ client = [c \in Conns |-> "here"]
  /\ quiet = [c \in Conns |-> 0]
  /\ line = [c \in Conns |-> NoLine]
  /\ events = [c \in Conns |-> MaxEvents]
  /\ raw = [c \in Conns |-> FALSE]
  /\ use_msgpack = FALSE
  /\ session_use_streaming = FALSE
  /\ daemon = "up"

At(c, here) == daemon = "up" /\ pc[c] = here
Goto(c, there) == pc' = [pc EXCEPT ![c] = there]
Set(f, c, v) == [f EXCEPT ![c] = v]

(* The encodings: send_error, send_ok and the pong are always JSON text,   *)
(* send_response_msgpack looks at the global, sock_draw at the other one.  *)
Json(kind) == [kind |-> kind, msgpack |-> FALSE, streamed |-> FALSE]
Encoded(kind) == [kind |-> kind, msgpack |-> use_msgpack, streamed |-> FALSE]
Frame == [kind |-> "draw", msgpack |-> FALSE, streamed |-> session_use_streaming]

(* write(): with nobody at the other end the kernel raises SIGPIPE, which  *)
(* the daemon neither ignores nor handles.                                 *)
Write(c, out) ==
  IF client[c] = "gone"
    THEN daemon' = "killed" /\ UNCHANGED sent
    ELSE /\ sent' = IF inGui[c] THEN sent ELSE [sent EXCEPT ![c] = Append(@, out)]
         /\ UNCHANGED daemon

NoWrite == UNCHANGED <<sent, daemon>>

-----------------------------------------------------------------------------
(* Reading.                                                                *)

Accepted(c) ==
  /\ At(c, "new")
  /\ Goto(c, "read")
  /\ quiet' = Set(quiet, c, 0)
  /\ UNCHANGED <<req, line, inGui, neg, events, raw, sent, client, globals, daemon>>

(* read_message returns a line.  last_activity is set when it is complete. *)
ReadMessage(c, kind) ==
  /\ At(c, "read")
  /\ client[c] = "here"
  /\ req' = Set(req, c, kind)
  /\ quiet' = Set(quiet, c, 0)
  /\ line' = Set(line, c, NoLine)
  /\ Goto(c, IF inGui[c] THEN "dispatch" ELSE IF req[c] \in Handshakes THEN "second" ELSE "first")
  /\ UNCHANGED <<inGui, neg, events, raw, sent, client, globals, daemon>>

(* A byte that ends no line puts off the look at the clock, which is taken *)
(* only after a second without one; the buffer holds LineMax of them.      *)
ReadByte(c) ==
  /\ At(c, "read")
  /\ client[c] = "here"
  /\ line[c].n < LineMax
  /\ line' = Set(line, c, [n |-> line[c].n + 1, idle |-> FALSE])
  /\ Goto(c, IF line[c].n + 1 = LineMax THEN "close" ELSE "read")
  /\ UNCHANGED <<req, inGui, neg, events, raw, sent, client, quiet, globals, daemon>>

(* Mutant of ReadNothing: only the end of the input ends the wait.         *)
ReadNoTimeout(c) ==
  /\ At(c, "read")
  /\ client[c] = "gone"
  /\ Goto(c, "close")
  /\ UNCHANGED <<req, line, inGui, neg, events, raw, sent, client, quiet, globals, daemon>>

(* read_message returns NULL: end of file, or nothing for too long.        *)
ReadNothing(c) ==
  /\ At(c, "read")
  /\ client[c] = "gone" \/ (line[c].idle /\ quiet[c] > INACTIVITY_TIMEOUT)
  /\ Goto(c, "close")
  /\ UNCHANGED <<req, line, inGui, neg, events, raw, sent, client, quiet, globals, daemon>>

-----------------------------------------------------------------------------
(* handle_client after the first message: the globals are reset, then set  *)
(* if it is a handshake, which is acknowledged if it lists capabilities.   *)
Negotiated(kind) ==
  [msgpack |-> kind \in AskMsgpack, streaming |-> kind \in AskStreaming]

FirstMessage(c) ==
  /\ At(c, "first")
  /\ neg' = Set(neg, c, Negotiated(req[c]))
  /\ use_msgpack' = neg'[c].msgpack
  /\ session_use_streaming' = neg'[c].streaming
  /\ IF req[c] \in ListCapabilities THEN Write(c, Json("ack")) ELSE NoWrite
  /\ Goto(c, IF req[c] \in AskGui /\ FILLY_GCORE THEN "gui"
             ELSE IF req[c] \in Handshakes THEN "read" ELSE "second")
  /\ UNCHANGED <<req, line, inGui, events, raw, client, quiet>>

(* The message that asked for the GUI is dropped; the loop reads others.   *)
GuiStart(c) ==
  /\ At(c, "gui")
  /\ \/ /\ Write(c, Json("error"))
        /\ Goto(c, "close")
        /\ UNCHANGED <<inGui, quiet>>
     \/ /\ NoWrite
        /\ inGui' = Set(inGui, c, TRUE)
        /\ quiet' = Set(quiet, c, 0)
        /\ Goto(c, "read")
  /\ UNCHANGED <<req, line, neg, events, raw, client, globals>>

(* The message to be served: text that is not JSON closes the connection   *)
(* without a word; a typed message is dispatched; a widget is run, over a  *)
(* terminal if it is relayed, which may be refused.                        *)
SecondMessage(c) ==
  /\ At(c, "second")
  /\ \/ /\ req[c] = "garbage"
        /\ Goto(c, "close")
        /\ NoWrite /\ UNCHANGED raw
     \/ /\ req[c] \in Typed \cup Handshakes
        /\ Goto(c, "dispatch")
        /\ NoWrite /\ UNCHANGED raw
     \/ /\ req[c] = "relay"
        /\ Write(c, Json("error"))
        /\ Goto(c, "close")
        /\ UNCHANGED raw
     \/ /\ req[c] = "relay"
        /\ raw' = Set(raw, c, TRUE)
        /\ Write(c, Frame)
        /\ Goto(c, "run")
     \/ /\ req[c] \in {"widget", "gui", "unknown"}
        /\ Goto(c, IF req[c] = "unknown" THEN "respond" ELSE "run")
        /\ NoWrite /\ UNCHANGED raw
  /\ UNCHANGED <<req, line, inGui, neg, events, client, quiet, globals>>

-----------------------------------------------------------------------------
(* dispatch_message: at most one answer, then the connection is closed or  *)
(* the GUI loop goes on.                                                   *)
Onward(c) == IF inGui[c] THEN "read" ELSE "close"

Dispatch(c) ==
  /\ At(c, "dispatch")
  /\ \/ /\ req[c] = "ping"
        /\ Write(c, Json("pong")) /\ Goto(c, Onward(c))
     \/ /\ req[c] = "query"
        /\ Write(c, Encoded("query_response")) /\ Goto(c, Onward(c))
     \/ /\ req[c] = "subscribe"
        /\ NoWrite /\ Goto(c, Onward(c))
     \/ /\ req[c] = "ok"
        /\ Write(c, Json("response")) /\ Goto(c, Onward(c))
     \/ /\ req[c] = "quit"
        /\ Write(c, Json("response")) /\ Goto(c, "close")
     \/ /\ req[c] \in {"refused", "garbage"}
        /\ Write(c, Json("error")) /\ Goto(c, Onward(c))
     \/ /\ req[c] \in Handshakes \cup {"unknown"}
        /\ NoWrite /\ Goto(c, "respond")
     \/ /\ req[c] \in {"widget", "gui", "relay"}
        /\ NoWrite /\ Goto(c, "run")
  /\ UNCHANGED <<req, line, inGui, neg, events, raw, client, quiet, globals>>

(* session_run.  A headless one answers by itself after enough idle turns; *)
(* a relayed one after an event, which it reads from the socket, and may   *)
(* draw again; one in the GUI after an event of its own window.  At the    *)
(* end of its input sock_next_event returns EVENT_NONE for ever, which an  *)
(* interactive session_run answers by asking again.                        *)
Relayed(c) == req[c] = "relay" /\ ~inGui[c]

WidgetEvent(c) ==
  /\ At(c, "run")
  /\ events[c] > 0
  /\ Relayed(c) => client[c] = "here"
  /\ events' = [events EXCEPT ![c] = @ - 1]
  /\ IF Relayed(c) THEN Write(c, Frame) ELSE NoWrite
  /\ UNCHANGED <<pc, line, req, inGui, neg, raw, client, quiet, globals>>

(* Mutant of WidgetAnswers: the terminal is left as it is.                 *)
WidgetLeavesRaw(c) ==
  /\ At(c, "run")
  /\ Relayed(c) => client[c] = "here"
  /\ Goto(c, "respond")
  /\ UNCHANGED <<req, line, inGui, neg, events, raw, sent, client, quiet, globals, daemon>>

WidgetAnswers(c) ==
  /\ At(c, "run")
  /\ Relayed(c) => client[c] = "here"
  /\ raw' = Set(raw, c, FALSE)
  /\ Goto(c, "respond")
  /\ UNCHANGED <<req, line, inGui, neg, events, sent, client, quiet, globals, daemon>>

(* Mutant of Respond: the answer is repeated before the connection closes. *)
RespondStays(c) ==
  /\ At(c, "respond")
  /\ Write(c, Encoded("response"))
  /\ Goto(c, IF Len(sent[c]) = 0 THEN "respond" ELSE Onward(c))
  /\ UNCHANGED <<req, line, inGui, neg, events, raw, client, quiet, globals>>

Respond(c) ==
  /\ At(c, "respond")
  /\ Write(c, Encoded("response"))
  /\ Goto(c, Onward(c))
  /\ UNCHANGED <<req, line, inGui, neg, events, raw, client, quiet, globals>>

Close(c) ==
  /\ At(c, "close")
  /\ Goto(c, "closed")
  /\ UNCHANGED <<req, line, inGui, neg, events, raw, sent, client, quiet, globals, daemon>>

-----------------------------------------------------------------------------
(* Clients and the clock.                                                  *)
ClientTurns(c, how) ==
  /\ pc[c] \notin {"new", "closed"}
  /\ <<client[c], how>> \in {<<"here", "silent">>, <<"here", "gone">>, <<"silent", "gone">>}
  /\ client' = Set(client, c, how)
  /\ UNCHANGED <<locals, line, sent, quiet, globals, daemon>>

Tick ==
  /\ daemon = "up"
  /\ quiet' = [c \in Conns |-> IF quiet[c] > INACTIVITY_TIMEOUT \/ pc[c] = "closed"
                                THEN quiet[c] ELSE quiet[c] + 1]
  /\ line' = [c \in Conns |-> [line[c] EXCEPT !.idle = pc[c] = "read"]]
  /\ UNCHANGED <<locals, sent, client, globals, daemon>>

Thread(c) ==
  \/ Accepted(c) \/ (\E kind \in Kinds : ReadMessage(c, kind)) \/ ReadByte(c) \/ ReadNothing(c)
  \/ FirstMessage(c) \/ GuiStart(c) \/ SecondMessage(c) \/ Dispatch(c)
  \/ WidgetEvent(c) \/ WidgetAnswers(c) \/ Respond(c) \/ Close(c)

Next ==
  \/ \E c \in Conns : \/ Thread(c)
                      \/ \E how \in {"silent", "gone"} : ClientTurns(c, how)
  \/ Tick

(* The threads run, headless widgets come to an end, time passes.  Nothing *)
(* obliges a client to send or to leave, or a person to answer a widget.   *)
Fairness ==
  /\ WF_vars(Tick)
  /\ \A c \in Conns :
       /\ WF_vars(Accepted(c)) /\ WF_vars(ReadNothing(c)) /\ WF_vars(FirstMessage(c))
       /\ WF_vars(GuiStart(c)) /\ WF_vars(SecondMessage(c)) /\ WF_vars(Dispatch(c))
       /\ WF_vars(Respond(c)) /\ WF_vars(Close(c))
       /\ WF_vars(~Relayed(c) /\ ~inGui[c] /\ WidgetAnswers(c))

Spec == Init /\ [][Next]_vars /\ Fairness

-----------------------------------------------------------------------------
(* Outside the GUI loop a connection is answered once, and nothing follows *)
(* the answer: no second answer of another path, no frame of the session.  *)
AnsweredOnce ==
  \A c \in Conns : ~inGui[c] =>
    \A i \in 1..Len(sent[c]) : sent[c][i].kind \notin {"ack", "draw"} => i = Len(sent[c])

(* The terminal that a relayed widget put into raw mode is restored before *)
(* the connection is closed.                                               *)
TtyRestored == \A c \in Conns : pc[c] \in {"close", "closed"} => ~raw[c]

(* What the two rest on: raw mode lasts as long as session_run, and before *)
(* a connection is closed only acknowledgements and frames were sent,      *)
(* except by the GUI loop, which a thread enters once and leaves to close. *)
OnlyPrelude(c) == \A i \in 1..Len(sent[c]) : sent[c][i].kind \in {"ack", "draw"}

AnswerLast(c) ==
  \A i \in 1..Len(sent[c]) : sent[c][i].kind \notin {"ack", "draw"} => i = Len(sent[c])

ConnInv(c) ==
  /\ raw[c] => pc[c] = "run"
  /\ inGui[c] => pc[c] \notin {"new", "first", "second", "gui"}
  /\ ~inGui[c] => /\ AnswerLast(c)
                  /\ pc[c] \notin {"close", "closed"} => OnlyPrelude(c)

IInv == TypeOK /\ \A c \in Conns : ConnInv(c)

(* Outside the GUI loop a connection is closed in the end, whatever its    *)
(* client sends or omits to send, bytes that never make a line included,   *)
(* unless a person has to answer the widget it shows.  The GUI loop reads  *)
(* on as long as messages come; once they end it is left, too.             *)
Closes ==
  \A c \in Conns :
    /\ pc[c] # "new" ~> \/ pc[c] = "closed" \/ inGui[c]
                        \/ pc[c] = "run" /\ Relayed(c)
                        \/ daemon = "killed"
    /\ inGui[c] /\ client[c] # "here" ~> pc[c] \in {"run", "closed"} \/ daemon = "killed"

Answers(c) == {i \in DOMAIN sent[c] : sent[c][i].kind \notin {"ack", "draw"}}

(* spec.md:54: "If no handshake is received, the daemon assumes NDJSON".   *)
(* Refuted by TLC: see "Where code and docs disagree" in the README.       *)
NdjsonAssumed ==
  \A c \in Conns : ~neg[c].msgpack => \A i \in Answers(c) : ~sent[c][i].msgpack

=============================================================================
