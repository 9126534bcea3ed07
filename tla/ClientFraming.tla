--------------------------- MODULE ClientFraming ---------------------------
(***************************************************************************)
(* One connection seen from its client: the bytes the daemon writes, how   *)
(* the client library cuts them into messages again (src/core/client.c)    *)
(* and the two ways it is driven: `filly send` and the C library wait in   *)
(* filly_client_get_response, `filly relay` (src/core/relay.c) turns in a  *)
(* select loop around filly_client_process with the terminal in raw mode.  *)
(*                                                                         *)
(* The stream is a sequence of tokens: the text of a line is one token, so *)
(* a read may end before, inside (between text and newline) and after a    *)
(* line; a frame has Payload(f), with a newline in it, as frames have, and *)
(* an answer in MessagePack is one token without a newline.                *)
(***************************************************************************)
EXTENDS TerminalKeys

CONSTANTS
  CLIENT_BUF_SIZE, \* tokens the client's buffer holds
  MaxFrames,       \* bound: frames the daemon draws
  MaxKeys,         \* bound: keys pressed
  Keyboard,        \* the keys there are, a subset of DOMAIN Bytes
  Streaming,       \* the values session_use_streaming may have, a subset of BOOLEAN
  MessagePack      \* those of use_msgpack; any client's handshake sets either for all

ASSUME ClientAssumption ==
  /\ CLIENT_BUF_SIZE \in Nat \ {0}
  /\ MaxFrames \in Nat
  /\ MaxKeys \in Nat
  /\ Keyboard \subseteq DOMAIN Bytes
  /\ Streaming \subseteq BOOLEAN
  /\ MessagePack \subseteq BOOLEAN

VARIABLES
  mode,      \* "send" or "relay": who drives the client
  relayed,   \* the request asks the daemon to draw over the socket
  \* the daemon's thread for this connection
  serving,   \* "request", "key", "answer" or "close": what it does next, "closed"
  out,       \* what is left to write of the message it is writing
  sent,      \* the messages it has written whole
  frames,    \* how many it has begun to draw
  plain,     \* no stream_ line and no MessagePack was written so far (history)
  keys,      \* key messages on their way to it, in order
  \* the wire and the client
  wire,      \* tokens written and not yet read
  pc,        \* where the client stands
  buf,       \* c->buf, up to buf_len
  p,         \* client_process_buffer's p, as an index of buf
  response_received,
  got,       \* what the draw callback and the caller were given
  pressed,   \* how many keys were pressed
  typed,     \* bytes the terminal has and the relay has not read
  tty,       \* the relay's terminal: "unused", "raw" or "restored"
  status     \* "running", "answered" (exit 0), "failed" (exit 1), "killed"

daemon == <<serving, out, sent, frames, plain>>
scan == <<buf, p, response_received, got>>
user == <<keys, pressed, typed>>
typing == <<pressed, typed>>
vars == <<mode, relayed, daemon, user, wire, pc, scan, tty, status>>

-----------------------------------------------------------------------------
Line(type, f) == [t |-> "line", type |-> type, f |-> f]
NL == [t |-> "nl"]
NUL == [t |-> "nul"]
Byte(f) == [t |-> "byte", f |-> f]
Packed == [t |-> "packed"]

Payload(f) == <<Byte(f), NL, Byte(f)>>
DrawLen == 3

Frame(f) == [kind |-> "draw", data |-> Payload(f)]
Response == [kind |-> "response", data |-> <<>>]

(* sock_draw: the stream_ lines if the flag is set, then header, data and  *)
(* a newline, each a write of its own.                                     *)
sock_draw(f, streaming) ==
  (IF streaming THEN <<Line("other", f), NL>> ELSE <<>>)
    \o <<Line("draw", f), NL>> \o Payload(f) \o <<NL>>

(* One line, or a MessagePack map with nothing behind it.  (The lengths in *)
(* a long one may hold a newline byte, which makes no JSON of it either.)  *)
send_response_msgpack(use_msgpack) ==
  IF use_msgpack THEN <<Packed>> ELSE <<Line("response", 0), NL>>

Init ==
  /\ mode \in {"send", "relay"}
  /\ relayed \in IF mode = "relay" THEN {TRUE} ELSE BOOLEAN
  /\ serving = "request" /\ out = <<>> /\ sent = <<>> /\ frames = 0 /\ plain = TRUE
  /\ keys = <<>> /\ pressed = 0 /\ typed = <<>>
  /\ wire = <<>>
  /\ pc = "start"
  /\ buf = <<>> /\ p = 1 /\ response_received = FALSE /\ got = <<>>
  /\ tty = "unused" /\ status = "running"

-----------------------------------------------------------------------------
(* The daemon.                                                             *)

(* A key is heard: what sock_next_event reads is what the message says.    *)
sock_next_event == keys # <<>> /\ keys' = Tail(keys)

(* session_run draws before it waits for an event.                         *)
DaemonDraws(streaming) ==
  /\ out = <<>>
  /\ frames < MaxFrames
  /\ \/ serving = "draw" /\ UNCHANGED keys
     \/ serving = "key" /\ sock_next_event
  /\ frames' = frames + 1
  /\ out' = sock_draw(frames', streaming)
  /\ plain' = (plain /\ ~streaming)
  /\ serving' = "key"
  /\ UNCHANGED <<mode, relayed, sent, typing, wire, pc, scan, tty, status>>

DaemonAnswers(use_msgpack) ==
  /\ out = <<>>
  /\ \/ serving = "answer" /\ UNCHANGED keys
     \/ serving = "key" /\ sock_next_event
  /\ out' = send_response_msgpack(use_msgpack)
  /\ plain' = (plain /\ ~use_msgpack)
  /\ serving' = "close"
  /\ UNCHANGED <<mode, relayed, sent, frames, typing, wire, pc, scan, tty, status>>

(* Any part of what is left goes out: the writes are several, and the      *)
(* kernel may split each.  The message counts as sent with its last token. *)
DaemonWrites ==
  /\ out # <<>>
  /\ \E n \in 1..Len(out) :
       /\ wire' = wire \o SubSeq(out, 1, n)
       /\ out' = SubSeq(out, n + 1, Len(out))
  /\ sent' = IF out' # <<>> THEN sent
             ELSE Append(sent, IF serving = "close" THEN Response ELSE Frame(frames))
  /\ UNCHANGED <<mode, relayed, serving, frames, plain, user, pc, scan, tty, status>>

(* The keys that nobody will hear go with the connection.                  *)
DaemonCloses ==
  /\ serving = "close" /\ out = <<>>
  /\ serving' = "closed" /\ keys' = <<>>
  /\ UNCHANGED <<mode, relayed, out, sent, frames, plain, typing, wire, pc, scan, tty, status>>

(* The daemon is stopped, or the thread gives up (send_error's line is one *)
(* the client ignores): the stream may end anywhere in a message.          *)
DaemonDies ==
  /\ serving \notin {"request", "closed"}
  /\ serving' = "closed"
  /\ out' = <<>> /\ keys' = <<>>
  /\ UNCHANGED <<mode, relayed, sent, frames, plain, typing, wire, pc, scan, tty, status>>

-----------------------------------------------------------------------------
(* The callers of the library.                                             *)

Exit(how) ==
  /\ pc' = "done"
  /\ status' = how
  /\ tty' = IF tty = "raw" THEN "restored" ELSE tty

Fail == Exit("failed")

(* relay_setup, filly_client_connect and filly_client_send_request: any of *)
(* them may fail.  The request reaches the daemon, which draws first if it *)
(* is relayed and answers by itself if it is not.                          *)
relay_setup ==
  /\ pc = "start" /\ mode = "relay" /\ tty = "unused"
  /\ \/ tty' = "raw" /\ UNCHANGED <<pc, status>>
     \/ Fail
  /\ UNCHANGED <<mode, relayed, daemon, user, wire, scan>>

filly_client_connect ==
  /\ pc = "start"
  /\ mode = "relay" => tty = "raw"
  /\ \/ /\ serving' = IF relayed THEN "draw" ELSE "answer"
        /\ pc' = "wait"
        /\ UNCHANGED <<tty, status>>
     \/ Fail /\ UNCHANGED serving
  /\ UNCHANGED <<mode, relayed, out, sent, frames, plain, user, wire, scan>>

(* A key is pressed at the relay's terminal.                               *)
Press(k) ==
  /\ pc = "wait" /\ mode = "relay"
  /\ pressed < MaxKeys
  /\ pressed' = pressed + 1
  /\ typed' = typed \o Bytes[k]
  /\ UNCHANGED <<mode, relayed, daemon, keys, wire, pc, scan, tty, status>>

(* relay_run reads a key, of which n bytes come before its timeouts.  If   *)
(* the connection was closed since select, the write raises SIGPIPE, which *)
(* nothing catches: the relay is gone, and the terminal stays as it is.    *)
relay_run(n) ==
  /\ pc = "wait" /\ mode = "relay"
  /\ n \in 1..Len(typed)
  /\ IF serving = "closed"
     THEN /\ pc' = "done" /\ status' = "killed"
          /\ UNCHANGED <<keys, typed>>
     ELSE /\ LET r == RelayKey(SubSeq(typed, 1, n))
             IN /\ keys' = Append(keys, key_message(r.key))
                /\ typed' = SubSeq(typed, r.used + 1, Len(typed))
          /\ UNCHANGED <<pc, status>>
  /\ UNCHANGED <<mode, relayed, daemon, pressed, wire, scan, tty>>

(* filly_client_send_key from a caller of the library, before it waits.    *)
filly_client_send_key ==
  /\ pc = "wait" /\ mode = "send" /\ serving # "closed"
  /\ buf = <<>> /\ got = <<>>
  /\ pressed < MaxKeys
  /\ pressed' = pressed + 1
  /\ keys' = Append(keys, key_message(Key("enter")))
  /\ UNCHANGED <<mode, relayed, daemon, typed, wire, pc, scan, tty, status>>

(* select says the socket is readable: relay_run calls                     *)
(* filly_client_process.                                                   *)
RelayPoll ==
  /\ pc = "wait" /\ mode = "relay"
  /\ wire # <<>> \/ serving = "closed"
  /\ pc' = "read"
  /\ UNCHANGED <<mode, relayed, daemon, user, wire, scan, tty, status>>

(* filly_client_process reads until there is nothing to read, and only     *)
(* then looks at the buffer; at the end of the stream it returns -1.       *)
filly_client_process ==
  /\ pc = "read"
  /\ \/ /\ wire # <<>>
        /\ Len(buf) + Len(wire) < CLIENT_BUF_SIZE
        /\ buf' = buf \o wire
        /\ wire' = <<>>
        /\ UNCHANGED <<pc, p, tty, status>>
     \/ /\ wire # <<>>
        /\ Len(buf) + Len(wire) >= CLIENT_BUF_SIZE
        /\ wire' = <<>>
        /\ Fail /\ UNCHANGED <<buf, p>>
     \/ /\ wire = <<>> /\ serving = "closed"
        /\ Fail /\ UNCHANGED <<buf, p, wire>>
     \/ /\ wire = <<>> /\ serving # "closed"
        /\ pc' = "scan" /\ p' = 1
        /\ UNCHANGED <<buf, wire, tty, status>>
  /\ UNCHANGED <<mode, relayed, daemon, user, response_received, got>>

(* Mutant of filly_client_get_response: a read of nothing is tried again.  *)
GetAsksAgain ==
  /\ pc = "wait" /\ mode = "send" /\ wire # <<>>
  /\ Len(buf) + Len(wire) < CLIENT_BUF_SIZE
  /\ buf' = buf \o wire
  /\ wire' = <<>>
  /\ pc' = "scan" /\ p' = 1
  /\ UNCHANGED <<mode, relayed, daemon, user, response_received, got, tty, status>>

(* filly_client_get_response: one read of what fits, then the buffer.      *)
filly_client_get_response ==
  /\ pc = "wait" /\ mode = "send"
  /\ LET space == CLIENT_BUF_SIZE - Len(buf) - 1
         n == IF Len(wire) < space THEN Len(wire) ELSE space
     IN \/ /\ wire # <<>> /\ space > 0
           /\ buf' = buf \o SubSeq(wire, 1, n)
           /\ wire' = SubSeq(wire, n + 1, Len(wire))
           /\ pc' = "scan" /\ p' = 1
           /\ UNCHANGED <<tty, status>>
        \/ /\ (wire # <<>> /\ space <= 0) \/ (wire = <<>> /\ serving = "closed")
           /\ Fail /\ UNCHANGED <<buf, p, wire>>
  /\ UNCHANGED <<mode, relayed, daemon, user, response_received, got>>

-----------------------------------------------------------------------------
(* client_process_buffer, a turn of its loop at a time.                    *)

Newlines == {i \in p..Len(buf) : buf[i] = NL}
nl == CHOOSE i \in Newlines : \A j \in Newlines : i <= j

(* cJSON_Parse(p), the newline replaced by a NUL: the text up to the first *)
(* NUL, a message if it is a line.                                         *)
Parsed == IF buf[p].t = "line" THEN buf[p].type ELSE "none"

Scanning == pc = "scan" /\ Newlines # {}

(* No line any more: the part that was looked at is dropped, unless it is  *)
(* all there is.                                                           *)
ScanEnd ==
  /\ pc = "scan" /\ Newlines = {}
  /\ buf' = IF p <= Len(buf) THEN SubSeq(buf, p, Len(buf)) ELSE buf
  /\ pc' = "wait" /\ p' = 1
  /\ UNCHANGED <<mode, relayed, daemon, user, wire, response_received, got, tty, status>>

Whole == Len(buf) - nl >= DrawLen + 1

(* Mutant of ScanDraw: the frame stays in the buffer.                      *)
DrawKeeps ==
  /\ Scanning /\ Parsed = "draw" /\ Whole
  /\ got' = Append(got, [kind |-> "draw", data |-> SubSeq(buf, nl + 1, nl + DrawLen)])
  /\ UNCHANGED <<mode, relayed, daemon, user, wire, pc, buf, p, response_received, tty, status>>

ScanDraw ==
  /\ Scanning /\ Parsed = "draw" /\ Whole
  /\ LET data == SubSeq(buf, nl + 1, nl + DrawLen)
         after == nl + DrawLen + 1
         next == IF buf[after] = NL THEN after + 1 ELSE after
     IN /\ got' = Append(got, [kind |-> "draw", data |-> data])
        /\ buf' = SubSeq(buf, 1, p - 1) \o SubSeq(buf, next, Len(buf))
  /\ UNCHANGED <<mode, relayed, daemon, user, wire, pc, p, response_received, tty, status>>

(* Mutant of ScanPartialDraw: the header is dropped like any other line.   *)
PartialDropsHeader ==
  /\ Scanning /\ Parsed = "draw" /\ ~Whole
  /\ buf' = SubSeq(buf, nl + 1, Len(buf))
  /\ pc' = "wait" /\ p' = 1
  /\ UNCHANGED <<mode, relayed, daemon, user, wire, response_received, got, tty, status>>

(* The frame is not all there: wait for the rest, header included.         *)
ScanPartialDraw ==
  /\ Scanning /\ Parsed = "draw" /\ ~Whole
  /\ buf' = SubSeq(buf, p, Len(buf))
  /\ pc' = "wait" /\ p' = 1
  /\ UNCHANGED <<mode, relayed, daemon, user, wire, response_received, got, tty, status>>

(* The answer ends the loop and, in both callers, the connection.          *)
ScanResponse ==
  /\ Scanning /\ Parsed = "response"
  /\ response_received' = TRUE
  /\ got' = Append(got, Response)
  /\ buf' = SubSeq(buf, 1, p - 1) \o SubSeq(buf, nl + 1, Len(buf))
  /\ Exit("answered")
  /\ UNCHANGED <<mode, relayed, daemon, user, wire, p>>

(* Any other line is passed over; if it was the last, all is dropped.      *)
ScanOther ==
  /\ Scanning /\ Parsed \notin {"draw", "response"}
  /\ IF nl = Len(buf)
       THEN buf' = <<>> /\ p' = 1 /\ pc' = "wait"
       ELSE buf' = [buf EXCEPT ![nl] = NUL] /\ p' = nl + 1 /\ UNCHANGED pc
  /\ UNCHANGED <<mode, relayed, daemon, user, wire, response_received, got, tty, status>>

Client ==
  \/ relay_setup \/ filly_client_connect \/ RelayPoll \/ filly_client_process
  \/ filly_client_get_response \/ ScanEnd \/ ScanDraw \/ ScanPartialDraw
  \/ ScanResponse \/ ScanOther

Daemon == (\E s \in Streaming : DaemonDraws(s)) \/ DaemonWrites \/ DaemonCloses

User ==
  \/ \E k \in Keyboard : Press(k)
  \/ \E n \in 1..Len(typed) : relay_run(n)
  \/ filly_client_send_key

Answers == \E m \in MessagePack : DaemonAnswers(m)

Next == Client \/ Daemon \/ Answers \/ DaemonDies \/ User

(* Both processes go on.  Nobody has to press a key, and a widget may draw *)
(* instead of answering, but it answers without keys if it is headless.    *)
Fairness ==
  /\ WF_vars(Client)
  /\ WF_vars(Daemon)
  /\ WF_vars(serving = "answer" /\ Answers)

Spec == Init /\ [][Next]_vars /\ Fairness

-----------------------------------------------------------------------------
Tokens ==
  {NL, NUL, Packed, Line("response", 0)}
    \cup UNION {{Line("draw", f), Line("other", f), Byte(f)} : f \in 1..MaxFrames}

Codes == {"char", "enter", "esc", "up", "delete", "f1", "f5"}
KeyBytes == UNION {Range(Bytes[k]) : k \in Keyboard}
KeyEvents == [code : Codes, ch : {"none"} \cup KeyBytes]

Messages == {Response} \cup {Frame(f) : f \in 1..MaxFrames}
Deliveries == [kind : {"draw", "response"}, data : Seq(Tokens)]

DaemonType ==
  /\ serving \in {"request", "draw", "key", "answer", "close", "closed"}
  /\ out \in Seq(Tokens) /\ sent \in Seq(Messages)
  /\ plain \in BOOLEAN /\ frames \in 0..MaxFrames

UserType ==
  /\ keys \in Seq(KeyEvents) /\ typed \in Seq(KeyBytes)
  /\ pressed \in 0..MaxKeys

ClientType ==
  /\ mode \in {"send", "relay"} /\ relayed \in BOOLEAN
  /\ wire \in Seq(Tokens)
  /\ pc \in {"start", "wait", "read", "scan", "done"}
  /\ buf \in Seq(Tokens) /\ Len(buf) < CLIENT_BUF_SIZE
  /\ p \in 1..Len(buf) + 1
  /\ response_received \in BOOLEAN
  /\ got \in Seq(Deliveries)
  /\ tty \in {"unused", "raw", "restored"}
  /\ status \in {"running", "answered", "failed", "killed"}

(* The client's buffer never holds more than its size, and p points into   *)
(* it or one past its end.                                                 *)
TypeOK == DaemonType /\ UserType /\ ClientType

(* The library hands over frames and the answer whole, in the order of     *)
(* their sending and none twice, however the stream is cut by reads and    *)
(* writes, whatever lines are mixed in, wherever it ends.                  *)
Position ==
  IF \E i \in 1..Len(sent) : got # <<>> /\ sent[i] = Last(got)
    THEN CHOOSE i \in 1..Len(sent) : sent[i] = Last(got) ELSE 0

Channel == INSTANCE FramedChannel WITH at <- Position
InOrder == Channel!Spec

AnswerSent == sent # <<>> /\ Last(sent) = Response

(* And as long as the daemon writes NDJSON (no other kind of line came     *)
(* with the frames and the answer is no MessagePack), it leaves none out:  *)
(* with the answer the caller has all there was, and who waits in          *)
(* filly_client_get_response for a daemon that has answered gets the       *)
(* answer, although the daemon closes the connection behind it.  The       *)
(* buffer meanwhile never holds more than its size (TypeOK).               *)
NothingLost ==
  /\ TypeOK
  /\ plain => /\ response_received => got = sent
              /\ mode = "send" /\ status = "failed" => ~AnswerSent

(* spec.md:62: "When MessagePack is negotiated, all responses from the     *)
(* daemon are encoded as MessagePack binary.  The C client library handles *)
(* transparent decoding."  Who waits for an answer that was sent does not  *)
(* fail, whatever it is encoded in.                                        *)
(* Refuted by TLC: client_process_buffer looks for lines of JSON only.     *)
AnswerDecoded == mode = "send" /\ status = "failed" => ~AnswerSent

(* spec.md:154 lists `response` as the "Final result of a widget request", *)
(* which `filly relay` prints: it does not fail once the daemon has sent   *)
(* it.                                                                     *)
(* Refuted by TLC: see "Where code and docs disagree" in the README.       *)
RelayGetsAnswer == mode = "relay" /\ status = "failed" => ~AnswerSent

(* CHANGELOG.md:288: "`relay.c` now implements the same CSI/SS3 escape     *)
(* sequence parser as `terminal.c`".  Whatever bytes the terminal holds,   *)
(* and however many of them come in time, the key the relay sends next is  *)
(* the one a widget would take from a terminal of its own.                 *)
(* Refuted by TLC: a sequence that neither table has, or that stops in its *)
(* middle, is KEY_ESC here and no event there.                             *)
HearsTheSame ==
  \A n \in 1..Len(typed) :
    LET in == SubSeq(typed, 1, n) IN key_message(RelayKey(in).key) = term_next_event(in)

(* A client whose daemon has closed the connection does not wait for more, *)
(* and one that has asked a headless widget is never left without an end;  *)
(* at the end the relay has given the terminal back, however relay_run     *)
(* returns (a relay that SIGPIPE kills does not return).                   *)
Over == pc = "done" /\ (status # "killed" => tty # "raw")

Ends ==
  /\ (serving = "closed") ~> Over
  /\ (pc = "wait" /\ ~relayed) ~> Over

-----------------------------------------------------------------------------
(* The inductive invariant behind InOrder and NothingLost.  It speaks of   *)
(* the whole stream, from the client's buffer to what the daemon has yet   *)
(* to write, and of the places where the client may find the start of a    *)
(* line: p, and whatever follows a newline.                                *)
Stream == buf \o wire \o out
Arrived == Len(buf) + Len(wire)
Start(i) == i \in p..Len(Stream) /\ (i = p \/ Stream[i - 1] = NL)
DrawAt(i, f) == Start(i) /\ Stream[i] = Line("draw", f)
ResponseAt(i) == Start(i) /\ Stream[i] = Line("response", 0)

(* What follows a header at i, as far as the stream goes.                  *)
Intact(s, i, f) ==
  /\ i + 1 <= Len(s) => s[i + 1] = NL
  /\ i + 2 <= Len(s) => s[i + 2] = Byte(f)
  /\ i + 3 <= Len(s) => s[i + 3] = NL
  /\ i + 4 <= Len(s) => s[i + 4] = Byte(f)
  /\ i + 5 <= Len(s) => s[i + 5] = NL

(* A frame that has arrived is one that was sent; one that has not is      *)
(* being written, or its daemon is gone.                                   *)
DrawInv ==
  \A i \in p..Len(Stream), f \in 1..MaxFrames : DrawAt(i, f) =>
    /\ f <= frames
    /\ Intact(Stream, i, f)
    /\ i + 5 <= Arrived => f <= Len(sent) /\ sent[f] = Frame(f)
    /\ i + 5 > Arrived /\ out # <<>> => i + 5 = Len(Stream) /\ f = frames /\ serving = "key"
    /\ i + 5 > Arrived /\ out = <<>> => serving = "closed"

(* Nothing comes after the answer.                                         *)
ResponseInv ==
  \A i \in p..Len(Stream) : ResponseAt(i) =>
    /\ serving \in {"close", "closed"}
    /\ i + 1 >= Len(Stream)
    /\ i + 1 <= Len(Stream) => Stream[i + 1] = NL
    /\ i + 1 <= Arrived => AnswerSent

(* Frames come in the order of their numbers.                              *)
OrderInv ==
  \A i, j \in p..Len(Stream), f, g \in 1..MaxFrames :
    DrawAt(i, f) /\ DrawAt(j, g) /\ i < j => f < g

SentInv ==
  /\ \A i \in 1..Len(sent) : sent[i] = Frame(i) \/ (i = Len(sent) /\ sent[i] = Response)
  /\ serving \notin {"close", "closed"} =>
       ~AnswerSent /\ frames = Len(sent) + (IF out = <<>> THEN 0 ELSE 1)
  /\ serving = "close" => IF out = <<>> THEN AnswerSent ELSE ~AnswerSent /\ frames = Len(sent)
  /\ out # <<>> => serving \in {"key", "close"}
  /\ serving = "request" => sent = <<>> /\ pc \in {"start", "done"}
  /\ pc = "start" => serving = "request"

(* What was handed over last was sent, and all that is on its way is newer.*)
GotInv ==
  got # <<>> =>
    \E g \in 1..Len(sent) :
      /\ got[Len(got)] = sent[g]
      /\ pc # "done" =>
           /\ sent[g] = Frame(g)
           /\ \A i \in p..Len(Stream), f \in 1..MaxFrames : DrawAt(i, f) => g < f

(* What was passed over holds no newline any more and will not be taken    *)
(* for a message.                                                          *)
PassedInv ==
  /\ pc \notin {"scan", "done"} => p = 1
  /\ p > 1 => /\ buf[1].t = "line" => buf[1].type = "other"
              /\ \A i \in 1..p - 1 : buf[i] # NL

FrameInv ==
  /\ SentInv /\ GotInv /\ PassedInv
  /\ pc # "done" => DrawInv /\ ResponseInv /\ OrderInv

(* Without other lines the stream is frames and the answer, end to end,    *)
(* and begins with the message that is due.                                *)
Frames == IF AnswerSent THEN Len(sent) - 1 ELSE Len(sent)
Due(i, f) == Stream[i] = Line("draw", f) \/ (Stream[i] = Line("response", 0) /\ Frames = f - 1)

PlainInv ==
  /\ p = 1
  /\ \A i \in 1..Len(got) : got[i] = Frame(i)
  /\ Stream # <<>> => Due(1, Len(got) + 1)
  /\ Stream = <<>> => Len(got) = Len(sent)
  /\ \A i \in 1..Len(Stream), f \in 1..MaxFrames : DrawAt(i, f) =>
       /\ i + 6 <= Len(Stream) => Due(i + 6, f + 1)
       /\ i + 5 = Len(Stream) => f = Len(sent) + (IF out = <<>> THEN 0 ELSE 1)
  /\ AnswerSent \/ serving = "close" =>
       /\ Len(Stream) > 1
       /\ Stream[Len(Stream) - 1] = Line("response", 0)
       /\ Stream[Len(Stream)] = NL
  /\ pc = "wait" => /\ Len(buf) < DrawLen + 3
                    /\ Len(buf) > 1 => buf[1] # Line("response", 0)

LossInv ==
  /\ status = "running" <=> pc # "done"
  /\ pc = "read" => mode = "relay"
  /\ response_received => pc = "done" /\ AnswerSent
  /\ plain /\ pc # "done" => PlainInv
  /\ plain /\ response_received => got = sent
  /\ plain /\ mode = "send" /\ status = "failed" => ~AnswerSent /\ serving \in {"request", "closed"}
=============================================================================
