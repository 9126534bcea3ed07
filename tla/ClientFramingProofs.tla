------------------------ MODULE ClientFramingProofs ------------------------
(***************************************************************************)
(* Proofs about ClientFraming: what the client library makes of the stream *)
(* (InOrder, NothingLost).  That frames stay whole is shown first          *)
(* (FrameInv), whether the answer is a line or MessagePack.  That none is  *)
(* lost, for every number of frames and keys and every buffer that can     *)
(* hold a frame, rests on it: while no line but frames and the answer, and *)
(* no MessagePack, is written, the stream begins with the message that is  *)
(* due and goes on with the ones after it, end to end (PlainInv).          *)
(***************************************************************************)
EXTENDS ClientFraming, FiniteSetTheorems, WellFoundedInduction, TLAPS

-----------------------------------------------------------------------------
(* Keys.                                                                   *)

(* A non-empty set of numbers has a least one.                             *)
LEMMA NatLeast ==
  ASSUME NEW N \in SUBSET Nat, N # {}
  PROVE  \E m \in N : \A j \in N : m <= j
  <1> DEFINE R == OpToRel(<, Nat)
  <1>1. IsWellFoundedOn(R, Nat)
    BY NatLessThanWellFounded, Zenon
  <1>2. \A x, y \in Nat : <<x, y>> \in R <=> x < y
    BY DEF OpToRel
  <1> HIDE DEF R
  <1>3. PICK m \in N : \A y \in N : ~(<<y, m>> \in R)
    BY <1>1, WFMin, Zenon
  <1>4. m \in Nat /\ \A j \in N : ~(j < m) /\ j \in Nat
    BY <1>2, <1>3
  <1> QED BY <1>4

Keys(B) == [code : Codes, ch : {"none"} \cup B]

LEMMA PlainKeys ==
  ASSUME NEW B
  PROVE  /\ Key("enter") \in Keys(B) /\ Key("esc") \in Keys(B) /\ Key("f1") \in Keys(B)
         /\ \A b \in B : Simple(b) \in Keys(B)
         /\ \A params, final : CsiKey(params, final) # Nothing =>
              /\ CsiKey(params, final) \in Keys(B)
              /\ CsiKey(params, final).ch = "none"
         /\ \A key \in Keys(B) : key_message(key) \in Keys(B)
  <1>1. /\ Key("enter") \in Keys(B) /\ Key("esc") \in Keys(B) /\ Key("f1") \in Keys(B)
        /\ \A b \in B : Simple(b) \in Keys(B)
    BY DEF Key, Keys, Codes, Simple, Char
  <1>2. ASSUME NEW params, NEW final, CsiKey(params, final) # Nothing
        PROVE  /\ CsiKey(params, final) \in Keys(B)
               /\ CsiKey(params, final).ch = "none"
    <2>1. CsiKey(params, final) \in {Key("up"), Key("delete"), Key("f5"), Nothing}
      BY DEF CsiKey, Letters, Tilde
    <2> QED BY <1>2, <2>1 DEF Key, Keys, Codes
  <1>3. ASSUME NEW key \in Keys(B)
        PROVE  key_message(key) \in Keys(B)
    BY DEF key_message, Keys
  <1> QED BY <1>1, <1>2, <1>3

(* Whatever bytes it reads, the relay sends a key and takes at least one   *)
(* byte for it.                                                            *)
LEMMA RelayKeyType ==
  ASSUME NEW B, NEW in \in Seq(B), in # <<>>
  PROVE  /\ key_message(RelayKey(in).key) \in Keys(B)
         /\ RelayKey(in).used \in 1..Len(in)
  <1> DEFINE r == RelayKey(in)
  <1>0. Len(in) \in Nat /\ Len(in) > 0 /\ in[1] \in B
    OBVIOUS
  <1>1. CASE in[1] # "ESC"
    <2>1. r = Read(Simple(in[1]), 1)
      BY <1>1 DEF RelayKey
    <2> QED BY <1>0, <2>1, PlainKeys DEF Read
  <1>2. CASE in[1] = "ESC" /\ Len(in) = 1
    <2>1. r = Read(Key("esc"), 1)
      BY <1>2 DEF RelayKey
    <2> QED BY <1>0, <2>1, PlainKeys DEF Read
  <1>3. CASE in[1] = "ESC" /\ Len(in) # 1
    <2> DEFINE c == parse_csi(in)
    <2>1. r = IF c.key = Nothing THEN Read(Key("esc"), c.used) ELSE c
      BY <1>3 DEF RelayKey
    <2>2. c.used \in 1..Len(in) /\ (c.key # Nothing => c.key \in Keys(B))
      <3>1. CASE in[2] = "[" /\ Ends3(in) # {}
        <4>1. c = Read(CsiKey(Params(in), in[End(in)]), End(in))
          BY <3>1 DEF parse_csi
        <4>2. End(in) \in Ends3(in)
          <5>1. \E i \in Ends3(in) : \A j \in Ends3(in) : i <= j
            <6>1. \E i \in 3..Len(in) : i \in Ends3(in)
              BY <3>1 DEF Ends3
            <6> DEFINE N == {n \in Nat : n \in Ends3(in)}
            <6>2. N \in SUBSET Nat /\ N # {}
              BY <6>1, <1>0
            <6>3. PICK m \in N : \A j \in N : m <= j
              BY <6>2, NatLeast
            <6> QED BY <6>3, <1>0 DEF Ends3
          <5> QED BY <5>1 DEF End
        <4>3. End(in) \in 1..Len(in)
          BY <4>2, <1>0 DEF Ends3
        <4> QED BY <4>1, <4>3, PlainKeys DEF Read
      <3>2. CASE in[2] = "[" /\ Ends3(in) = {}
        <4>1. c = Read(Nothing, Len(in))
          BY <3>2 DEF parse_csi
        <4> QED BY <4>1, <1>0 DEF Read
      <3>3. CASE in[2] # "[" /\ in[2] = "O" /\ Len(in) > 2
        <4>1. c = Read(IF in[3] \in DOMAIN AfterO THEN Key(AfterO[in[3]]) ELSE Nothing, 3)
          BY <3>3 DEF parse_csi
        <4>2. in[3] \in DOMAIN AfterO => AfterO[in[3]] = "f1"
          BY DEF AfterO
        <4> QED BY <3>3, <4>1, <4>2, <1>0, PlainKeys DEF Read
      <3>4. CASE in[2] # "[" /\ ~(in[2] = "O" /\ Len(in) > 2)
        <4>1. c = Read(Nothing, 2)
          BY <3>4 DEF parse_csi
        <4>2. c.used = 2 /\ c.key = Nothing
          BY <4>1 DEF Read
        <4>3. 2 <= Len(in)
          <5>1. Len(in) # 1
            BY <1>3
          <5>2. \A n \in Nat : n > 0 /\ n # 1 => 2 <= n
            OBVIOUS
          <5> QED BY <5>1, <5>2, <1>0, Zenon
        <4> QED BY <1>0, <4>2, <4>3
      <3> QED BY <3>1, <3>2, <3>3, <3>4
    <2>3. r.used = c.used /\ r.key \in Keys(B)
      BY <2>1, <2>2, PlainKeys DEF Read
    <2> QED BY <2>2, <2>3, PlainKeys
  <1> QED BY <1>1, <1>2, <1>3

LEMMA BytesType ==
  /\ \A k \in Keyboard : Bytes[k] \in Seq(KeyBytes)
  /\ KeyEvents = Keys(KeyBytes)
  <1>1. ASSUME NEW k \in Keyboard
        PROVE  Bytes[k] \in Seq(KeyBytes)
    <2> DEFINE All == {"a", "quote", "SYN", "CR", "ESC", "[", "A", "3", "~", "1", "5", "O", "P",
                       "semi", "M", "blank", "!", "<", "0"}
    <2>1. Bytes[k] \in Seq(All)
      <3>0. k \in {"a", "quote", "ctrl_v", "enter", "esc", "up", "delete", "f5", "f1",
                   "ctrl_up", "click", "sgr_click"}
        BY ClientAssumption DEF Bytes
      <3>1. CASE k = "a"
        BY <3>1 DEF Bytes
      <3>2. CASE k = "quote"
        BY <3>2 DEF Bytes
      <3>3. CASE k = "ctrl_v"
        BY <3>3 DEF Bytes
      <3>4. CASE k = "enter"
        BY <3>4 DEF Bytes
      <3>5. CASE k = "esc"
        BY <3>5 DEF Bytes
      <3>6. CASE k = "up"
        BY <3>6 DEF Bytes
      <3>7. CASE k = "delete"
        BY <3>7 DEF Bytes
      <3>8. CASE k = "f5"
        BY <3>8 DEF Bytes
      <3>9. CASE k = "f1"
        BY <3>9 DEF Bytes
      <3>10. CASE k = "ctrl_up"
        BY <3>10 DEF Bytes
      <3>11. CASE k = "click"
        BY <3>11 DEF Bytes
      <3>12. CASE k = "sgr_click"
        BY <3>12 DEF Bytes
      <3> QED BY <3>0, <3>1, <3>2, <3>3, <3>4, <3>5, <3>6, <3>7, <3>8, <3>9, <3>10, <3>11, <3>12
    <2> DEFINE s == Bytes[k]
    <2> HIDE DEF s
    <2>2. \A i \in 1..Len(s) : s[i] \in Range(s)
      BY <2>1 DEF Range, s
    <2>3. Range(s) \subseteq KeyBytes
      BY DEF KeyBytes, s
    <2>4. s \in Seq(KeyBytes)
      BY <2>1, <2>2, <2>3 DEF s
    <2> QED BY <2>4 DEF s
  <1>2. KeyEvents = Keys(KeyBytes)
    BY DEF Keys, KeyEvents
  <1> QED BY <1>1, <1>2

-----------------------------------------------------------------------------
(* Tokens and messages.                                                    *)

LEMMA TokenFacts ==
  /\ \A x, f : Line(x, f).t = "line" /\ Line(x, f).type = x /\ Line(x, f).f = f
  /\ \A f : Byte(f).t = "byte" /\ Byte(f).f = f
  /\ NL.t = "nl" /\ NUL.t = "nul" /\ Packed.t = "packed"
  BY DEF Line, Byte, NL, NUL, Packed

LEMMA MessageFacts ==
  /\ \A f : Frame(f) # Response /\ Frame(f).kind = "draw" /\ Frame(f).data = Payload(f)
  /\ \A f : Payload(f) = <<Byte(f), NL, Byte(f)>>
  /\ \A f, g : Frame(f) = Frame(g) => f = g
  <1>1. \A f : Frame(f) # Response /\ Frame(f).kind = "draw" /\ Frame(f).data = Payload(f)
    BY DEF Frame, Response
  <1>2. \A f : Payload(f) = <<Byte(f), NL, Byte(f)>>
    BY DEF Payload
  <1>3. \A f : Payload(f)[1] = Byte(f)
    BY <1>2
  <1> QED BY <1>1, <1>2, <1>3, TokenFacts

(* What the daemon writes for a frame and for the answer.                  *)
LEMMA ChunkType ==
  /\ \A f \in 1..MaxFrames, s \in BOOLEAN :
       sock_draw(f, s) \in Seq(Tokens) /\ sock_draw(f, s) # <<>>
  /\ \A m \in BOOLEAN :
       send_response_msgpack(m) \in Seq(Tokens) /\ send_response_msgpack(m) # <<>>
  <1>1. ASSUME NEW f \in 1..MaxFrames
        PROVE  {NL, NUL, Line("draw", f), Line("other", f), Byte(f)} \subseteq Tokens
    BY DEF Tokens
  <1>2. ASSUME NEW f \in 1..MaxFrames, NEW s \in BOOLEAN
        PROVE  sock_draw(f, s) \in Seq(Tokens) /\ sock_draw(f, s) # <<>>
    <2> DEFINE o == <<Line("other", f), NL>>
               h == <<Line("draw", f), NL>>
    <2>1. /\ o \in Seq(Tokens) /\ h \in Seq(Tokens) /\ <<NL>> \in Seq(Tokens)
          /\ Len(h) = 2
      BY <1>1
    <2>5. Payload(f) \in Seq(Tokens)
      BY <1>1 DEF Payload
    <2> HIDE DEF o, h
    <2>2. sock_draw(f, s) = (IF s THEN o ELSE <<>>) \o h \o Payload(f) \o <<NL>>
      BY DEF sock_draw, o, h
    <2>3. CASE s
      BY <2>1, <2>2, <2>3, <2>5
    <2>4. CASE ~s
      BY <2>1, <2>2, <2>4, <2>5
    <2> QED BY <2>3, <2>4
  <1>3. Line("response", 0) \in Tokens /\ NL \in Tokens /\ Packed \in Tokens
    BY DEF Tokens
  <1> QED BY <1>2, <1>3 DEF send_response_msgpack

(* The end of the line at p.                                               *)
LEMMA FirstNewline ==
  ASSUME buf \in Seq(Tokens), p \in 1..Len(buf) + 1, Newlines # {}
  PROVE  /\ nl \in p..Len(buf)
         /\ buf[nl] = NL
         /\ \A j \in p..nl - 1 : buf[j] # NL
  <1>0. Len(buf) \in Nat
    OBVIOUS
  <1>1. Newlines \in SUBSET Nat
    BY <1>0 DEF Newlines
  <1>2. \E i \in Newlines : \A j \in Newlines : i <= j
    BY <1>1, NatLeast
  <1>3. nl \in Newlines /\ \A j \in Newlines : nl <= j
    BY <1>2 DEF nl
  <1> QED BY <1>0, <1>3 DEF Newlines

-----------------------------------------------------------------------------
(* Type correctness.                                                       *)

LEMMA InitType == Init => TypeOK
  <1> SUFFICES ASSUME Init PROVE TypeOK
    OBVIOUS
  <1>1. ClientType
    <2>1. relayed \in BOOLEAN
      BY DEF Init
    <2>2. Len(buf) = 0 /\ Len(buf) < CLIENT_BUF_SIZE
      BY ClientAssumption DEF Init
    <2>3. /\ mode \in {"send", "relay"} /\ wire = <<>> /\ pc = "start"
          /\ buf = <<>> /\ p = 1 /\ response_received = FALSE /\ got = <<>>
          /\ tty = "unused" /\ status = "running"
      BY DEF Init
    <2>4. p \in 1..Len(buf) + 1
      BY <2>2, <2>3
    <2>5. wire \in Seq(Tokens) /\ buf \in Seq(Tokens) /\ got \in Seq(Deliveries)
      BY <2>3
    <2> QED BY <2>1, <2>2, <2>3, <2>4, <2>5, Zenon DEF ClientType
  <1>2. DaemonType
    BY ClientAssumption DEF Init, DaemonType
  <1>3. UserType
    BY ClientAssumption DEF Init, UserType
  <1> QED BY <1>1, <1>2, <1>3 DEF TypeOK

(* A key that is heard.                                                    *)
LEMMA HeardType ==
  ASSUME TypeOK, sock_next_event, UNCHANGED <<pressed, typed>>
  PROVE  UserType'
  <1>1. keys' \in Seq(KeyEvents)
    BY DEF TypeOK, UserType, sock_next_event
  <1> QED BY <1>1 DEF TypeOK, UserType

LEMMA DrawsType ==
  ASSUME TypeOK, NEW s \in Streaming, DaemonDraws(s)
  PROVE  TypeOK'
  <1>1. s \in BOOLEAN
    BY ClientAssumption
  <1>2. frames' \in 1..MaxFrames /\ frames' \in 0..MaxFrames
    BY ClientAssumption DEF TypeOK, DaemonType, DaemonDraws
  <1>3. out' \in Seq(Tokens)
    BY <1>1, <1>2, ChunkType DEF DaemonDraws
  <1>4. plain' \in BOOLEAN
    BY DEF DaemonDraws
  <1>5. DaemonType'
    BY <1>2, <1>3, <1>4 DEF TypeOK, DaemonType, DaemonDraws
  <1>6. UserType'
    <2>1. CASE sock_next_event /\ serving = "key"
      BY <2>1, HeardType DEF DaemonDraws, typing
    <2>2. CASE UNCHANGED keys
      BY <2>2 DEF TypeOK, UserType, DaemonDraws, typing
    <2> QED BY <2>1, <2>2 DEF DaemonDraws
  <1>7. ClientType'
    BY DEF TypeOK, ClientType, DaemonDraws, scan
  <1> QED BY <1>5, <1>6, <1>7 DEF TypeOK

LEMMA AnswersType ==
  ASSUME TypeOK, NEW m \in MessagePack, DaemonAnswers(m)
  PROVE  TypeOK'
  <1>1. DaemonType'
    <2>1. m \in BOOLEAN
      BY ClientAssumption
    <2>2. out' \in Seq(Tokens)
      BY <2>1, ChunkType DEF DaemonAnswers
    <2>3. plain' \in BOOLEAN
      BY DEF DaemonAnswers
    <2> QED BY <2>2, <2>3 DEF TypeOK, DaemonType, DaemonAnswers
  <1>2. UserType'
    <2>1. CASE sock_next_event /\ serving = "key"
      BY <2>1, HeardType DEF DaemonAnswers, typing
    <2>2. CASE UNCHANGED keys
      BY <2>2 DEF TypeOK, UserType, DaemonAnswers, typing
    <2> QED BY <2>1, <2>2 DEF DaemonAnswers
  <1>3. ClientType'
    BY DEF TypeOK, ClientType, DaemonAnswers, scan
  <1> QED BY <1>1, <1>2, <1>3 DEF TypeOK

LEMMA WritesType ==
  ASSUME TypeOK, SentInv, DaemonWrites
  PROVE  TypeOK'
  <1>0. PICK n \in 1..Len(out) :
          /\ wire' = wire \o SubSeq(out, 1, n)
          /\ out' = SubSeq(out, n + 1, Len(out))
    BY DEF DaemonWrites
  <1>1. out \in Seq(Tokens) /\ wire \in Seq(Tokens) /\ sent \in Seq(Messages)
    BY DEF TypeOK, DaemonType, ClientType
  <1>2. wire' \in Seq(Tokens) /\ out' \in Seq(Tokens)
    BY <1>0, <1>1
  <1>3. sent' \in Seq(Messages)
    <2>1. CASE serving = "close"
      <3>1. Response \in Messages
        BY DEF Messages
      <3> QED BY <1>1, <2>1, <3>1 DEF DaemonWrites
    <2>2. CASE serving # "close"
      <3>1. frames \in 1..MaxFrames
        BY <2>2, <1>1, ClientAssumption DEF DaemonWrites, SentInv, TypeOK, DaemonType
      <3>2. Frame(frames) \in Messages
        BY <3>1 DEF Messages
      <3> QED BY <1>1, <2>2, <3>2 DEF DaemonWrites
    <2> QED BY <2>1, <2>2
  <1>4. DaemonType'
    BY <1>2, <1>3 DEF TypeOK, DaemonType, DaemonWrites
  <1>5. UserType' /\ ClientType'
    BY <1>2 DEF TypeOK, UserType, ClientType, DaemonWrites, user, scan
  <1> QED BY <1>4, <1>5 DEF TypeOK

LEMMA EndsType ==
  ASSUME TypeOK, DaemonCloses \/ DaemonDies
  PROVE  TypeOK'
  <1>1. /\ serving' = "closed" /\ out' \in Seq(Tokens) /\ keys' = <<>>
        /\ UNCHANGED <<mode, relayed, sent, frames, plain, typing, wire, pc, scan, tty, status>>
    <2>1. CASE DaemonCloses
      BY <2>1 DEF DaemonCloses, TypeOK, DaemonType
    <2>2. CASE DaemonDies
      BY <2>2 DEF DaemonDies
    <2> QED BY <2>1, <2>2
  <1>2. DaemonType'
    BY <1>1 DEF TypeOK, DaemonType
  <1>3. UserType'
    BY <1>1 DEF TypeOK, UserType, typing
  <1>4. ClientType'
    BY <1>1 DEF TypeOK, ClientType, scan
  <1> QED BY <1>2, <1>3, <1>4 DEF TypeOK

LEMMA CallersType ==
  ASSUME TypeOK, relay_setup \/ filly_client_connect \/ RelayPoll
  PROVE  TypeOK'
  <1>1. CASE relay_setup
    <2>1. DaemonType' /\ UserType'
      BY <1>1 DEF TypeOK, DaemonType, UserType, relay_setup, daemon, user
    <2>2. ClientType'
      BY <1>1 DEF TypeOK, ClientType, relay_setup, Fail, Exit, scan
    <2> QED BY <2>1, <2>2 DEF TypeOK
  <1>2. CASE filly_client_connect
    <2>1. DaemonType' /\ UserType'
      BY <1>2 DEF TypeOK, DaemonType, UserType, filly_client_connect, user
    <2>2. ClientType'
      BY <1>2 DEF TypeOK, ClientType, filly_client_connect, Fail, Exit, scan
    <2> QED BY <2>1, <2>2 DEF TypeOK
  <1>3. CASE RelayPoll
    <2>1. DaemonType' /\ UserType'
      BY <1>3 DEF TypeOK, DaemonType, UserType, RelayPoll, daemon, user
    <2>2. ClientType'
      BY <1>3 DEF TypeOK, ClientType, RelayPoll, scan
    <2> QED BY <2>1, <2>2 DEF TypeOK
  <1> QED BY <1>1, <1>2, <1>3

LEMMA PressType ==
  ASSUME TypeOK, NEW k \in Keyboard, Press(k)
  PROVE  TypeOK'
  <1>1. DaemonType' /\ ClientType'
    BY DEF TypeOK, DaemonType, ClientType, Press, daemon, scan
  <1>2. typed' \in Seq(KeyBytes) /\ pressed' \in 0..MaxKeys /\ keys' \in Seq(KeyEvents)
    BY BytesType, ClientAssumption DEF TypeOK, UserType, Press
  <1> QED BY <1>1, <1>2 DEF TypeOK, UserType

LEMMA RelayRunType ==
  ASSUME TypeOK, NEW n \in 1..Len(typed), relay_run(n)
  PROVE  TypeOK'
  <1>0. typed \in Seq(KeyBytes) /\ keys \in Seq(KeyEvents)
    BY DEF TypeOK, UserType
  <1>1. DaemonType' /\ ClientType'
    BY DEF TypeOK, DaemonType, ClientType, relay_run, daemon, scan
  <1>2. CASE serving = "closed"
    BY <1>1, <1>2 DEF TypeOK, UserType, relay_run
  <1>3. CASE serving # "closed"
    <2> DEFINE in == SubSeq(typed, 1, n)
               r == RelayKey(in)
    <2>1. in \in Seq(KeyBytes) /\ Len(in) = n /\ in # <<>>
      BY <1>0
    <2> HIDE DEF in
    <2>2. key_message(r.key) \in KeyEvents /\ r.used \in 1..Len(in)
      BY <2>1, RelayKeyType, BytesType
    <2>3. /\ keys' = Append(keys, key_message(r.key))
          /\ typed' = SubSeq(typed, r.used + 1, Len(typed))
          /\ pressed' = pressed
      BY <1>3 DEF relay_run, in
    <2> HIDE DEF r
    <2>4. keys' \in Seq(KeyEvents)
      BY <1>0, <2>2, <2>3
    <2>5. typed' \in Seq(KeyBytes)
      BY <1>0, <2>1, <2>2, <2>3
    <2> QED BY <1>1, <2>3, <2>4, <2>5 DEF TypeOK, UserType
  <1> QED BY <1>2, <1>3

LEMMA SendKeyType ==
  ASSUME TypeOK, filly_client_send_key
  PROVE  TypeOK'
  <1>1. DaemonType' /\ ClientType'
    BY DEF TypeOK, DaemonType, ClientType, filly_client_send_key, daemon, scan
  <1>2. Key("enter") \in KeyEvents /\ key_message(Key("enter")) \in KeyEvents
    BY PlainKeys, BytesType
  <1>3. UserType'
    BY <1>2, ClientAssumption DEF TypeOK, UserType, filly_client_send_key
  <1> QED BY <1>1, <1>3 DEF TypeOK

LEMMA ReadsType ==
  ASSUME TypeOK, filly_client_process \/ filly_client_get_response
  PROVE  TypeOK'
  <1>0. buf \in Seq(Tokens) /\ wire \in Seq(Tokens) /\ CLIENT_BUF_SIZE \in Nat
    BY ClientAssumption DEF TypeOK, ClientType
  <1>1. CASE filly_client_process
    <2>1. DaemonType' /\ UserType'
      BY <1>1 DEF TypeOK, DaemonType, UserType, filly_client_process, daemon, user
    <2>2. buf' \in Seq(Tokens) /\ wire' \in Seq(Tokens) /\ Len(buf') < CLIENT_BUF_SIZE
      <3>1. \/ UNCHANGED buf
            \/ Len(buf) + Len(wire) < CLIENT_BUF_SIZE /\ buf' = buf \o wire
        BY <1>1 DEF filly_client_process
      <3>2. wire' = <<>>
        BY <1>1 DEF filly_client_process
      <3>3. Len(buf) < CLIENT_BUF_SIZE
        BY DEF TypeOK, ClientType
      <3>4. buf \o wire \in Seq(Tokens) /\ Len(buf \o wire) = Len(buf) + Len(wire)
        BY <1>0
      <3>5. CASE UNCHANGED buf
        BY <1>0, <3>2, <3>3, <3>5
      <3>6. CASE Len(buf) + Len(wire) < CLIENT_BUF_SIZE /\ buf' = buf \o wire
        BY <3>2, <3>4, <3>6
      <3> QED BY <3>1, <3>5, <3>6
    <2>3. p' \in 1..Len(buf') + 1
      <3>1. (p' = p \/ p' = 1) /\ (buf' = buf \/ buf' = buf \o wire)
        BY <1>1 DEF filly_client_process
      <3>2. p \in 1..Len(buf) + 1 /\ Len(buf) \in Nat /\ Len(wire) \in Nat
        BY <1>0 DEF TypeOK, ClientType
      <3>3. Len(buf \o wire) = Len(buf) + Len(wire)
        BY <1>0
      <3> QED BY <3>1, <3>2, <3>3
    <2>4. ClientType'
      BY <1>1, <2>2, <2>3 DEF TypeOK, ClientType, filly_client_process, Fail, Exit
    <2> QED BY <2>1, <2>4 DEF TypeOK
  <1>2. CASE filly_client_get_response
    <2>1. DaemonType' /\ UserType'
      BY <1>2 DEF TypeOK, DaemonType, UserType, filly_client_get_response, daemon, user
    <2>2. /\ buf' \in Seq(Tokens) /\ wire' \in Seq(Tokens) /\ Len(buf') < CLIENT_BUF_SIZE
          /\ p' \in 1..Len(buf') + 1
      <3> DEFINE space == CLIENT_BUF_SIZE - Len(buf) - 1
                 n == IF Len(wire) < space THEN Len(wire) ELSE space
      <3>1. CASE /\ wire # <<>> /\ space > 0
                 /\ buf' = buf \o SubSeq(wire, 1, n)
                 /\ wire' = SubSeq(wire, n + 1, Len(wire))
                 /\ p' = 1
        <4>1. space \in Nat /\ n \in 1..Len(wire) /\ Len(buf) + n < CLIENT_BUF_SIZE
          BY <1>0, <3>1
        <4> HIDE DEF n, space
        <4>2. SubSeq(wire, 1, n) \in Seq(Tokens) /\ Len(SubSeq(wire, 1, n)) = n
          BY <1>0, <4>1
        <4>3. wire' \in Seq(Tokens)
          BY <1>0, <3>1, <4>1
        <4> QED BY <1>0, <3>1, <4>1, <4>2, <4>3
      <3>2. CASE UNCHANGED <<buf, p, wire>>
        BY <3>2 DEF TypeOK, ClientType
      <3> QED BY <1>2, <3>1, <3>2 DEF filly_client_get_response
    <2>3. ClientType'
      BY <1>2, <2>2 DEF TypeOK, ClientType, filly_client_get_response, Fail, Exit
    <2> QED BY <2>1, <2>3 DEF TypeOK
  <1> QED BY <1>1, <1>2

(* Two sequences end to end.                                               *)
LEMMA Concat ==
  ASSUME NEW S, NEW a \in Seq(S), NEW b \in Seq(S)
  PROVE  /\ a \o b \in Seq(S) /\ Len(a \o b) = Len(a) + Len(b)
         /\ \A k \in 1..Len(a) : (a \o b)[k] = a[k]
         /\ \A k \in Len(a) + 1..Len(a) + Len(b) : (a \o b)[k] = b[k - Len(a)]
  OBVIOUS

(* One token replaced.                                                     *)
LEMMA Replaced ==
  ASSUME NEW S, NEW s \in Seq(S), NEW i \in 1..Len(s), NEW x \in S
  PROVE  /\ [s EXCEPT ![i] = x] \in Seq(S)
         /\ Len([s EXCEPT ![i] = x]) = Len(s)
         /\ \A k \in 1..Len(s) : [s EXCEPT ![i] = x][k] = IF k = i THEN x ELSE s[k]
  OBVIOUS

(* Cutting the beginning off a sequence, or a piece out of it.             *)
LEMMA CutFront ==
  ASSUME NEW S, NEW s \in Seq(S), NEW j \in 1..Len(s) + 1
  PROVE  /\ SubSeq(s, j, Len(s)) \in Seq(S)
         /\ Len(SubSeq(s, j, Len(s))) = Len(s) - (j - 1)
         /\ \A k \in 1..Len(s) - (j - 1) : SubSeq(s, j, Len(s))[k] = s[k + (j - 1)]
  <1>0. Len(s) \in Nat
    OBVIOUS
  <1>1. SubSeq(s, j, Len(s)) \in Seq(S) /\ Len(SubSeq(s, j, Len(s))) = Len(s) - (j - 1)
    BY <1>0
  <1>2. ASSUME NEW k \in 1..Len(s) - (j - 1)
        PROVE  SubSeq(s, j, Len(s))[k] = s[k + (j - 1)]
    <2>1. SubSeq(s, j, Len(s))[k] = s[j + k - 1] /\ j + k - 1 = k + (j - 1)
      BY <1>0, <1>1
    <2> QED BY <2>1
  <1> QED BY <1>1, <1>2

LEMMA CutOut ==
  ASSUME NEW S, NEW s \in Seq(S), NEW i \in 1..Len(s) + 1, NEW j \in i..Len(s) + 1
  PROVE  /\ SubSeq(s, 1, i - 1) \o SubSeq(s, j, Len(s)) \in Seq(S)
         /\ Len(SubSeq(s, 1, i - 1) \o SubSeq(s, j, Len(s))) = Len(s) - (j - i)
         /\ \A k \in 1..i - 1 : (SubSeq(s, 1, i - 1) \o SubSeq(s, j, Len(s)))[k] = s[k]
         /\ \A k \in i..Len(s) - (j - i) :
              (SubSeq(s, 1, i - 1) \o SubSeq(s, j, Len(s)))[k] = s[k + (j - i)]
  <1> DEFINE a == SubSeq(s, 1, i - 1)
             b == SubSeq(s, j, Len(s))
  <1>0. Len(s) \in Nat
    OBVIOUS
  <1>1. a \in Seq(S) /\ Len(a) = i - 1 /\ \A k \in 1..i - 1 : a[k] = s[k]
    BY <1>0
  <1>2. /\ b \in Seq(S) /\ Len(b) = Len(s) - (j - 1)
        /\ \A k \in 1..Len(s) - (j - 1) : b[k] = s[k + (j - 1)]
    <2>1. j \in 1..Len(s) + 1
      BY <1>0
    <2> QED BY <2>1, CutFront
  <1> HIDE DEF a, b
  <1>3. /\ a \o b \in Seq(S) /\ Len(a \o b) = Len(a) + Len(b)
        /\ \A k \in 1..Len(a) : (a \o b)[k] = a[k]
        /\ \A k \in Len(a) + 1..Len(a) + Len(b) : (a \o b)[k] = b[k - Len(a)]
    BY <1>1, <1>2, Concat
  <1>4. ASSUME NEW k \in i..Len(s) - (j - i)
        PROVE  (a \o b)[k] = s[k + (j - i)]
    <2>1. k \in Len(a) + 1..Len(a) + Len(b) /\ k - Len(a) \in 1..Len(s) - (j - 1)
      BY <1>0, <1>1, <1>2
    <2>2. (a \o b)[k] = b[k - Len(a)] /\ b[k - Len(a)] = s[(k - Len(a)) + (j - 1)]
      BY <2>1, <1>2, <1>3
    <2>3. (k - Len(a)) + (j - 1) = k + (j - i)
      BY <1>0, <1>1
    <2> QED BY <2>2, <2>3
  <1>5. Len(a \o b) = Len(s) - (j - i)
    <2>1. (i - 1) + (Len(s) - (j - 1)) = Len(s) - (j - i)
      BY <1>0
    <2> QED BY <1>1, <1>2, <1>3, <2>1
  <1>6. \A k \in 1..i - 1 : (a \o b)[k] = s[k]
    BY <1>1, <1>3
  <1> QED BY <1>3, <1>4, <1>5, <1>6 DEF a, b

(* A scan step only moves p and takes tokens out of the buffer.            *)
ScanStep ==
  /\ buf' \in Seq(Tokens) /\ Len(buf') <= Len(buf)
  /\ p' \in 1..Len(buf') + 1
  /\ got' \in Seq(Deliveries)
  /\ response_received' \in BOOLEAN
  /\ pc' \in {"wait", "scan", "done"} /\ status' \in {status, "answered"}
  /\ tty' \in {tty, "restored"}
  /\ UNCHANGED <<mode, relayed, daemon, user, wire>>

LEMMA ScanStepType ==
  ASSUME TypeOK, ScanStep
  PROVE  TypeOK'
  <1>1. DaemonType' /\ UserType'
    BY DEF TypeOK, DaemonType, UserType, ScanStep, daemon, user
  <1>2. Len(buf') < CLIENT_BUF_SIZE
    <2>1. buf \in Seq(Tokens) /\ buf' \in Seq(Tokens) /\ CLIENT_BUF_SIZE \in Nat
      BY ClientAssumption DEF TypeOK, ClientType, ScanStep
    <2>2. Len(buf) \in Nat /\ Len(buf') \in Nat
      BY <2>1
    <2>3. Len(buf) < CLIENT_BUF_SIZE /\ Len(buf') <= Len(buf)
      BY DEF TypeOK, ClientType, ScanStep
    <2> QED BY <2>1, <2>2, <2>3
  <1>3. ClientType'
    BY <1>2 DEF TypeOK, ClientType, ScanStep
  <1> QED BY <1>1, <1>3 DEF TypeOK

LEMMA ScanSteps ==
  ASSUME TypeOK, ScanEnd \/ ScanDraw \/ ScanPartialDraw \/ ScanResponse \/ ScanOther
  PROVE  ScanStep
  <1>0. /\ buf \in Seq(Tokens) /\ p \in 1..Len(buf) + 1 /\ got \in Seq(Deliveries)
        /\ response_received \in BOOLEAN /\ Len(buf) \in Nat
    BY DEF TypeOK, ClientType
  <1>1. CASE ScanEnd
    <2>1. buf' \in Seq(Tokens) /\ Len(buf') <= Len(buf) /\ p' \in 1..Len(buf') + 1
      <3>1. CASE p <= Len(buf)
        <4>1. buf' = SubSeq(buf, p, Len(buf)) /\ p' = 1
          BY <1>1, <3>1 DEF ScanEnd
        <4> QED BY <1>0, <4>1, CutFront
      <3>2. CASE ~(p <= Len(buf))
        BY <1>0, <1>1, <3>2 DEF ScanEnd
      <3> QED BY <3>1, <3>2
    <2> QED BY <1>0, <1>1, <2>1 DEF ScanEnd, ScanStep
  <1>2. CASE ScanDraw
    <2>1. nl \in p..Len(buf) /\ Len(buf) - nl >= DrawLen + 1
      BY <1>0, <1>2, FirstNewline DEF ScanDraw, Scanning, Whole
    <2> DEFINE data == SubSeq(buf, nl + 1, nl + DrawLen)
               after == nl + DrawLen + 1
               next == IF buf[after] = NL THEN after + 1 ELSE after
    <2>2. /\ got' = Append(got, [kind |-> "draw", data |-> data])
          /\ buf' = SubSeq(buf, 1, p - 1) \o SubSeq(buf, next, Len(buf))
          /\ p' = p
      BY <1>2 DEF ScanDraw
    <2>3. next \in p..Len(buf) + 1
      BY <1>0, <2>1 DEF DrawLen
    <2>4. data \in Seq(Tokens)
      BY <1>0, <2>1 DEF DrawLen
    <2> HIDE DEF next, data
    <2>5. got' \in Seq(Deliveries)
      BY <1>0, <2>2, <2>4 DEF Deliveries
    <2>6. buf' \in Seq(Tokens) /\ Len(buf') = Len(buf) - (next - p)
      BY <1>0, <2>2, <2>3, CutOut
    <2>7. Len(buf') <= Len(buf) /\ p' \in 1..Len(buf') + 1
      <3>1. \A b, n, q \in Nat :
              q \in 1..b + 1 /\ n \in q..b + 1 =>
                b - (n - q) <= b /\ q \in 1..(b - (n - q)) + 1
        OBVIOUS
      <3>2. next \in Nat
        BY <1>0, <2>3
      <3>3. Len(buf) - (next - p) <= Len(buf) /\ p \in 1..(Len(buf) - (next - p)) + 1
        BY <1>0, <2>3, <3>1, <3>2
      <3>4. p' = p
        BY <2>2
      <3> QED BY <2>6, <3>3, <3>4
    <2> QED BY <1>0, <1>2, <2>5, <2>6, <2>7 DEF ScanDraw, ScanStep, Scanning
  <1>3. CASE ScanPartialDraw
    <2>1. buf' = SubSeq(buf, p, Len(buf)) /\ p' = 1
      BY <1>3 DEF ScanPartialDraw
    <2>2. buf' \in Seq(Tokens) /\ Len(buf') = Len(buf) - (p - 1)
      BY <1>0, <2>1, CutFront
    <2>3. Len(buf') <= Len(buf) /\ p' \in 1..Len(buf') + 1
      BY <1>0, <2>1, <2>2
    <2> QED BY <1>0, <1>3, <2>2, <2>3 DEF ScanPartialDraw, ScanStep
  <1>4. CASE ScanResponse
    <2>1. nl \in p..Len(buf)
      BY <1>0, <1>4, FirstNewline DEF ScanResponse, Scanning
    <2>2. /\ buf' = SubSeq(buf, 1, p - 1) \o SubSeq(buf, nl + 1, Len(buf))
          /\ p' = p /\ got' = Append(got, Response)
      BY <1>4 DEF ScanResponse
    <2>3. nl + 1 \in p..Len(buf) + 1
      BY <1>0, <2>1
    <2>4. buf' \in Seq(Tokens) /\ Len(buf') = Len(buf) - ((nl + 1) - p)
      BY <1>0, <2>2, <2>3, CutOut
    <2>5. Len(buf') <= Len(buf) /\ p' \in 1..Len(buf') + 1
      <3>1. \A b, n, q \in Nat :
              q \in 1..b + 1 /\ n \in q..b + 1 =>
                b - (n - q) <= b /\ q \in 1..(b - (n - q)) + 1
        OBVIOUS
      <3>2. nl + 1 \in Nat
        BY <1>0, <2>1
      <3>3. /\ Len(buf) - ((nl + 1) - p) <= Len(buf)
            /\ p \in 1..(Len(buf) - ((nl + 1) - p)) + 1
        BY <1>0, <2>3, <3>1, <3>2
      <3>4. p' = p
        BY <2>2
      <3> QED BY <2>4, <3>3, <3>4
    <2>6. Response \in Deliveries
      BY DEF Response, Deliveries
    <2>7. got' \in Seq(Deliveries)
      BY <1>0, <2>2, <2>6
    <2> QED BY <1>4, <2>4, <2>5, <2>7 DEF ScanResponse, Exit, ScanStep
  <1>5. CASE ScanOther
    <2>1. nl \in p..Len(buf)
      BY <1>0, <1>5, FirstNewline DEF ScanOther, Scanning
    <2>2. NUL \in Tokens
      BY DEF Tokens
    <2>3. buf' \in Seq(Tokens) /\ Len(buf') <= Len(buf) /\ p' \in 1..Len(buf') + 1
      <3>1. CASE nl = Len(buf)
        <4>1. buf' = <<>> /\ p' = 1
          BY <1>5, <3>1 DEF ScanOther
        <4> QED BY <1>0, <4>1
      <3>2. CASE nl # Len(buf)
        <4>1. buf' = [buf EXCEPT ![nl] = NUL] /\ p' = nl + 1
          BY <1>5, <3>2 DEF ScanOther
        <4>2. buf' \in Seq(Tokens) /\ Len(buf') = Len(buf)
          BY <1>0, <2>1, <2>2, <4>1, Replaced
        <4>3. nl + 1 \in 1..Len(buf) + 1 /\ Len(buf) <= Len(buf)
          BY <1>0, <2>1
        <4> QED BY <4>1, <4>2, <4>3
      <3> QED BY <3>1, <3>2
    <2> QED BY <1>0, <1>5, <2>3 DEF ScanOther, ScanStep, Scanning
  <1> QED BY <1>1, <1>2, <1>3, <1>4, <1>5

LEMMA NextType ==
  ASSUME TypeOK, SentInv, [Next]_vars
  PROVE  TypeOK'
  <1>1. CASE UNCHANGED vars
    BY <1>1 DEF vars, daemon, user, scan, TypeOK, DaemonType, UserType, ClientType
  <1>2. CASE Client
    BY <1>2, CallersType, ReadsType, ScanSteps, ScanStepType DEF Client
  <1>3. CASE Daemon \/ Answers \/ DaemonDies
    BY <1>3, DrawsType, AnswersType, WritesType, EndsType DEF Daemon, Answers
  <1>4. CASE User
    BY <1>4, PressType, RelayRunType, SendKeyType DEF User
  <1> QED BY <1>1, <1>2, <1>3, <1>4 DEF Next

-----------------------------------------------------------------------------
(* What was sent: the frames in order, then perhaps the answer.            *)

LEMMA InitSent == Init => SentInv
  BY DEF Init, SentInv, AnswerSent

(* Appending to a sequence.                                                *)
LEMMA Appended ==
  ASSUME NEW S, NEW s \in Seq(S), NEW x \in S
  PROVE  /\ Append(s, x) \in Seq(S) /\ Len(Append(s, x)) = Len(s) + 1
         /\ Append(s, x)[Len(s) + 1] = x /\ Last(Append(s, x)) = x
         /\ \A i \in 1..Len(s) : Append(s, x)[i] = s[i]
         /\ Append(s, x) # <<>>
  BY DEF Last

LEMMA SentQuiet ==
  ASSUME SentInv, UNCHANGED <<serving, out, sent, frames>>,
         pc' = pc \/ pc' = "done" \/ {pc, pc'} \subseteq {"wait", "read", "scan"}
  PROVE  SentInv'
  <1>1. AnswerSent' <=> AnswerSent
    BY DEF AnswerSent
  <1>2. /\ serving = "request" => pc' \in {"start", "done"}
        /\ pc' = "start" => serving = "request"
    BY DEF SentInv
  <1> QED BY <1>1, <1>2 DEF SentInv

LEMMA ConnectSent ==
  ASSUME TypeOK, SentInv, filly_client_connect
  PROVE  SentInv'
  <1>1. /\ serving = "request" /\ out = <<>> /\ sent = <<>>
        /\ frames = 0 /\ ~AnswerSent /\ Len(sent) = 0
    BY DEF filly_client_connect, SentInv, TypeOK, DaemonType, AnswerSent
  <1>2. UNCHANGED <<out, sent, frames>>
    BY DEF filly_client_connect
  <1>3. CASE serving' \in {"draw", "answer"} /\ pc' = "wait"
    BY <1>1, <1>2, <1>3 DEF SentInv, AnswerSent
  <1>4. CASE UNCHANGED serving /\ pc' = "done"
    BY <1>2, <1>4, SentQuiet
  <1> QED BY <1>3, <1>4 DEF filly_client_connect, Fail, Exit

LEMMA DrawsSent ==
  ASSUME TypeOK, SentInv, NEW s \in Streaming, DaemonDraws(s)
  PROVE  SentInv'
  <1>1. /\ serving \in {"draw", "key"} /\ out = <<>> /\ frames' = frames + 1
        /\ serving' = "key" /\ UNCHANGED <<sent, pc>>
        /\ out' = sock_draw(frames', s)
    BY DEF DaemonDraws
  <1>2. frames' \in 1..MaxFrames /\ s \in BOOLEAN
    BY ClientAssumption DEF DaemonDraws, TypeOK, DaemonType
  <1>3. out' # <<>>
    BY <1>1, <1>2, ChunkType
  <1>4. ~AnswerSent /\ frames = Len(sent) /\ pc # "start"
    BY <1>1 DEF SentInv, TypeOK, DaemonType
  <1> QED BY <1>1, <1>3, <1>4 DEF SentInv, AnswerSent, TypeOK, DaemonType

LEMMA AnswersSent ==
  ASSUME TypeOK, SentInv, NEW m \in MessagePack, DaemonAnswers(m)
  PROVE  SentInv'
  <1>1. /\ serving \in {"answer", "key"} /\ out = <<>> /\ out' # <<>>
        /\ serving' = "close" /\ UNCHANGED <<sent, pc, frames>>
    BY ChunkType, ClientAssumption DEF DaemonAnswers
  <1>2. ~AnswerSent /\ frames = Len(sent) /\ pc # "start"
    BY <1>1 DEF SentInv, TypeOK, DaemonType
  <1> QED BY <1>1, <1>2 DEF SentInv, AnswerSent

LEMMA WritesSent ==
  ASSUME TypeOK, SentInv, DaemonWrites
  PROVE  SentInv'
  <1>0. sent \in Seq(Messages) /\ Len(sent) \in Nat /\ frames \in Nat
    BY DEF TypeOK, DaemonType
  <1>1. /\ out # <<>> /\ serving \in {"key", "close"} /\ ~AnswerSent
        /\ UNCHANGED <<serving, frames, pc>> /\ pc # "start"
        /\ frames = IF serving = "close" THEN Len(sent) ELSE Len(sent) + 1
    BY <1>0 DEF DaemonWrites, SentInv
  <1>2. \A i \in 1..Len(sent) : sent[i] = Frame(i)
    BY <1>0, <1>1 DEF SentInv, AnswerSent, Last
  <1>3. CASE out' # <<>>
    <2>1. sent' = sent
      BY <1>3 DEF DaemonWrites
    <2> QED BY <1>1, <1>3, <2>1 DEF SentInv, AnswerSent
  <1>4. CASE out' = <<>>
    <2> DEFINE m == IF serving = "close" THEN Response ELSE Frame(frames)
    <2>1. sent' = Append(sent, m)
      BY <1>4 DEF DaemonWrites
    <2>2. m \in Messages
      <3>1. frames \in 0..MaxFrames /\ (serving = "key" => frames \in 1..MaxFrames)
        BY <1>0, <1>1, ClientAssumption DEF TypeOK, DaemonType
      <3> QED BY <1>1, <3>1 DEF Messages
    <2> HIDE DEF m
    <2>3. /\ Len(sent') = Len(sent) + 1 /\ sent'[Len(sent) + 1] = m /\ Last(sent') = m
          /\ \A i \in 1..Len(sent) : sent'[i] = sent[i]
          /\ sent' # <<>>
      BY <1>0, <2>1, <2>2, Appended
    <2>4. CASE serving = "close"
      <3>1. m = Response
        BY <2>4 DEF m
      <3>2. AnswerSent'
        BY <2>3, <3>1 DEF AnswerSent
      <3>3. \A i \in 1..Len(sent') : sent'[i] = Frame(i) \/ (i = Len(sent') /\ sent'[i] = Response)
        BY <1>0, <1>2, <2>3, <3>1
      <3> QED BY <1>1, <1>4, <2>4, <3>2, <3>3 DEF SentInv
    <2>5. CASE serving = "key"
      <3>1. m = Frame(Len(sent) + 1) /\ m # Response
        BY <1>1, <2>5, MessageFacts DEF m
      <3>2. ~AnswerSent'
        BY <2>3, <3>1 DEF AnswerSent
      <3>3. \A i \in 1..Len(sent') : sent'[i] = Frame(i)
        BY <1>0, <1>2, <2>3, <3>1
      <3>4. frames' = Len(sent')
        BY <1>0, <1>1, <2>3, <2>5
      <3> QED BY <1>1, <1>0, <1>4, <2>3, <2>5, <3>2, <3>3, <3>4 DEF SentInv
    <2> QED BY <1>1, <2>4, <2>5
  <1> QED BY <1>3, <1>4

LEMMA EndsSent ==
  ASSUME TypeOK, SentInv, DaemonCloses \/ DaemonDies
  PROVE  SentInv'
  <1>1. /\ serving' = "closed" /\ out' = <<>> /\ serving # "request" /\ UNCHANGED <<sent, frames, pc>>
    BY DEF DaemonCloses, DaemonDies
  <1>2. pc # "start"
    BY <1>1 DEF SentInv
  <1> QED BY <1>1, <1>2 DEF SentInv, AnswerSent

LEMMA NextSent ==
  ASSUME TypeOK, SentInv, [Next]_vars
  PROVE  SentInv'
  <1>1. CASE UNCHANGED vars
    BY <1>1, SentQuiet DEF vars, daemon
  <1>2. CASE Client
    <2>1. CASE filly_client_connect
      BY <2>1, ConnectSent
    <2>2. CASE ScanEnd \/ ScanDraw \/ ScanPartialDraw \/ ScanResponse \/ ScanOther
      <3>1. pc = "scan"
        BY <2>2 DEF ScanEnd, ScanDraw, ScanPartialDraw, ScanResponse, ScanOther, Scanning
      <3> QED BY <2>2, <3>1, ScanSteps, SentQuiet DEF ScanStep, daemon
    <2>3. CASE relay_setup
      BY <2>3, SentQuiet DEF relay_setup, daemon, Fail, Exit
    <2>4. CASE RelayPoll
      BY <2>4, SentQuiet DEF RelayPoll, daemon
    <2>5. CASE filly_client_process
      BY <2>5, SentQuiet DEF filly_client_process, daemon, Fail, Exit
    <2>6. CASE filly_client_get_response
      BY <2>6, SentQuiet DEF filly_client_get_response, daemon, Fail, Exit
    <2> QED BY <1>2, <2>1, <2>2, <2>3, <2>4, <2>5, <2>6 DEF Client
  <1>3. CASE Daemon \/ Answers \/ DaemonDies
    BY <1>3, DrawsSent, AnswersSent, WritesSent, EndsSent DEF Daemon, Answers
  <1>4. CASE User
    BY <1>4, SentQuiet DEF User, Press, relay_run, filly_client_send_key, daemon
  <1> QED BY <1>1, <1>2, <1>3, <1>4 DEF Next

-----------------------------------------------------------------------------
LEMMA Typed == Spec => [](TypeOK /\ SentInv)
  <1> DEFINE Inv == TypeOK /\ SentInv
  <1>1. Init => Inv
    BY InitType, InitSent
  <1>2. Inv /\ [Next]_vars => Inv'
    BY NextType, NextSent
  <1> QED BY <1>1, <1>2, PTL DEF Spec

(* Type correctness: the client's buffer never overflows, p stays in it,   *)
(* and every message of the daemon and every key has its form.             *)
THEOREM TypeCorrect == Spec => []TypeOK
  BY Typed, PTL

-----------------------------------------------------------------------------
(* The stream.                                                             *)

LEMMA ThreeParts ==
  ASSUME NEW S, NEW a \in Seq(S), NEW b \in Seq(S), NEW c \in Seq(S)
  PROVE  /\ a \o b \o c \in Seq(S)
         /\ Len(a) \in Nat /\ Len(b) \in Nat /\ Len(c) \in Nat
         /\ Len(a \o b \o c) = Len(a) + Len(b) + Len(c)
         /\ \A i \in 1..Len(a) : (a \o b \o c)[i] = a[i]
         /\ \A i \in Len(a) + 1..Len(a) + Len(b) : (a \o b \o c)[i] = b[i - Len(a)]
         /\ \A i \in Len(a) + Len(b) + 1..Len(a) + Len(b) + Len(c) :
              (a \o b \o c)[i] = c[i - (Len(a) + Len(b))]
  <1>0. Len(a) \in Nat /\ Len(b) \in Nat /\ Len(c) \in Nat
    OBVIOUS
  <1> DEFINE ab == a \o b
  <1>1. /\ ab \in Seq(S) /\ Len(ab) = Len(a) + Len(b)
        /\ \A k \in 1..Len(a) : ab[k] = a[k]
        /\ \A k \in Len(a) + 1..Len(a) + Len(b) : ab[k] = b[k - Len(a)]
    BY Concat
  <1> HIDE DEF ab
  <1>2. /\ ab \o c \in Seq(S) /\ Len(ab \o c) = Len(ab) + Len(c)
        /\ \A k \in 1..Len(ab) : (ab \o c)[k] = ab[k]
        /\ \A k \in Len(ab) + 1..Len(ab) + Len(c) : (ab \o c)[k] = c[k - Len(ab)]
    <2>1. ab \in Seq(S)
      BY <1>1
    <2> QED BY <2>1, Concat
  <1>3. /\ \A i \in 1..Len(a) : (ab \o c)[i] = a[i]
        /\ \A i \in Len(a) + 1..Len(a) + Len(b) : (ab \o c)[i] = b[i - Len(a)]
    BY <1>0, <1>1, <1>2
  <1> QED BY <1>0, <1>1, <1>2, <1>3 DEF ab

StreamShape ==
  /\ Stream \in Seq(Tokens)
  /\ Len(buf) \in Nat /\ Len(wire) \in Nat /\ Len(out) \in Nat
  /\ Arrived \in Nat /\ Arrived = Len(buf) + Len(wire)
  /\ Len(Stream) \in Nat /\ Len(Stream) = Arrived + Len(out)
  /\ \A i \in 1..Len(buf) : Stream[i] = buf[i]
  /\ \A i \in Len(buf) + 1..Arrived : Stream[i] = wire[i - Len(buf)]
  /\ \A i \in Arrived + 1..Len(Stream) : Stream[i] = out[i - Arrived]
  /\ (out = <<>> <=> Len(out) = 0)
  /\ (wire = <<>> <=> Len(wire) = 0)
  /\ (buf = <<>> <=> Len(buf) = 0)
  /\ p \in 1..Len(buf) + 1
  /\ p \in Nat /\ p > 0

LEMMA StreamFacts == TypeOK => StreamShape
  <1> SUFFICES ASSUME TypeOK PROVE StreamShape
    OBVIOUS
  <1>1. buf \in Seq(Tokens) /\ wire \in Seq(Tokens) /\ out \in Seq(Tokens) /\ p \in 1..Len(buf) + 1
    BY DEF TypeOK, DaemonType, ClientType
  <1>2. /\ Stream \in Seq(Tokens)
        /\ Len(buf) \in Nat /\ Len(wire) \in Nat /\ Len(out) \in Nat
        /\ Len(Stream) = Len(buf) + Len(wire) + Len(out)
        /\ \A i \in 1..Len(buf) : Stream[i] = buf[i]
        /\ \A i \in Len(buf) + 1..Len(buf) + Len(wire) : Stream[i] = wire[i - Len(buf)]
        /\ \A i \in Len(buf) + Len(wire) + 1..Len(buf) + Len(wire) + Len(out) :
             Stream[i] = out[i - (Len(buf) + Len(wire))]
    BY <1>1, ThreeParts DEF Stream
  <1>3. /\ (out = <<>> <=> Len(out) = 0)
        /\ (wire = <<>> <=> Len(wire) = 0)
        /\ (buf = <<>> <=> Len(buf) = 0)
    BY <1>1
  <1>4. p \in Nat /\ p > 0
    BY <1>1, <1>2
  <1> QED BY <1>1, <1>2, <1>3, <1>4 DEF Arrived, StreamShape

LEMMA NextStreamFacts == TypeOK' => StreamShape'
  BY StreamFacts, PTL

(* If what is ahead of the client is what was ahead of it without the      *)
(* first d tokens, the frames in it stay what they are.                    *)
Shifted(d) ==
  /\ Len(Stream') = Len(Stream) - d /\ Arrived' = Arrived - d
  /\ \A i \in p'..Len(Stream') : Stream'[i] = Stream[i + d]
  /\ \A i \in p'..Len(Stream'), f \in 1..MaxFrames : DrawAt(i, f)' => DrawAt(i + d, f)
  /\ \A i \in p'..Len(Stream') : ResponseAt(i)' => ResponseAt(i + d)
  /\ UNCHANGED <<out, sent, frames>>
  /\ \/ serving' = serving
     \/ serving = "request"
     \/ serving = "close" /\ serving' = "closed"

LEMMA ShiftDraw ==
  ASSUME TypeOK, TypeOK', NEW d \in Nat, Shifted(d), DrawInv
  PROVE  DrawInv'
  <1> SUFFICES ASSUME NEW i \in p'..Len(Stream'), NEW f \in 1..MaxFrames, DrawAt(i, f)'
               PROVE  /\ f <= frames'
                      /\ Intact(Stream', i, f)
                      /\ i + 5 <= Arrived' => f <= Len(sent') /\ sent'[f] = Frame(f)
                      /\ i + 5 > Arrived' /\ out' # <<>> =>
                           i + 5 = Len(Stream') /\ f = frames' /\ serving' = "key"
                      /\ i + 5 > Arrived' /\ out' = <<>> => serving' = "closed"
    BY DEF DrawInv
  <1>0. /\ Len(Stream) \in Nat /\ Len(Stream') \in Nat /\ Arrived \in Nat /\ Arrived' \in Nat
        /\ p \in Nat /\ p' \in Nat /\ p' > 0
    BY StreamFacts, NextStreamFacts DEF StreamShape
  <1>1. DrawAt(i + d, f) /\ i + d \in p..Len(Stream)
    BY DEF Shifted, DrawAt, Start
  <1>2. /\ f <= frames
        /\ Intact(Stream, i + d, f)
        /\ (i + d) + 5 <= Arrived => f <= Len(sent) /\ sent[f] = Frame(f)
        /\ (i + d) + 5 > Arrived /\ out # <<>> =>
             (i + d) + 5 = Len(Stream) /\ f = frames /\ serving = "key"
        /\ (i + d) + 5 > Arrived /\ out = <<>> => serving = "closed"
    BY <1>1 DEF DrawInv
  <1>3. Len(Stream') = Len(Stream) - d /\ Arrived' = Arrived - d
    BY DEF Shifted
  <1>4. Intact(Stream', i, f)
    <2>1. ASSUME NEW j \in 1..5, i + j <= Len(Stream')
          PROVE  Stream'[i + j] = Stream[(i + d) + j] /\ (i + d) + j <= Len(Stream)
      <3>1. i + j \in p'..Len(Stream') /\ (i + j) + d = (i + d) + j
        BY <1>0, <2>1
      <3> QED BY <1>0, <1>3, <2>1, <3>1 DEF Shifted
    <2>0. \A j \in 1..5 :
            i + j <= Len(Stream') => Stream'[i + j] = Stream[(i + d) + j] /\ (i + d) + j <= Len(Stream)
      BY <2>1
    <2>2. i + 1 <= Len(Stream') => Stream'[i + 1] = NL
      <3>1. (i + d) + 1 <= Len(Stream) => Stream[(i + d) + 1] = NL
        BY <1>2 DEF Intact
      <3>2. 1 \in 1..5
        OBVIOUS
      <3> QED BY <2>0, <3>1, <3>2
    <2>3. i + 2 <= Len(Stream') => Stream'[i + 2] = Byte(f)
      <3>1. (i + d) + 2 <= Len(Stream) => Stream[(i + d) + 2] = Byte(f)
        BY <1>2 DEF Intact
      <3>2. 2 \in 1..5
        OBVIOUS
      <3> QED BY <2>0, <3>1, <3>2
    <2>4. i + 3 <= Len(Stream') => Stream'[i + 3] = NL
      <3>1. (i + d) + 3 <= Len(Stream) => Stream[(i + d) + 3] = NL
        BY <1>2 DEF Intact
      <3>2. 3 \in 1..5
        OBVIOUS
      <3> QED BY <2>0, <3>1, <3>2
    <2>5. i + 4 <= Len(Stream') => Stream'[i + 4] = Byte(f)
      <3>1. (i + d) + 4 <= Len(Stream) => Stream[(i + d) + 4] = Byte(f)
        BY <1>2 DEF Intact
      <3>2. 4 \in 1..5
        OBVIOUS
      <3> QED BY <2>0, <3>1, <3>2
    <2>6. i + 5 <= Len(Stream') => Stream'[i + 5] = NL
      <3>1. (i + d) + 5 <= Len(Stream) => Stream[(i + d) + 5] = NL
        BY <1>2 DEF Intact
      <3>2. 5 \in 1..5
        OBVIOUS
      <3> QED BY <2>0, <3>1, <3>2
    <2> QED BY <2>2, <2>3, <2>4, <2>5, <2>6 DEF Intact
  <1>5. /\ i + 5 <= Arrived' <=> (i + d) + 5 <= Arrived
        /\ i + 5 > Arrived' <=> (i + d) + 5 > Arrived
        /\ i + 5 = Len(Stream') <=> (i + d) + 5 = Len(Stream)
    BY <1>0, <1>3
  <1> QED BY <1>2, <1>4, <1>5 DEF Shifted

LEMMA ShiftResponse ==
  ASSUME TypeOK, TypeOK', NEW d \in Nat, Shifted(d), ResponseInv
  PROVE  ResponseInv'
  <1> SUFFICES ASSUME NEW i \in p'..Len(Stream'), ResponseAt(i)'
               PROVE  /\ serving' \in {"close", "closed"}
                      /\ i + 1 >= Len(Stream')
                      /\ i + 1 <= Len(Stream') => Stream'[i + 1] = NL
                      /\ i + 1 <= Arrived' => AnswerSent'
    BY DEF ResponseInv
  <1>0. /\ Len(Stream) \in Nat /\ Len(Stream') \in Nat /\ Arrived \in Nat /\ Arrived' \in Nat
        /\ p \in Nat /\ p' \in Nat /\ p' > 0
    BY StreamFacts, NextStreamFacts DEF StreamShape
  <1>1. ResponseAt(i + d) /\ i + d \in p..Len(Stream)
    BY DEF Shifted, ResponseAt, Start
  <1>2. /\ serving \in {"close", "closed"}
        /\ (i + d) + 1 >= Len(Stream)
        /\ (i + d) + 1 <= Len(Stream) => Stream[(i + d) + 1] = NL
        /\ (i + d) + 1 <= Arrived => AnswerSent
    BY <1>1 DEF ResponseInv
  <1>3. Len(Stream') = Len(Stream) - d /\ Arrived' = Arrived - d
    BY DEF Shifted
  <1>4. AnswerSent' <=> AnswerSent
    BY DEF Shifted, AnswerSent
  <1>5. i + 1 <= Len(Stream') => Stream'[i + 1] = Stream[(i + d) + 1]
    <2>1. (i + d) + 1 = (i + 1) + d
      BY <1>0
    <2> QED BY <1>0, <2>1 DEF Shifted
  <1> QED BY <1>0, <1>2, <1>3, <1>4, <1>5 DEF Shifted

LEMMA ShiftOrder ==
  ASSUME TypeOK, TypeOK', NEW d \in Nat, Shifted(d)
  PROVE  /\ OrderInv => OrderInv'
         /\ \A g \in Nat :
              (\A i \in p..Len(Stream), f \in 1..MaxFrames : DrawAt(i, f) => g < f) =>
              (\A i \in p'..Len(Stream'), f \in 1..MaxFrames : DrawAt(i, f)' => g < f)
  <1>0. \A i \in p'..Len(Stream'), f \in 1..MaxFrames :
          DrawAt(i, f)' => DrawAt(i + d, f) /\ i + d \in p..Len(Stream) /\ i \in Nat
    <2>1. p' \in Nat /\ Len(Stream') \in Nat
      BY StreamFacts, NextStreamFacts DEF StreamShape
    <2>2. \A i \in p'..Len(Stream'), f \in 1..MaxFrames : DrawAt(i, f)' => DrawAt(i + d, f)
      BY DEF Shifted
    <2>3. \A i, f : DrawAt(i, f) => i \in p..Len(Stream)
      BY DEF DrawAt, Start
    <2> QED BY <2>1, <2>2, <2>3
  <1>1. ASSUME OrderInv,
               NEW i \in p'..Len(Stream'), NEW j \in p'..Len(Stream'),
               NEW f \in 1..MaxFrames, NEW g \in 1..MaxFrames,
               DrawAt(i, f)', DrawAt(j, g)', i < j
        PROVE  f < g
    <2>1. DrawAt(i + d, f) /\ DrawAt(j + d, g) /\ i + d < j + d
      BY <1>0, <1>1
    <2> QED BY <1>0, <1>1, <2>1 DEF OrderInv
  <1>2. OrderInv => OrderInv'
    BY <1>1 DEF OrderInv
  <1> QED BY <1>0, <1>2

-----------------------------------------------------------------------------
(* The client takes the stream apart.                                      *)

(* A step of the client that hands nothing over.                           *)
LEMMA ShiftFrame ==
  ASSUME TypeOK, TypeOK', SentInv', FrameInv, NEW d \in Nat, Shifted(d),
         got' = got, pc # "done", PassedInv'
  PROVE  FrameInv'
  <1>1. DrawInv /\ ResponseInv /\ OrderInv
    BY DEF FrameInv
  <1>2. DrawInv' /\ ResponseInv' /\ OrderInv'
    BY <1>1, ShiftDraw, ShiftResponse, ShiftOrder
  <1>3. GotInv'
    <2> SUFFICES ASSUME got # <<>>
                 PROVE  \E g \in 1..Len(sent) :
                          /\ got[Len(got)] = sent[g]
                          /\ sent[g] = Frame(g)
                          /\ \A i \in p'..Len(Stream'), f \in 1..MaxFrames : DrawAt(i, f)' => g < f
      BY DEF GotInv, Shifted
    <2>1. PICK g \in 1..Len(sent) :
            /\ got[Len(got)] = sent[g]
            /\ sent[g] = Frame(g)
            /\ \A i \in p..Len(Stream), f \in 1..MaxFrames : DrawAt(i, f) => g < f
      BY DEF FrameInv, GotInv
    <2>2. g \in Nat
      BY DEF TypeOK, DaemonType
    <2>3. \A i \in p'..Len(Stream'), f \in 1..MaxFrames : DrawAt(i, f)' => g < f
      BY <2>1, <2>2, ShiftOrder
    <2> QED BY <2>1, <2>3
  <1> QED BY <1>2, <1>3 DEF FrameInv

(* A step that leaves the stream as it is.                                 *)
LEMMA Stays ==
  ASSUME TypeOK, Stream' = Stream, Arrived' = Arrived, p' = p,
         UNCHANGED <<out, sent, frames>>,
         serving' = serving \/ serving = "request" \/ (serving = "close" /\ serving' = "closed")
  PROVE  Shifted(0)
  <1>1. p \in Nat /\ Len(Stream) \in Nat /\ Arrived \in Nat
    BY StreamFacts DEF StreamShape
  <1>2. \A i : Start(i)' <=> Start(i)
    BY DEF Start
  <1>3. \A i, f : DrawAt(i, f)' <=> DrawAt(i, f)
    BY <1>2 DEF DrawAt
  <1>4. \A i : ResponseAt(i)' <=> ResponseAt(i)
    BY <1>2 DEF ResponseAt
  <1>5. \A i \in p..Len(Stream) : i + 0 = i
    BY <1>1
  <1>6. Len(Stream) - 0 = Len(Stream) /\ Arrived - 0 = Arrived
    BY <1>1
  <1> QED BY <1>3, <1>4, <1>5, <1>6 DEF Shifted

(* A step after which messages start where they did before.                *)
LEMMA Starts ==
  ASSUME TypeOK, TypeOK', NEW d \in Nat,
         Len(Stream') = Len(Stream) - d, Arrived' = Arrived - d,
         \A i \in p'..Len(Stream') : Stream'[i] = Stream[i + d],
         \A i \in p'..Len(Stream') :
           Start(i)' /\ Stream'[i].t = "line" /\ Stream'[i].type # "other" => Start(i + d),
         UNCHANGED <<out, sent, frames, serving>>
  PROVE  Shifted(d)
  <1>1. ASSUME NEW i \in p'..Len(Stream'), NEW f \in 1..MaxFrames, DrawAt(i, f)'
        PROVE  DrawAt(i + d, f)
    <2>1. Start(i)' /\ Stream'[i] = Line("draw", f)
      BY <1>1 DEF DrawAt
    <2>2. Stream'[i].t = "line" /\ Stream'[i].type # "other"
      BY <2>1, TokenFacts
    <2>3. Start(i + d) /\ Stream[i + d] = Line("draw", f)
      BY <2>1, <2>2
    <2> QED BY <2>3 DEF DrawAt
  <1>2. ASSUME NEW i \in p'..Len(Stream'), ResponseAt(i)'
        PROVE  ResponseAt(i + d)
    <2>1. Start(i)' /\ Stream'[i] = Line("response", 0)
      BY <1>2 DEF ResponseAt
    <2>2. Stream'[i].t = "line" /\ Stream'[i].type # "other"
      BY <2>1, TokenFacts
    <2>3. Start(i + d) /\ Stream[i + d] = Line("response", 0)
      BY <2>1, <2>2
    <2> QED BY <2>3 DEF ResponseAt
  <1> QED BY <1>1, <1>2 DEF Shifted

(* Once the client has finished, what it was given stays what was sent.    *)
LEMMA Finished ==
  ASSUME TypeOK, FrameInv, SentInv', UNCHANGED <<buf, p, got>>, pc' = "done",
         Len(sent) <= Len(sent'), Len(sent') \in Nat,
         \A i \in 1..Len(sent) : sent'[i] = sent[i]
  PROVE  FrameInv'
  <1>1. PassedInv'
    BY DEF FrameInv, PassedInv
  <1>2. GotInv'
    <2> SUFFICES ASSUME got # <<>>
                 PROVE  \E g \in 1..Len(sent') : got[Len(got)] = sent'[g]
      BY DEF GotInv
    <2>1. PICK g \in 1..Len(sent) : got[Len(got)] = sent[g]
      BY DEF FrameInv, GotInv
    <2>2. g \in 1..Len(sent')
      BY <2>1 DEF TypeOK, DaemonType
    <2> QED BY <2>1, <2>2
  <1> QED BY <1>1, <1>2 DEF FrameInv

LEMMA SameSeq ==
  ASSUME NEW S, NEW a \in Seq(S), NEW b \in Seq(S), Len(a) = Len(b),
         \A i \in 1..Len(a) : a[i] = b[i]
  PROVE  a = b
  OBVIOUS

(* A read moves tokens from the wire to the buffer.                        *)
LEMMA Moved ==
  ASSUME NEW S, NEW a \in Seq(S), NEW b \in Seq(S), NEW n \in 0..Len(b)
  PROVE  /\ a \o SubSeq(b, 1, n) \o SubSeq(b, n + 1, Len(b)) = a \o b
         /\ Len(a \o SubSeq(b, 1, n)) + Len(SubSeq(b, n + 1, Len(b))) = Len(a) + Len(b)
  <1> DEFINE u == SubSeq(b, 1, n)
             v == SubSeq(b, n + 1, Len(b))
  <1>0. Len(a) \in Nat /\ Len(b) \in Nat /\ n \in Nat /\ n <= Len(b)
    OBVIOUS
  <1>1. u \in Seq(S) /\ Len(u) = n /\ \A k \in 1..n : u[k] = b[k]
    BY <1>0
  <1>2. v \in Seq(S) /\ Len(v) = Len(b) - n /\ \A k \in 1..Len(b) - n : v[k] = b[k + n]
    <2>1. n + 1 \in 1..Len(b) + 1 /\ (n + 1) - 1 = n
      BY <1>0
    <2> QED BY <2>1, CutFront
  <1> HIDE DEF u, v
  <1>3. /\ a \o u \o v \in Seq(S)
        /\ Len(a \o u \o v) = Len(a) + Len(u) + Len(v)
        /\ \A i \in 1..Len(a) : (a \o u \o v)[i] = a[i]
        /\ \A i \in Len(a) + 1..Len(a) + Len(u) : (a \o u \o v)[i] = u[i - Len(a)]
        /\ \A i \in Len(a) + Len(u) + 1..Len(a) + Len(u) + Len(v) :
             (a \o u \o v)[i] = v[i - (Len(a) + Len(u))]
    <2>1. u \in Seq(S) /\ v \in Seq(S)
      BY <1>1, <1>2
    <2> QED BY <2>1, ThreeParts
  <1>4. /\ a \o b \in Seq(S) /\ Len(a \o b) = Len(a) + Len(b)
        /\ \A k \in 1..Len(a) : (a \o b)[k] = a[k]
        /\ \A k \in Len(a) + 1..Len(a) + Len(b) : (a \o b)[k] = b[k - Len(a)]
    BY Concat
  <1>5. Len(a) + Len(u) + Len(v) = Len(a) + Len(b)
    BY <1>0, <1>1, <1>2
  <1> DEFINE x == a \o u \o v
             y == a \o b
  <1>6. ASSUME NEW i \in 1..Len(a) + Len(b)
        PROVE  x[i] = y[i]
    <2> HIDE DEF x, y
    <2>1. CASE i \in 1..Len(a)
      BY <1>3, <1>4, <2>1 DEF x, y
    <2>2. CASE i \in Len(a) + 1..Len(a) + n
      <3>1. i - Len(a) \in 1..n /\ i \in Len(a) + 1..Len(a) + Len(b)
        BY <1>0, <2>2
      <3>2. x[i] = u[i - Len(a)]
        BY <1>1, <1>3, <2>2 DEF x
      <3>3. y[i] = b[i - Len(a)]
        BY <1>4, <3>1 DEF y
      <3> QED BY <1>1, <3>1, <3>2, <3>3
    <2>3. CASE i \in Len(a) + n + 1..Len(a) + Len(b)
      <3>1. /\ i - (Len(a) + n) \in 1..Len(b) - n /\ i \in Len(a) + 1..Len(a) + Len(b)
            /\ (i - (Len(a) + n)) + n = i - Len(a)
        BY <1>0, <2>3
      <3>2. x[i] = v[i - (Len(a) + n)]
        BY <1>1, <1>3, <1>5, <2>3 DEF x
      <3>3. y[i] = b[i - Len(a)]
        BY <1>4, <3>1 DEF y
      <3> QED BY <1>2, <3>1, <3>2, <3>3
    <2> QED BY <1>0, <2>1, <2>2, <2>3
  <1>7. x = y
    <2>1. x \in Seq(S) /\ y \in Seq(S) /\ Len(x) = Len(y) /\ Len(x) = Len(a) + Len(b)
      BY <1>3, <1>4, <1>5
    <2> HIDE DEF x, y
    <2> QED BY <1>6, <2>1, SameSeq
  <1>8. Len(a \o u) + Len(v) = Len(a) + Len(b)
    <2>1. Len(a \o u) = Len(a) + Len(u)
      BY <1>1, Concat
    <2> QED BY <1>0, <1>1, <1>2, <2>1
  <1> QED BY <1>7, <1>8 DEF u, v

LEMMA ReadStream ==
  ASSUME TypeOK, NEW n \in 0..Len(wire), UNCHANGED out,
         buf' = buf \o SubSeq(wire, 1, n), wire' = SubSeq(wire, n + 1, Len(wire))
  PROVE  Stream' = Stream /\ Arrived' = Arrived
  <1>1. buf \in Seq(Tokens) /\ wire \in Seq(Tokens)
    BY DEF TypeOK, ClientType
  <1> DEFINE b == buf \o SubSeq(wire, 1, n)
             w == SubSeq(wire, n + 1, Len(wire))
  <1>2. b \o w = buf \o wire /\ Len(b) + Len(w) = Len(buf) + Len(wire)
    BY <1>1, Moved
  <1>3. buf' = b /\ wire' = w
    OBVIOUS
  <1> HIDE DEF b, w
  <1> QED BY <1>2, <1>3 DEF Stream, Arrived

(* A step of the client, the daemon or the user that leaves the stream and *)
(* the client's place in it alone.                                         *)
LEMMA QuietFrame ==
  ASSUME TypeOK, TypeOK', SentInv', FrameInv, pc # "done",
         Stream' = Stream, Arrived' = Arrived, p' = p, got' = got,
         UNCHANGED <<out, sent, frames>>,
         serving' = serving \/ serving = "request" \/ (serving = "close" /\ serving' = "closed"),
         pc' = pc \/ p = 1, buf' = buf \/ p = 1
  PROVE  FrameInv'
  <1>1. Shifted(0)
    BY Stays
  <1>2. PassedInv'
    BY DEF FrameInv, PassedInv
  <1>3. 0 \in Nat
    OBVIOUS
  <1> QED BY <1>1, <1>2, <1>3, ShiftFrame

(* The client's steps before it scans: they end it, or leave the stream.   *)
LEMMA ReadsStream ==
  ASSUME TypeOK, FrameInv,
         relay_setup \/ filly_client_connect \/ RelayPoll \/ filly_client_process
           \/ filly_client_get_response
  PROVE  /\ pc \in {"start", "wait", "read"} /\ p = 1 /\ UNCHANGED <<out, sent, frames, got>>
         /\ serving' = serving \/ serving = "request"
         /\ \/ pc' = "done" /\ UNCHANGED <<buf, p>>
            \/ Stream' = Stream /\ Arrived' = Arrived /\ p' = 1
  <1>0. /\ pc \in {"start", "wait", "read"} /\ p = 1 /\ UNCHANGED <<out, sent, frames, got>>
        /\ serving' = serving \/ serving = "request"
    <2>1. /\ pc \in {"start", "wait", "read"} /\ UNCHANGED <<out, sent, frames, got>>
          /\ serving' = serving \/ pc = "start"
      BY DEF relay_setup, filly_client_connect, RelayPoll, filly_client_process,
             filly_client_get_response, daemon, scan
    <2> QED BY <2>1 DEF FrameInv, PassedInv, SentInv
  <1>1. wire \in Seq(Tokens) /\ Len(wire) \in Nat /\ buf \in Seq(Tokens) /\ Len(buf) \in Nat
    BY DEF TypeOK, ClientType
  <1>2. ASSUME \E n \in 0..Len(wire) :
                 buf' = buf \o SubSeq(wire, 1, n) /\ wire' = SubSeq(wire, n + 1, Len(wire))
        PROVE  Stream' = Stream /\ Arrived' = Arrived
    <2>1. PICK n \in 0..Len(wire) :
            buf' = buf \o SubSeq(wire, 1, n) /\ wire' = SubSeq(wire, n + 1, Len(wire))
      BY <1>2
    <2> QED BY <1>0, <2>1, ReadStream
  <1>3. ASSUME UNCHANGED <<buf, wire>>
        PROVE  Stream' = Stream /\ Arrived' = Arrived
    BY <1>0, <1>3 DEF Stream, Arrived
  <1>4. CASE relay_setup \/ filly_client_connect \/ RelayPoll
    BY <1>0, <1>3, <1>4 DEF relay_setup, filly_client_connect, RelayPoll, scan, Fail, Exit
  <1>5. CASE filly_client_process
    <2>1. \/ pc' = "done" /\ UNCHANGED <<buf, p>>
          \/ p' = 1 /\ UNCHANGED <<buf, wire>>
          \/ p' = 1 /\ buf' = buf \o wire /\ wire' = <<>>
      BY <1>0, <1>5 DEF filly_client_process, Fail, Exit
    <2>2. ASSUME buf' = buf \o wire, wire' = <<>>
          PROVE  Stream' = Stream /\ Arrived' = Arrived
      <3>1. SubSeq(wire, 1, Len(wire)) = wire /\ SubSeq(wire, Len(wire) + 1, Len(wire)) = <<>>
        BY <1>1
      <3>2. Len(wire) \in 0..Len(wire)
        BY <1>1
      <3> QED BY <1>2, <2>2, <3>1, <3>2
    <2> QED BY <1>0, <1>3, <2>1, <2>2
  <1>6. CASE filly_client_get_response
    <2> DEFINE space == CLIENT_BUF_SIZE - Len(buf) - 1
               n == IF Len(wire) < space THEN Len(wire) ELSE space
    <2>1. \/ pc' = "done" /\ UNCHANGED <<buf, p>>
          \/ /\ p' = 1 /\ space > 0
             /\ buf' = buf \o SubSeq(wire, 1, n)
             /\ wire' = SubSeq(wire, n + 1, Len(wire))
      BY <1>6 DEF filly_client_get_response, Fail, Exit
    <2>2. space > 0 => n \in 0..Len(wire)
      BY <1>1, ClientAssumption
    <2> HIDE DEF n, space
    <2> QED BY <1>0, <1>2, <2>1, <2>2
  <1> QED BY <1>4, <1>5, <1>6

LEMMA ReadsFrame ==
  ASSUME TypeOK, TypeOK', SentInv', FrameInv,
         relay_setup \/ filly_client_connect \/ RelayPoll \/ filly_client_process
           \/ filly_client_get_response
  PROVE  FrameInv'
  <1>0. /\ pc \in {"start", "wait", "read"} /\ p = 1 /\ UNCHANGED <<out, sent, frames, got>>
        /\ serving' = serving \/ serving = "request"
        /\ \/ pc' = "done" /\ UNCHANGED <<buf, p>>
           \/ Stream' = Stream /\ Arrived' = Arrived /\ p' = 1
    BY ReadsStream
  <1>1. CASE pc' = "done" /\ UNCHANGED <<buf, p>>
    <2>1. Len(sent) <= Len(sent') /\ Len(sent') \in Nat /\ \A i \in 1..Len(sent) : sent'[i] = sent[i]
      BY <1>0 DEF TypeOK, DaemonType
    <2> QED BY <1>0, <1>1, <2>1, Finished
  <1>2. CASE Stream' = Stream /\ Arrived' = Arrived /\ p' = 1
    BY <1>0, <1>2, QuietFrame
  <1> QED BY <1>0, <1>1, <1>2

-----------------------------------------------------------------------------
(* The scan.                                                               *)

(* What the buffer loses in front, the stream loses.                       *)
LEMMA BufferAhead ==
  ASSUME TypeOK, TypeOK', UNCHANGED <<wire, out>>, NEW d \in Nat, NEW q \in Nat \ {0},
         Len(buf') = Len(buf) - d,
         \A k \in q..Len(buf') : buf'[k] = buf[k + d]
  PROVE  /\ Len(Stream') = Len(Stream) - d /\ Arrived' = Arrived - d
         /\ \A k \in q..Len(Stream') : Stream'[k] = Stream[k + d]
  <1>1. /\ Len(buf) \in Nat /\ Len(wire) \in Nat /\ Len(out) \in Nat
        /\ Arrived \in Nat /\ Arrived = Len(buf) + Len(wire)
        /\ Len(Stream) \in Nat /\ Len(Stream) = Arrived + Len(out)
        /\ \A i \in 1..Len(buf) : Stream[i] = buf[i]
        /\ \A i \in Len(buf) + 1..Arrived : Stream[i] = wire[i - Len(buf)]
        /\ \A i \in Arrived + 1..Len(Stream) : Stream[i] = out[i - Arrived]
    BY StreamFacts DEF StreamShape
  <1>2. /\ Len(buf') \in Nat
        /\ Arrived' \in Nat /\ Arrived' = Len(buf') + Len(wire)
        /\ Len(Stream') \in Nat /\ Len(Stream') = Arrived' + Len(out)
        /\ \A i \in 1..Len(buf') : Stream'[i] = buf'[i]
        /\ \A i \in Len(buf') + 1..Arrived' : Stream'[i] = wire[i - Len(buf')]
        /\ \A i \in Arrived' + 1..Len(Stream') : Stream'[i] = out[i - Arrived']
    BY NextStreamFacts DEF StreamShape
  <1>3. Arrived' = Arrived - d /\ Len(Stream') = Len(Stream) - d
    BY <1>1, <1>2
  <1>4. ASSUME NEW k \in q..Len(Stream')
        PROVE  Stream'[k] = Stream[k + d]
    <2>0. k \in Nat /\ k > 0
      BY <1>2
    <2>1. CASE k <= Len(buf')
      <3>1. k \in q..Len(buf') /\ k \in 1..Len(buf') /\ k + d \in 1..Len(buf)
        BY <1>1, <1>2, <2>0, <2>1
      <3>2. Stream'[k] = buf'[k] /\ Stream[k + d] = buf[k + d]
        BY <1>1, <1>2, <3>1
      <3>3. buf'[k] = buf[k + d]
        BY <3>1
      <3> QED BY <3>2, <3>3
    <2>2. CASE k > Len(buf') /\ k <= Arrived'
      <3>1. /\ k \in Len(buf') + 1..Arrived' /\ k + d \in Len(buf) + 1..Arrived
            /\ (k + d) - Len(buf) = k - Len(buf')
        BY <1>1, <1>2, <1>3, <2>0, <2>2
      <3>2. Stream'[k] = wire[k - Len(buf')] /\ Stream[k + d] = wire[(k + d) - Len(buf)]
        BY <1>1, <1>2, <3>1
      <3> QED BY <3>1, <3>2
    <2>3. CASE k > Arrived'
      <3>1. /\ k \in Arrived' + 1..Len(Stream') /\ k + d \in Arrived + 1..Len(Stream)
            /\ (k + d) - Arrived = k - Arrived'
        BY <1>1, <1>2, <1>3, <2>0, <2>3
      <3>2. Stream'[k] = out[k - Arrived'] /\ Stream[k + d] = out[(k + d) - Arrived]
        BY <1>1, <1>2, <3>1
      <3> QED BY <3>1, <3>2
    <2> QED BY <1>2, <2>0, <2>1, <2>2, <2>3
  <1> QED BY <1>3, <1>4

(* What is before p is dropped, and perhaps a line after it.               *)
LEMMA DroppedFrame ==
  ASSUME TypeOK, TypeOK', SentInv', FrameInv, pc # "done",
         UNCHANGED <<wire, daemon, got>>, NEW d \in 0..Len(buf),
         buf' = SubSeq(buf, d + 1, Len(buf)), p' = 1,
         d + 1 = p \/ (d >= p /\ buf[d] = NL)
  PROVE  FrameInv'
  <1>1. buf \in Seq(Tokens) /\ Len(buf) \in Nat /\ d \in Nat
    BY DEF TypeOK, ClientType
  <1>2. /\ Len(buf') = Len(buf) - d
        /\ \A k \in 1..Len(buf') : buf'[k] = buf[k + d]
    <2>1. d + 1 \in 1..Len(buf) + 1 /\ (d + 1) - 1 = d
      BY <1>1
    <2> DEFINE b == SubSeq(buf, d + 1, Len(buf))
    <2>2. Len(b) = Len(buf) - d /\ \A k \in 1..Len(buf) - d : b[k] = buf[k + d]
      BY <1>1, <2>1, CutFront
    <2>3. buf' = b
      OBVIOUS
    <2> HIDE DEF b
    <2> QED BY <2>2, <2>3
  <1>3. 1 \in Nat \ {0} /\ UNCHANGED <<wire, out, sent, frames, serving>>
    BY DEF daemon
  <1>4. /\ Len(Stream') = Len(Stream) - d /\ Arrived' = Arrived - d
        /\ \A k \in 1..Len(Stream') : Stream'[k] = Stream[k + d]
    BY <1>1, <1>2, <1>3, BufferAhead
  <1>5. /\ p \in Nat /\ p > 0 /\ Len(Stream) \in Nat /\ Len(Stream') \in Nat
        /\ \A i \in 1..Len(buf) : Stream[i] = buf[i]
    BY StreamFacts, NextStreamFacts DEF StreamShape
  <1>6. ASSUME NEW i \in 1..Len(Stream'), Start(i)'
        PROVE  Start(i + d)
    <2>1. i = 1 \/ Stream'[i - 1] = NL
      BY <1>6 DEF Start
    <2>2. i + d \in p..Len(Stream) /\ (i = 1 \/ (i - 1) \in 1..Len(Stream')) /\ (i - 1) + d = (i + d) - 1
      BY <1>1, <1>4, <1>5
    <2>3. CASE i = 1
      <3>1. 1 + d = p \/ (d \in 1..Len(buf) /\ buf[d] = NL)
        BY <1>1, <1>5
      <3>2. 1 + d = p \/ Stream[(1 + d) - 1] = NL
        <4>1. (1 + d) - 1 = d
          BY <1>1
        <4> QED BY <1>5, <3>1, <4>1
      <3> QED BY <2>2, <2>3, <3>2 DEF Start
    <2>4. CASE i # 1
      BY <1>4, <2>1, <2>2, <2>4 DEF Start
    <2> QED BY <2>3, <2>4
  <1>7. Shifted(d)
    BY <1>1, <1>3, <1>4, <1>6, Starts
  <1>8. PassedInv'
    BY DEF PassedInv
  <1> QED BY <1>1, <1>7, <1>8, ShiftFrame

LEMMA ScanEndFrame ==
  ASSUME TypeOK, TypeOK', SentInv', FrameInv, ScanEnd
  PROVE  FrameInv'
  <1>0. /\ buf \in Seq(Tokens) /\ Len(buf) \in Nat /\ p \in 1..Len(buf) + 1
        /\ pc # "done" /\ UNCHANGED <<wire, daemon, got>> /\ p' = 1
    BY DEF TypeOK, ClientType, ScanEnd
  <1>1. CASE p <= Len(buf)
    <2>1. buf' = SubSeq(buf, (p - 1) + 1, Len(buf)) /\ p - 1 \in 0..Len(buf) /\ (p - 1) + 1 = p
      <3>1. (p - 1) + 1 = p /\ p - 1 \in 0..Len(buf)
        BY <1>0, <1>1
      <3> QED BY <1>1, <3>1 DEF ScanEnd
    <2> QED BY <1>0, <2>1, DroppedFrame
  <1>2. CASE ~(p <= Len(buf))
    <2>1. buf' = buf /\ p = Len(buf) + 1
      BY <1>0, <1>2 DEF ScanEnd
    <2>2. Stream' = Stream /\ Arrived' = Arrived /\ UNCHANGED <<out, sent, frames, serving>>
      BY <1>0, <2>1 DEF Stream, Arrived, daemon
    <2>3. CASE p = 1
      BY <1>0, <2>1, <2>2, <2>3, QuietFrame
    <2>4. CASE p > 1
      <3>1. /\ Len(Stream) \in Nat /\ Arrived \in Nat /\ Len(buf) <= Len(Stream)
            /\ \A i \in 1..Len(buf) : Stream[i] = buf[i]
        BY StreamFacts DEF StreamShape
      <3>2. /\ buf[1].t = "line" => buf[1].type = "other"
            /\ \A i \in 1..Len(buf) : buf[i] # NL
        BY <1>0, <2>1, <2>4 DEF FrameInv, PassedInv
      <3>3. /\ Len(Stream') = Len(Stream) - 0 /\ Arrived' = Arrived - 0
            /\ \A i \in p'..Len(Stream') : Stream'[i] = Stream[i + 0]
        BY <1>0, <2>2, <3>1
      <3>4. ASSUME NEW i \in p'..Len(Stream'), Start(i)', Stream'[i].t = "line",
                   Stream'[i].type # "other"
            PROVE  Start(i + 0)
        <4>1. i \in 1..Len(Stream) /\ (i = 1 \/ Stream[i - 1] = NL) /\ i + 0 = i
          BY <1>0, <2>2, <3>1, <3>4 DEF Start
        <4>2. i # 1
          <5>1. Stream[1] = buf[1] /\ Stream'[i] = Stream[i]
            BY <1>0, <2>1, <2>2, <2>4, <3>1
          <5> QED BY <3>2, <3>4, <5>1
        <4>3. i - 1 \in 1..Len(Stream) /\ Stream[i - 1] = NL
          BY <3>1, <4>1, <4>2
        <4>4. ~(i - 1 \in 1..Len(buf))
          BY <3>1, <3>2, <4>3
        <4>5. i \in p..Len(Stream)
          BY <1>0, <2>1, <4>1, <4>3, <4>4
        <4> QED BY <4>1, <4>3, <4>5 DEF Start
      <3>5. 0 \in Nat
        OBVIOUS
      <3>6. Shifted(0)
        BY <2>2, <3>3, <3>4, <3>5, Starts
      <3>7. PassedInv'
        BY <1>0 DEF PassedInv
      <3> QED BY <1>0, <3>5, <3>6, <3>7, ShiftFrame
    <2> QED BY <1>0, <2>3, <2>4
  <1> QED BY <1>1, <1>2

LEMMA ScanPartialFrame ==
  ASSUME TypeOK, TypeOK', SentInv', FrameInv, ScanPartialDraw
  PROVE  FrameInv'
  <1>0. /\ buf \in Seq(Tokens) /\ Len(buf) \in Nat /\ p \in 1..Len(buf) + 1
        /\ pc # "done" /\ UNCHANGED <<wire, daemon, got>> /\ p' = 1
        /\ buf' = SubSeq(buf, p, Len(buf))
    BY DEF TypeOK, ClientType, ScanPartialDraw, Scanning
  <1>1. buf' = SubSeq(buf, (p - 1) + 1, Len(buf)) /\ p - 1 \in 0..Len(buf) /\ (p - 1) + 1 = p
    <2>1. (p - 1) + 1 = p /\ p - 1 \in 0..Len(buf)
      BY <1>0
    <2> QED BY <1>0, <2>1
  <1> QED BY <1>0, <1>1, DroppedFrame

(* A line of another kind ends where its newline was.                      *)
LEMMA ScanOtherFrame ==
  ASSUME TypeOK, TypeOK', SentInv', FrameInv, ScanOther
  PROVE  FrameInv'
  <1>0. /\ buf \in Seq(Tokens) /\ Len(buf) \in Nat /\ p \in 1..Len(buf) + 1 /\ p \in Nat
        /\ pc = "scan" /\ UNCHANGED <<wire, daemon, got>>
    BY DEF TypeOK, ClientType, ScanOther, Scanning
  <1>1. nl \in p..Len(buf) /\ buf[nl] = NL /\ \A j \in p..nl - 1 : buf[j] # NL
    BY <1>0, FirstNewline DEF ScanOther, Scanning
  <1>2. nl \in Nat /\ nl >= p /\ nl <= Len(buf) /\ nl > 0
    BY <1>0, <1>1
  <1>3. CASE nl = Len(buf)
    <2>1. buf' = <<>> /\ p' = 1
      BY <1>3 DEF ScanOther
    <2>2. SubSeq(buf, nl + 1, Len(buf)) = <<>>
      BY <1>0, <1>3
    <2>3. nl \in 0..Len(buf) /\ buf' = SubSeq(buf, nl + 1, Len(buf)) /\ nl >= p /\ buf[nl] = NL
      <3>1. nl \in 0..Len(buf)
        BY <1>0, <1>2
      <3>2. buf' = SubSeq(buf, nl + 1, Len(buf))
        BY <2>1, <2>2, Zenon
      <3> QED BY <1>1, <1>2, <3>1, <3>2, Zenon
    <2>4. pc # "done" /\ UNCHANGED <<wire, daemon, got>> /\ p' = 1
      BY <1>0, <2>1
    <2> QED BY <2>3, <2>4, DroppedFrame
  <1>4. CASE nl # Len(buf)
    <2>1. buf' = [buf EXCEPT ![nl] = NUL] /\ p' = nl + 1 /\ pc' = pc
      BY <1>4 DEF ScanOther
    <2>2. /\ Len(buf') = Len(buf)
          /\ \A k \in 1..Len(buf) : buf'[k] = IF k = nl THEN NUL ELSE buf[k]
      <3>1. NUL \in Tokens /\ nl \in 1..Len(buf)
        BY <1>0, <1>2 DEF Tokens
      <3> DEFINE b == [buf EXCEPT ![nl] = NUL]
      <3>2. Len(b) = Len(buf) /\ \A k \in 1..Len(buf) : b[k] = IF k = nl THEN NUL ELSE buf[k]
        BY <1>0, <3>1, Replaced
      <3>3. buf' = b
        BY <2>1
      <3> HIDE DEF b
      <3> QED BY <3>2, <3>3
    <2>3. UNCHANGED <<wire, out, sent, frames, serving>>
      BY <1>0 DEF daemon
    <2>4. /\ Len(Stream') = Len(Stream) - 0 /\ Arrived' = Arrived - 0
          /\ \A k \in nl + 1..Len(Stream') : Stream'[k] = Stream[k + 0]
      <3>1. /\ 0 \in Nat /\ nl + 1 \in Nat \ {0} /\ Len(buf') = Len(buf) - 0
            /\ \A k \in nl + 1..Len(buf') : buf'[k] = buf[k + 0]
        BY <1>0, <1>2, <2>2
      <3> QED BY <2>3, <3>1, BufferAhead
    <2>5. /\ Len(Stream) \in Nat /\ Len(Stream') \in Nat /\ Len(buf) <= Len(Stream)
          /\ \A i \in 1..Len(buf) : Stream[i] = buf[i]
      BY StreamFacts, NextStreamFacts DEF StreamShape
    <2>6. ASSUME NEW i \in p'..Len(Stream'), Start(i)'
          PROVE  Start(i + 0)
      <3>1. i \in nl + 1..Len(Stream') /\ (i = nl + 1 \/ Stream'[i - 1] = NL)
        BY <2>1, <2>6 DEF Start
      <3>2. i \in p..Len(Stream) /\ i + 0 = i /\ i \in Nat
        BY <1>0, <1>2, <2>4, <2>5, <3>1
      <3>3. CASE i = nl + 1
        <4>1. i - 1 = nl /\ nl \in 1..Len(buf)
          BY <1>2, <3>3
        <4>2. Stream[i - 1] = NL
          BY <1>1, <2>5, <4>1
        <4> QED BY <3>2, <4>2 DEF Start
      <3>4. CASE i # nl + 1
        <4>1. i - 1 \in nl + 1..Len(Stream') /\ (i - 1) + 0 = i - 1
          BY <1>2, <2>5, <3>1, <3>4
        <4>2. Stream[i - 1] = NL
          BY <2>4, <3>1, <3>4, <4>1
        <4> QED BY <3>2, <4>2 DEF Start
      <3> QED BY <3>3, <3>4
    <2>7. Shifted(0)
      <3>1. 0 \in Nat /\ p' = nl + 1
        BY <2>1
      <3> QED BY <2>3, <2>4, <2>6, <3>1, Starts
    <2>8. PassedInv'
      <3>1. \A i \in 1..nl : buf'[i] # NL
        <4>1. NUL # NL
          BY TokenFacts
        <4>2. ASSUME NEW i \in 1..nl
              PROVE  buf'[i] # NL
          <5>1. CASE i = nl
            BY <1>2, <2>2, <4>1, <5>1
          <5>2. CASE i < nl
            <6>1. i \in 1..Len(buf) /\ i # nl /\ (i \in p..nl - 1 \/ (p > 1 /\ i \in 1..p - 1))
              BY <1>0, <1>2, <5>2
            <6>2. buf[i] # NL
              BY <1>1, <6>1 DEF FrameInv, PassedInv
            <6> QED BY <2>2, <6>1, <6>2
          <5> QED BY <1>2, <5>1, <5>2
        <4> QED BY <4>2
      <3>2. buf'[1].t = "line" => buf'[1].type = "other"
        <4>1. 1 \in 1..Len(buf)
          BY <1>0, <1>2
        <4>2. CASE nl = 1
          BY <2>2, <4>1, <4>2, TokenFacts
        <4>3. CASE nl # 1 /\ p > 1
          BY <2>2, <4>1, <4>3 DEF FrameInv, PassedInv
        <4>4. CASE nl # 1 /\ p = 1
          <5>1. buf[1].t = "line" => buf[1].type \notin {"draw", "response"}
            BY <4>4 DEF ScanOther, Parsed
          <5>2. buf[1] \in Tokens
            BY <1>0, <4>1
          <5>3. buf[1].t = "line" => buf[1].type = "other"
            BY <5>1, <5>2, TokenFacts DEF Tokens
          <5> QED BY <2>2, <4>1, <4>4, <5>3
        <4> QED BY <1>0, <4>2, <4>3, <4>4
      <3>3. p' - 1 = nl /\ pc' = "scan"
        BY <1>0, <1>2, <2>1
      <3> QED BY <3>1, <3>2, <3>3 DEF PassedInv
    <2>9. 0 \in Nat /\ pc # "done" /\ got' = got
      BY <1>0
    <2> QED BY <2>7, <2>8, <2>9, ShiftFrame
  <1> QED BY <1>3, <1>4

(* What is taken for a frame is the frame that begins at p, it was sent,   *)
(* and it goes as a whole.                                                 *)
LEMMA DrawFound ==
  ASSUME TypeOK, TypeOK', FrameInv, ScanDraw
  PROVE  \E f \in 1..MaxFrames :
           /\ DrawAt(p, f) /\ f <= Len(sent) /\ sent[f] = Frame(f)
           /\ got' = Append(got, Frame(f))
           /\ Shifted(6)
  <1>0. /\ buf \in Seq(Tokens) /\ Len(buf) \in Nat /\ p \in 1..Len(buf) + 1 /\ p \in Nat
        /\ pc = "scan" /\ UNCHANGED <<wire, daemon, pc, p>> /\ Parsed = "draw"
    BY DEF TypeOK, ClientType, ScanDraw, Scanning
  <1>1. nl \in p..Len(buf) /\ buf[nl] = NL /\ \A j \in p..nl - 1 : buf[j] # NL
    BY <1>0, FirstNewline DEF ScanDraw, Scanning
  <1>2. nl \in Nat /\ nl >= p /\ Len(buf) - nl >= 4 /\ p \in 1..Len(buf)
    BY <1>0, <1>1 DEF ScanDraw, Whole, DrawLen
  <1>3. PICK f \in 1..MaxFrames : buf[p] = Line("draw", f)
    <2>1. buf[p].t = "line" /\ buf[p].type = "draw" /\ buf[p] \in Tokens
      BY <1>0, <1>2 DEF Parsed
    <2> QED BY <2>1, TokenFacts DEF Tokens
  <1>4. /\ Len(Stream) \in Nat /\ Arrived \in Nat
        /\ Len(buf) <= Arrived /\ Arrived <= Len(Stream)
        /\ \A i \in 1..Len(buf) : Stream[i] = buf[i]
    BY StreamFacts DEF StreamShape
  <1>5. DrawAt(p, f) /\ p \in p..Len(Stream)
    BY <1>0, <1>2, <1>3, <1>4 DEF DrawAt, Start
  <1>6. Intact(Stream, p, f) /\ (p + 5 <= Arrived => f <= Len(sent) /\ sent[f] = Frame(f))
    <2>1. DrawInv
      BY <1>0 DEF FrameInv
    <2> QED BY <1>5, <2>1 DEF DrawInv
  <1>7. nl = p + 1
    <2>1. nl # p
      BY <1>1, <1>3, TokenFacts
    <2>2. p + 1 \in 1..Len(buf) /\ p + 1 <= Len(Stream)
      BY <1>0, <1>2, <1>4
    <2>3. buf[p + 1] = NL
      BY <1>4, <1>6, <2>2 DEF Intact
    <2>4. ~(p + 1 \in p..nl - 1)
      BY <1>1, <2>3
    <2> QED BY <1>0, <1>2, <2>1, <2>4
  <1>8. /\ p + 5 <= Len(buf)
        /\ buf[p + 2] = Byte(f) /\ buf[p + 3] = NL /\ buf[p + 4] = Byte(f) /\ buf[p + 5] = NL
    <2>1. /\ p + 2 \in 1..Len(buf) /\ p + 3 \in 1..Len(buf) /\ p + 4 \in 1..Len(buf)
          /\ p + 5 \in 1..Len(buf) /\ p + 5 <= Len(buf)
      BY <1>0, <1>2, <1>7
    <2>2. p + 2 <= Len(Stream) /\ p + 3 <= Len(Stream) /\ p + 4 <= Len(Stream) /\ p + 5 <= Len(Stream)
      BY <1>0, <1>4, <2>1
    <2>3. /\ Stream[p + 2] = Byte(f) /\ Stream[p + 3] = NL
          /\ Stream[p + 4] = Byte(f) /\ Stream[p + 5] = NL
      BY <1>6, <2>2 DEF Intact
    <2> QED BY <1>4, <2>1, <2>3
  <1>9. f <= Len(sent) /\ sent[f] = Frame(f)
    <2>1. p + 5 <= Arrived
      BY <1>0, <1>4, <1>8
    <2> QED BY <1>6, <2>1
  <1>10. got' = Append(got, Frame(f))
    <2> DEFINE data == SubSeq(buf, nl + 1, nl + DrawLen)
    <2>1. data = Payload(f)
      <3>1. nl + 1 = p + 2 /\ nl + DrawLen = p + 4
        BY <1>0, <1>7 DEF DrawLen
      <3>2. SubSeq(buf, p + 2, p + 4) = <<buf[p + 2], buf[p + 3], buf[p + 4]>>
        <4> DEFINE s == SubSeq(buf, p + 2, p + 4)
        <4>1. p + 2 \in Nat /\ p + 4 \in Nat /\ p + 4 <= Len(buf) /\ 1 <= p + 2
          BY <1>0, <1>8
        <4>2. s \in Seq(Tokens) /\ Len(s) = 3
          BY <1>0, <4>1
        <4>3. /\ s[1] = buf[(p + 2) + 1 - 1] /\ s[2] = buf[(p + 2) + 2 - 1]
              /\ s[3] = buf[(p + 2) + 3 - 1]
          BY <1>0, <4>1
        <4>4. (p + 2) + 1 - 1 = p + 2 /\ (p + 2) + 2 - 1 = p + 3 /\ (p + 2) + 3 - 1 = p + 4
          BY <1>0
        <4> HIDE DEF s
        <4>5. s[1] = buf[p + 2] /\ s[2] = buf[p + 3] /\ s[3] = buf[p + 4]
          BY <4>3, <4>4
        <4>6. s = <<s[1], s[2], s[3]>>
          BY <4>2
        <4> QED BY <4>5, <4>6 DEF s
      <3> QED BY <1>8, <3>1, <3>2 DEF Payload
    <2>2. got' = Append(got, [kind |-> "draw", data |-> data])
      BY DEF ScanDraw
    <2> QED BY <2>1, <2>2 DEF Frame
  <1>11. buf' = SubSeq(buf, 1, p - 1) \o SubSeq(buf, p + 6, Len(buf))
    <2>1. nl + DrawLen + 1 = p + 5 /\ (p + 5) + 1 = p + 6
      BY <1>0, <1>7 DEF DrawLen
    <2> QED BY <1>8, <2>1 DEF ScanDraw
  <1>12. Len(buf') = Len(buf) - 6 /\ \A k \in p..Len(buf') : buf'[k] = buf[k + 6]
    <2>1. p + 6 \in p..Len(buf) + 1 /\ (p + 6) - p = 6
      BY <1>0, <1>8
    <2> DEFINE b == SubSeq(buf, 1, p - 1) \o SubSeq(buf, p + 6, Len(buf))
    <2>2. Len(b) = Len(buf) - 6 /\ \A k \in p..Len(buf) - 6 : b[k] = buf[k + 6]
      <3>1. /\ Len(b) = Len(buf) - ((p + 6) - p)
            /\ \A k \in p..Len(buf) - ((p + 6) - p) : b[k] = buf[k + ((p + 6) - p)]
        <4>1. buf \in Seq(Tokens) /\ p \in 1..Len(buf) + 1
          BY <1>0
        <4>2. p + 6 \in p..Len(buf) + 1
          BY <2>1
        <4> QED BY <4>1, <4>2, CutOut
      <3> HIDE DEF b
      <3> QED BY <2>1, <3>1
    <2> HIDE DEF b
    <2>3. buf' = b
      BY <1>11 DEF b
    <2> QED BY <2>2, <2>3
  <1>13. /\ Len(Stream') = Len(Stream) - 6 /\ Arrived' = Arrived - 6
         /\ \A k \in p..Len(Stream') : Stream'[k] = Stream[k + 6]
    <2>1. UNCHANGED <<wire, out>> /\ 6 \in Nat /\ p \in Nat \ {0}
      BY <1>0 DEF daemon
    <2> QED BY <1>12, <2>1, BufferAhead
  <1>14. ASSUME NEW i \in p'..Len(Stream'), Start(i)'
         PROVE  Start(i + 6)
    <2>1. i \in p..Len(Stream') /\ (i = p \/ Stream'[i - 1] = NL) /\ Len(Stream') \in Nat
      BY <1>0, <1>14, NextStreamFacts DEF Start, StreamShape
    <2>2. i + 6 \in p..Len(Stream) /\ i \in Nat
      BY <1>0, <1>4, <1>13, <2>1
    <2>3. CASE i = p
      <3>1. (i + 6) - 1 = p + 5 /\ p + 5 \in 1..Len(buf)
        BY <1>0, <1>8, <2>3
      <3> QED BY <1>4, <1>8, <2>2, <3>1 DEF Start
    <2>4. CASE i # p
      <3>1. i - 1 \in p..Len(Stream') /\ (i - 1) + 6 = (i + 6) - 1
        BY <1>0, <2>1, <2>2, <2>4
      <3> QED BY <1>13, <2>1, <2>2, <2>4, <3>1 DEF Start
    <2> QED BY <2>3, <2>4
  <1>15. Shifted(6)
    <2>1. UNCHANGED <<out, sent, frames, serving>> /\ 6 \in Nat /\ p' = p
      BY <1>0 DEF daemon
    <2> QED BY <1>13, <1>14, <2>1, Starts
  <1> QED BY <1>5, <1>9, <1>10, <1>15

(* A cut at p leaves what was passed over.                                 *)
LEMMA CutPassed ==
  ASSUME TypeOK, PassedInv, NEW j \in p..Len(buf) + 1,
         buf' = SubSeq(buf, 1, p - 1) \o SubSeq(buf, j, Len(buf)),
         p' = p, pc' \in {"scan", "done"}
  PROVE  PassedInv'
  <1>1. buf \in Seq(Tokens) /\ p \in 1..Len(buf) + 1 /\ p \in Nat
    BY DEF TypeOK, ClientType
  <1>2. \A k \in 1..p - 1 : buf'[k] = buf[k]
    <2> DEFINE b == SubSeq(buf, 1, p - 1) \o SubSeq(buf, j, Len(buf))
    <2>1. \A k \in 1..p - 1 : b[k] = buf[k]
      <3>1. buf \in Seq(Tokens) /\ p \in 1..Len(buf) + 1
        BY <1>1
      <3> QED BY <3>1, CutOut
    <2>2. buf' = b
      OBVIOUS
    <2> HIDE DEF b
    <2> QED BY <2>1, <2>2
  <1>3. p > 1 => 1 \in 1..p - 1
    BY <1>1
  <1> QED BY <1>2, <1>3 DEF PassedInv

LEMMA ScanDrawFrame ==
  ASSUME TypeOK, TypeOK', SentInv', FrameInv, ScanDraw
  PROVE  FrameInv'
  <1>0. /\ buf \in Seq(Tokens) /\ Len(buf) \in Nat /\ p \in 1..Len(buf) + 1 /\ p \in Nat
        /\ pc = "scan" /\ pc' = "scan" /\ p' = p /\ got \in Seq(Deliveries) /\ UNCHANGED sent
    BY DEF TypeOK, ClientType, ScanDraw, Scanning, daemon
  <1>1. PICK f \in 1..MaxFrames :
          /\ DrawAt(p, f) /\ f <= Len(sent) /\ sent[f] = Frame(f)
          /\ got' = Append(got, Frame(f))
          /\ Shifted(6)
    BY DrawFound
  <1>2. DrawInv /\ ResponseInv /\ OrderInv /\ PassedInv
    BY <1>0 DEF FrameInv
  <1>3. DrawInv' /\ ResponseInv' /\ OrderInv'
    <2>1. 6 \in Nat
      OBVIOUS
    <2> QED BY <1>1, <1>2, <2>1, ShiftDraw, ShiftResponse, ShiftOrder
  <1>4. PassedInv'
    <2>1. nl \in p..Len(buf) /\ Len(buf) - nl >= DrawLen + 1
      BY <1>0, FirstNewline DEF ScanDraw, Scanning, Whole
    <2> DEFINE after == nl + DrawLen + 1
               next == IF buf[after] = NL THEN after + 1 ELSE after
    <2>2. buf' = SubSeq(buf, 1, p - 1) \o SubSeq(buf, next, Len(buf))
      BY DEF ScanDraw
    <2>3. next \in p..Len(buf) + 1
      BY <1>0, <2>1 DEF DrawLen
    <2> HIDE DEF next
    <2> QED BY <1>0, <1>2, <2>2, <2>3, CutPassed
  <1>5. GotInv'
    <2>1. ASSUME NEW i \in p'..Len(Stream'), NEW g \in 1..MaxFrames, DrawAt(i, g)'
          PROVE  f < g
      <3>1. DrawAt(i + 6, g)
        BY <1>1, <2>1 DEF Shifted
      <3>2. i \in Nat /\ i >= p
        BY <1>0, NextStreamFacts DEF StreamShape
      <3>3. p \in p..Len(Stream) /\ i + 6 \in p..Len(Stream) /\ p < i + 6
        BY <1>0, <1>1, <3>1, <3>2 DEF DrawAt, Start
      <3> QED BY <1>1, <1>2, <3>1, <3>3 DEF OrderInv
    <2>2. Frame(f) \in Deliveries
      <3>1. got' \in Seq(Deliveries) /\ got' = Append(got, Frame(f))
        BY <1>1 DEF TypeOK, ClientType
      <3>2. Frame(f) = [kind |-> "draw", data |-> Payload(f)]
        BY DEF Frame
      <3>3. Payload(f) \in Seq(Tokens)
        <4>1. NL \in Tokens /\ Byte(f) \in Tokens
          BY DEF Tokens
        <4> QED BY <4>1 DEF Payload
      <3> QED BY <3>2, <3>3 DEF Deliveries
    <2>3. got'[Len(got')] = Frame(f)
      <3> DEFINE m == Frame(f)
      <3>1. m \in Deliveries /\ got' = Append(got, m)
        BY <1>1, <2>2
      <3> HIDE DEF m
      <3>2. got'[Len(got')] = m
        BY <1>0, <3>1
      <3> QED BY <3>2 DEF m
    <2>4. f \in 1..Len(sent') /\ got'[Len(got')] = sent'[f] /\ sent'[f] = Frame(f)
      <3>1. Len(sent) \in Nat
        BY DEF TypeOK, DaemonType
      <3>2. f \in 1..Len(sent)
        BY <1>1, <3>1
      <3> QED BY <1>0, <1>1, <2>3, <3>2
    <2>5. \A i \in p'..Len(Stream'), g \in 1..MaxFrames : DrawAt(i, g)' => f < g
      BY <2>1
    <2> QED BY <2>4, <2>5 DEF GotInv
  <1> QED BY <1>3, <1>4, <1>5 DEF FrameInv

(* What is taken for the answer is the answer, and it was sent.            *)
LEMMA AnswerFound ==
  ASSUME TypeOK, FrameInv, ScanResponse
  PROVE  AnswerSent
  <1>0. /\ buf \in Seq(Tokens) /\ Len(buf) \in Nat /\ p \in 1..Len(buf) + 1 /\ p \in Nat
        /\ pc = "scan" /\ Parsed = "response"
    BY DEF TypeOK, ClientType, ScanResponse, Scanning
  <1>1. nl \in p..Len(buf) /\ buf[nl] = NL
    BY <1>0, FirstNewline DEF ScanResponse, Scanning
  <1>2. nl \in Nat /\ p \in 1..Len(buf)
    BY <1>0, <1>1
  <1>3. buf[p] = Line("response", 0)
    <2>1. buf[p].t = "line" /\ buf[p].type = "response" /\ buf[p] \in Tokens
      BY <1>0, <1>2 DEF Parsed
    <2> QED BY <2>1, TokenFacts DEF Tokens
  <1>4. /\ Len(Stream) \in Nat /\ Arrived \in Nat
        /\ Len(buf) <= Arrived /\ Arrived <= Len(Stream)
        /\ \A i \in 1..Len(buf) : Stream[i] = buf[i]
    BY StreamFacts DEF StreamShape
  <1>5. ResponseAt(p) /\ p \in p..Len(Stream)
    BY <1>0, <1>2, <1>3, <1>4 DEF ResponseAt, Start
  <1>6. nl # p
    BY <1>1, <1>3, TokenFacts
  <1>7. p + 1 <= Arrived
    BY <1>0, <1>1, <1>2, <1>4, <1>6
  <1>8. ResponseInv
    BY <1>0 DEF FrameInv
  <1> QED BY <1>5, <1>7, <1>8 DEF ResponseInv

LEMMA ScanResponseFrame ==
  ASSUME TypeOK, SentInv', FrameInv, ScanResponse
  PROVE  FrameInv'
  <1>0. /\ buf \in Seq(Tokens) /\ Len(buf) \in Nat /\ p \in 1..Len(buf) + 1 /\ p \in Nat
        /\ pc' = "done" /\ p' = p /\ got \in Seq(Deliveries) /\ UNCHANGED sent
        /\ sent \in Seq(Messages) /\ got' = Append(got, Response)
    BY DEF TypeOK, ClientType, DaemonType, ScanResponse, Exit, daemon
  <1>1. nl \in p..Len(buf)
    BY <1>0, FirstNewline DEF ScanResponse, Scanning
  <1>2. PassedInv'
    <2>1. nl + 1 \in p..Len(buf) + 1
      BY <1>0, <1>1
    <2>2. buf' = SubSeq(buf, 1, p - 1) \o SubSeq(buf, nl + 1, Len(buf)) /\ PassedInv
      BY DEF ScanResponse, FrameInv
    <2> QED BY <1>0, <2>1, <2>2, CutPassed
  <1>3. GotInv'
    <2>1. sent # <<>> /\ Last(sent) = Response
      BY AnswerFound DEF AnswerSent
    <2>2. Len(sent) \in 1..Len(sent) /\ sent[Len(sent)] = Response
      BY <1>0, <2>1 DEF Last
    <2>3. got'[Len(got')] = Response
      <3>1. Response \in Deliveries
        BY DEF Response, Deliveries
      <3> QED BY <1>0, <3>1
    <2> QED BY <1>0, <2>2, <2>3 DEF GotInv
  <1> QED BY <1>0, <1>2, <1>3 DEF FrameInv

-----------------------------------------------------------------------------
(* The daemon makes the stream longer.                                     *)

LEMMA DrawChunk ==
  ASSUME NEW f \in 1..MaxFrames, NEW s \in BOOLEAN
  PROVE  \E h \in {0, 2} :
           /\ s = FALSE => h = 0
           /\ Len(sock_draw(f, s)) = h + 6
           /\ \A k \in 1..h : sock_draw(f, s)[k] \in {Line("other", f), NL}
           /\ sock_draw(f, s)[h + 1] = Line("draw", f)
           /\ Intact(sock_draw(f, s), h + 1, f)
  <1> DEFINE o == <<Line("other", f), NL>>
             d == <<Line("draw", f), NL>>
             head == (IF s THEN o ELSE <<>>) \o d
             t == <<NL>>
             c == head \o Payload(f) \o t
  <1>1. Line("draw", f) \in Tokens /\ Line("other", f) \in Tokens /\ Byte(f) \in Tokens /\ NL \in Tokens
    BY DEF Tokens
  <1>2. /\ Payload(f) \in Seq(Tokens) /\ Len(Payload(f)) = 3
        /\ Payload(f)[1] = Byte(f) /\ Payload(f)[2] = NL /\ Payload(f)[3] = Byte(f)
        /\ t \in Seq(Tokens) /\ Len(t) = 1 /\ t[1] = NL
    BY <1>1 DEF Payload
  <1>3. PICK h \in {0, 2} :
          /\ s = FALSE => h = 0
          /\ head \in Seq(Tokens) /\ Len(head) = h + 2
          /\ \A k \in 1..h : head[k] \in {Line("other", f), NL}
          /\ head[h + 1] = Line("draw", f) /\ head[h + 2] = NL
    <2>1. /\ o \in Seq(Tokens) /\ Len(o) = 2 /\ o[1] = Line("other", f) /\ o[2] = NL
          /\ d \in Seq(Tokens) /\ Len(d) = 2 /\ d[1] = Line("draw", f) /\ d[2] = NL
      BY <1>1
    <2> HIDE DEF o, d
    <2>2. CASE s
      <3>1. /\ o \o d \in Seq(Tokens) /\ Len(o \o d) = Len(o) + Len(d)
            /\ \A k \in 1..Len(o) : (o \o d)[k] = o[k]
            /\ \A k \in Len(o) + 1..Len(o) + Len(d) : (o \o d)[k] = d[k - Len(o)]
        <4>1. o \in Seq(Tokens) /\ d \in Seq(Tokens)
          BY <2>1
        <4> QED BY <4>1, Concat
      <3>2. head = o \o d
        BY <2>2
      <3> HIDE DEF head
      <3>3. /\ Len(head) = 4 /\ head[1] = o[1] /\ head[2] = o[2]
            /\ head[3] = d[3 - 2] /\ head[4] = d[4 - 2]
        BY <2>1, <3>1, <3>2
      <3>4. \A k \in 1..2 : k = 1 \/ k = 2
        OBVIOUS
      <3>5. /\ head \in Seq(Tokens) /\ Len(head) = 2 + 2
            /\ \A k \in 1..2 : head[k] \in {Line("other", f), NL}
            /\ head[2 + 1] = Line("draw", f) /\ head[2 + 2] = NL
        BY <2>1, <3>1, <3>2, <3>3, <3>4
      <3>6. s # FALSE /\ 2 \in {0, 2}
        BY <2>2
      <3> QED BY <3>5, <3>6
    <2>3. CASE ~s
      <3>1. head = <<>> \o d
        BY <2>3
      <3>2. <<>> \o d = d
        <4>1. d \in Seq(Tokens)
          BY <2>1
        <4> QED BY <4>1
      <3> HIDE DEF head
      <3> QED BY <2>1, <3>1, <3>2
    <2> QED BY <2>2, <2>3
  <1> HIDE DEF head, t
  <1>4. /\ Len(c) = Len(head) + Len(Payload(f)) + Len(t)
        /\ \A i \in 1..Len(head) : c[i] = head[i]
        /\ \A i \in Len(head) + 1..Len(head) + Len(Payload(f)) : c[i] = Payload(f)[i - Len(head)]
        /\ \A i \in Len(head) + Len(Payload(f)) + 1..Len(head) + Len(Payload(f)) + Len(t) :
             c[i] = t[i - (Len(head) + Len(Payload(f)))]
    <2>1. head \in Seq(Tokens) /\ Payload(f) \in Seq(Tokens) /\ t \in Seq(Tokens)
      BY <1>2, <1>3
    <2> HIDE DEF c
    <2> QED BY <2>1, ThreeParts DEF c
  <1>5. c = sock_draw(f, s)
    BY DEF sock_draw, head, t
  <1> HIDE DEF c
  <1>6. /\ Len(c) = h + 6
        /\ \A k \in 1..h : c[k] = head[k]
        /\ c[h + 1] = head[h + 1] /\ c[h + 2] = head[h + 2]
        /\ c[h + 3] = Payload(f)[1] /\ c[h + 4] = Payload(f)[2] /\ c[h + 5] = Payload(f)[3]
        /\ c[h + 6] = t[1]
    <2>1. Len(head) = h + 2 /\ Len(Payload(f)) = 3 /\ Len(t) = 1
      BY <1>2, <1>3
    <2>2. CASE h = 0
      BY <1>4, <2>1, <2>2
    <2>3. CASE h = 2
      BY <1>4, <2>1, <2>3
    <2> QED BY <2>2, <2>3
  <1>7. /\ \A k \in 1..h : c[k] \in {Line("other", f), NL}
        /\ c[h + 1] = Line("draw", f) /\ c[h + 2] = NL
        /\ c[h + 3] = Byte(f) /\ c[h + 4] = NL /\ c[h + 5] = Byte(f) /\ c[h + 6] = NL
    BY <1>2, <1>3, <1>6
  <1>8. Intact(c, h + 1, f)
    <2>1. /\ (h + 1) + 1 = h + 2 /\ (h + 1) + 2 = h + 3 /\ (h + 1) + 3 = h + 4
          /\ (h + 1) + 4 = h + 5 /\ (h + 1) + 5 = h + 6
      OBVIOUS
    <2> QED BY <1>7, <2>1 DEF Intact
  <1> QED BY <1>3, <1>5, <1>6, <1>7, <1>8

LEMMA Assoc ==
  ASSUME NEW S, NEW a \in Seq(S), NEW b \in Seq(S), NEW c \in Seq(S)
  PROVE  a \o b \o c = a \o (b \o c)
  OBVIOUS

(* A new message is begun when the last one is written.                    *)
LEMMA Grown ==
  ASSUME TypeOK, TypeOK', DrawInv, ResponseInv, out = <<>>, UNCHANGED <<buf, wire, p>>,
         serving \in {"draw", "key", "answer"}
  PROVE  /\ Len(Stream') = Len(Stream) + Len(out') /\ Arrived' = Arrived /\ Len(Stream) = Arrived
         /\ \A i \in 1..Len(Stream) : Stream'[i] = Stream[i]
         /\ \A k \in 1..Len(out') : Stream'[Arrived + k] = out'[k]
         /\ \A i \in p..Len(Stream), f \in 1..MaxFrames : DrawAt(i, f)' =>
              /\ DrawAt(i, f) /\ f <= frames /\ f <= Len(sent) /\ sent[f] = Frame(f)
              /\ i + 5 <= Arrived
              /\ Intact(Stream', i, f)
         /\ \A i \in p..Len(Stream) : ~ResponseAt(i)'
  <1>1. /\ Len(buf) \in Nat /\ Len(wire) \in Nat /\ p \in Nat /\ p > 0
        /\ Arrived \in Nat /\ Arrived = Len(buf) + Len(wire)
        /\ Len(Stream) \in Nat /\ Len(Stream) = Arrived
        /\ \A i \in 1..Len(buf) : Stream[i] = buf[i]
        /\ \A i \in Len(buf) + 1..Arrived : Stream[i] = wire[i - Len(buf)]
    BY StreamFacts DEF StreamShape
  <1>2. /\ Arrived' = Arrived
        /\ Len(Stream') \in Nat /\ Len(out') \in Nat /\ Len(Stream') = Arrived + Len(out')
        /\ \A i \in 1..Len(buf) : Stream'[i] = buf[i]
        /\ \A i \in Len(buf) + 1..Arrived : Stream'[i] = wire[i - Len(buf)]
        /\ \A i \in Arrived + 1..Len(Stream') : Stream'[i] = out'[i - Arrived]
    <2>1. Arrived' = Arrived
      BY DEF Arrived
    <2> QED BY <2>1, NextStreamFacts DEF StreamShape
  <1>3. \A i \in 1..Len(Stream) : Stream'[i] = Stream[i]
    <2> TAKE i \in 1..Len(Stream)
    <2>1. i \in 1..Len(buf) \/ i \in Len(buf) + 1..Arrived
      BY <1>1
    <2> QED BY <1>1, <1>2, <2>1
  <1>4. ASSUME NEW k \in 1..Len(out')
        PROVE  Stream'[Arrived + k] = out'[k]
    <2>1. Arrived + k \in Arrived + 1..Len(Stream') /\ (Arrived + k) - Arrived = k
      BY <1>1, <1>2
    <2> QED BY <1>2, <2>1
  <1>5. ASSUME NEW i \in p..Len(Stream), Start(i)'
        PROVE  Start(i)
    <2>1. i = p \/ (i > p /\ Stream'[i - 1] = NL)
      BY <1>1, <1>5 DEF Start
    <2>2. i > p => i - 1 \in 1..Len(Stream)
      BY <1>1
    <2> QED BY <1>3, <2>1, <2>2 DEF Start
  <1>6. ASSUME NEW i \in p..Len(Stream), NEW f \in 1..MaxFrames, DrawAt(i, f)'
        PROVE  /\ DrawAt(i, f) /\ f <= frames /\ f <= Len(sent) /\ sent[f] = Frame(f)
               /\ i + 5 <= Arrived
               /\ Intact(Stream', i, f)
    <2>0. i \in Nat /\ i \in 1..Len(Stream) /\ i > 0
      BY <1>1
    <2>1. DrawAt(i, f)
      BY <1>3, <1>5, <1>6, <2>0 DEF DrawAt
    <2>2. /\ f <= frames
          /\ Intact(Stream, i, f)
          /\ i + 5 <= Arrived => f <= Len(sent) /\ sent[f] = Frame(f)
          /\ ~(i + 5 > Arrived)
      BY <2>1 DEF DrawInv
    <2>3. i + 5 <= Arrived
      BY <1>1, <2>0, <2>2
    <2>4. /\ i + 1 \in 1..Len(Stream) /\ i + 2 \in 1..Len(Stream) /\ i + 3 \in 1..Len(Stream)
          /\ i + 4 \in 1..Len(Stream) /\ i + 5 \in 1..Len(Stream)
      BY <1>1, <2>0, <2>3
    <2>5. /\ i + 1 <= Len(Stream) /\ i + 2 <= Len(Stream) /\ i + 3 <= Len(Stream)
          /\ i + 4 <= Len(Stream) /\ i + 5 <= Len(Stream)
      BY <1>1, <2>4
    <2>6. Intact(Stream', i, f)
      BY <1>3, <2>2, <2>4, <2>5 DEF Intact
    <2> QED BY <2>1, <2>2, <2>3, <2>6
  <1>7. ASSUME NEW i \in p..Len(Stream), ResponseAt(i)'
        PROVE  FALSE
    <2>0. i \in 1..Len(Stream)
      BY <1>1
    <2>1. ResponseAt(i)
      BY <1>3, <1>5, <1>7, <2>0 DEF ResponseAt
    <2> QED BY <2>1 DEF ResponseInv
  <1> QED BY <1>1, <1>2, <1>3, <1>4, <1>6, <1>7

(* A frame is one header with what belongs to it, at the end.              *)
LEMMA DrawsNew ==
  ASSUME TypeOK, TypeOK', SentInv, FrameInv, pc # "done",
         NEW s \in Streaming, DaemonDraws(s)
  PROVE  \E h \in {0, 2} :
           /\ s = FALSE => h = 0
           /\ Len(Stream') = Arrived + (h + 6)
           /\ Stream'[Arrived + (h + 1)] = Line("draw", frames')
           /\ Intact(Stream', Arrived + (h + 1), frames')
           /\ \A i \in p'..Len(Stream'), f \in 1..MaxFrames :
                DrawAt(i, f)' /\ i > Len(Stream) => i = Arrived + (h + 1) /\ f = frames'
           /\ \A i \in p'..Len(Stream') : ~ResponseAt(i)'
  <1>0. /\ serving \in {"draw", "key"} /\ out = <<>> /\ frames' = frames + 1
        /\ serving' = "key" /\ UNCHANGED <<sent, pc, buf, wire, p, got>>
        /\ out' = sock_draw(frames', s)
    BY DEF DaemonDraws, scan
  <1>1. /\ frames' \in 1..MaxFrames /\ s \in BOOLEAN /\ frames \in Nat
        /\ frames = Len(sent) /\ Len(sent) \in Nat
    BY <1>0, ClientAssumption DEF DaemonDraws, TypeOK, DaemonType, SentInv
  <1>2. DrawInv /\ ResponseInv /\ OrderInv
    BY DEF FrameInv
  <1>3. /\ Len(Stream') = Len(Stream) + Len(out') /\ Arrived' = Arrived /\ Len(Stream) = Arrived
        /\ \A k \in 1..Len(out') : Stream'[Arrived + k] = out'[k]
        /\ \A i \in p..Len(Stream), f \in 1..MaxFrames : DrawAt(i, f)' =>
             /\ DrawAt(i, f) /\ f <= frames /\ f <= Len(sent) /\ sent[f] = Frame(f)
             /\ i + 5 <= Arrived
             /\ Intact(Stream', i, f)
        /\ \A i \in p..Len(Stream) : ~ResponseAt(i)'
    BY <1>0, <1>2, Grown
  <1>4. PICK h \in {0, 2} :
          /\ s = FALSE => h = 0
          /\ Len(out') = h + 6
          /\ \A k \in 1..h : out'[k] \in {Line("other", frames'), NL}
          /\ out'[h + 1] = Line("draw", frames')
          /\ Intact(out', h + 1, frames')
    BY <1>0, <1>1, DrawChunk
  <1>5. Arrived \in Nat /\ p \in Nat /\ p > 0 /\ p' = p /\ Len(Stream') \in Nat
    BY <1>0, StreamFacts, NextStreamFacts DEF StreamShape
  <1>6. /\ out'[h + 2] = NL /\ out'[h + 3] = Byte(frames') /\ out'[h + 4] = NL
        /\ out'[h + 5] = Byte(frames') /\ out'[h + 6] = NL
    <2>1. /\ (h + 1) + 1 = h + 2 /\ (h + 1) + 2 = h + 3 /\ (h + 1) + 3 = h + 4
          /\ (h + 1) + 4 = h + 5 /\ (h + 1) + 5 = h + 6
      OBVIOUS
    <2>2. /\ h + 2 <= Len(out') /\ h + 3 <= Len(out') /\ h + 4 <= Len(out')
          /\ h + 5 <= Len(out') /\ h + 6 <= Len(out')
      BY <1>4
    <2> QED BY <1>4, <2>1, <2>2 DEF Intact
  <1>7. ASSUME NEW i \in p'..Len(Stream'), i > Len(Stream), Stream'[i].t = "line",
               Stream'[i].type # "other"
        PROVE  i = Arrived + (h + 1) /\ Stream'[i] = Line("draw", frames')
    <2> DEFINE k == i - Arrived
    <2>1. k \in 1..Len(out') /\ Arrived + k = i
      BY <1>3, <1>5, <1>4, <1>7
    <2> HIDE DEF k
    <2>2. Stream'[i] = out'[k]
      BY <1>3, <2>1
    <2>3. k \in 1..h \/ k = h + 1 \/ k = h + 2 \/ k = h + 3 \/ k = h + 4 \/ k = h + 5 \/ k = h + 6
      BY <1>4, <2>1
    <2>4. ~(k \in 1..h)
      BY <1>4, <1>7, <2>2, TokenFacts
    <2>5. k = h + 1
      <3>1. out'[k].t = "line"
        BY <1>7, <2>2
      <3>2. NL.t # "line" /\ Byte(frames').t # "line"
        BY TokenFacts
      <3> QED BY <1>6, <2>3, <2>4, <3>1, <3>2
    <2> QED BY <1>4, <2>1, <2>2, <2>5
  <1>8. ASSUME NEW i \in p'..Len(Stream'), NEW f \in 1..MaxFrames, DrawAt(i, f)', i > Len(Stream)
        PROVE  i = Arrived + (h + 1) /\ f = frames'
    <2>1. Stream'[i] = Line("draw", f) /\ Stream'[i].t = "line" /\ Stream'[i].type # "other"
      BY <1>8, TokenFacts DEF DrawAt
    <2>2. i = Arrived + (h + 1) /\ Line("draw", f) = Line("draw", frames')
      BY <1>7, <1>8, <2>1
    <2> QED BY <2>2, TokenFacts
  <1>9. ASSUME NEW i \in p'..Len(Stream'), ResponseAt(i)'
        PROVE  FALSE
    <2>1. Stream'[i] = Line("response", 0) /\ Stream'[i].t = "line" /\ Stream'[i].type = "response"
      BY <1>9, TokenFacts DEF ResponseAt
    <2>2. CASE i > Len(Stream)
      BY <1>7, <2>1, <2>2, TokenFacts
    <2>3. CASE ~(i > Len(Stream))
      <3>1. i \in p..Len(Stream)
        BY <1>3, <1>5, <2>3
      <3> QED BY <1>3, <1>9, <3>1
    <2> QED BY <2>2, <2>3
  <1>10. Intact(Stream', Arrived + (h + 1), frames')
    <2>1. /\ (Arrived + (h + 1)) + 1 = Arrived + (h + 2) /\ (Arrived + (h + 1)) + 2 = Arrived + (h + 3)
          /\ (Arrived + (h + 1)) + 3 = Arrived + (h + 4) /\ (Arrived + (h + 1)) + 4 = Arrived + (h + 5)
          /\ (Arrived + (h + 1)) + 5 = Arrived + (h + 6)
      BY <1>5
    <2>2. /\ h + 2 \in 1..Len(out') /\ h + 3 \in 1..Len(out') /\ h + 4 \in 1..Len(out')
          /\ h + 5 \in 1..Len(out') /\ h + 6 \in 1..Len(out')
      BY <1>4
    <2>3. /\ Stream'[Arrived + (h + 2)] = NL /\ Stream'[Arrived + (h + 3)] = Byte(frames')
          /\ Stream'[Arrived + (h + 4)] = NL /\ Stream'[Arrived + (h + 5)] = Byte(frames')
          /\ Stream'[Arrived + (h + 6)] = NL
      BY <1>3, <1>6, <2>2
    <2> QED BY <2>1, <2>3 DEF Intact
  <1>11. Len(Stream') = Arrived + (h + 6) /\ Stream'[Arrived + (h + 1)] = Line("draw", frames')
    <2>1. h + 1 \in 1..Len(out')
      BY <1>4
    <2> QED BY <1>3, <1>4, <2>1
  <1> QED BY <1>4, <1>8, <1>9, <1>10, <1>11

LEMMA DrawsFrame ==
  ASSUME TypeOK, TypeOK', SentInv, SentInv', FrameInv, pc # "done",
         NEW s \in Streaming, DaemonDraws(s)
  PROVE  FrameInv'
  <1>0. /\ serving \in {"draw", "key"} /\ out = <<>> /\ frames' = frames + 1
        /\ serving' = "key" /\ UNCHANGED <<sent, pc, buf, wire, p, got>>
        /\ out' = sock_draw(frames', s)
    BY DEF DaemonDraws, scan
  <1>1. /\ frames' \in 1..MaxFrames /\ s \in BOOLEAN /\ frames \in Nat
        /\ frames = Len(sent) /\ Len(sent) \in Nat
    BY <1>0, ClientAssumption DEF DaemonDraws, TypeOK, DaemonType, SentInv
  <1>2. DrawInv /\ ResponseInv /\ OrderInv
    BY DEF FrameInv
  <1>3. /\ Len(Stream') = Len(Stream) + Len(out') /\ Arrived' = Arrived /\ Len(Stream) = Arrived
        /\ \A k \in 1..Len(out') : Stream'[Arrived + k] = out'[k]
        /\ \A i \in p..Len(Stream), f \in 1..MaxFrames : DrawAt(i, f)' =>
             /\ DrawAt(i, f) /\ f <= frames /\ f <= Len(sent) /\ sent[f] = Frame(f)
             /\ i + 5 <= Arrived
             /\ Intact(Stream', i, f)
        /\ \A i \in p..Len(Stream) : ~ResponseAt(i)'
    BY <1>0, <1>2, Grown
  <1>4. PICK h \in {0, 2} :
          /\ Len(Stream') = Arrived + (h + 6)
          /\ Intact(Stream', Arrived + (h + 1), frames')
          /\ \A i \in p'..Len(Stream'), f \in 1..MaxFrames :
               DrawAt(i, f)' /\ i > Len(Stream) => i = Arrived + (h + 1) /\ f = frames'
          /\ \A i \in p'..Len(Stream') : ~ResponseAt(i)'
    BY DrawsNew
  <1>5. Arrived \in Nat /\ p \in Nat /\ p > 0 /\ p' = p /\ Len(Stream') \in Nat
    BY <1>0, StreamFacts, NextStreamFacts DEF StreamShape
  <1>6. DrawInv'
    <2> SUFFICES ASSUME NEW i \in p'..Len(Stream'), NEW f \in 1..MaxFrames, DrawAt(i, f)'
                 PROVE  /\ f <= frames'
                        /\ Intact(Stream', i, f)
                        /\ i + 5 <= Arrived' => f <= Len(sent') /\ sent'[f] = Frame(f)
                        /\ i + 5 > Arrived' /\ out' # <<>> =>
                             i + 5 = Len(Stream') /\ f = frames' /\ serving' = "key"
                        /\ i + 5 > Arrived' /\ out' = <<>> => serving' = "closed"
      BY DEF DrawInv
    <2>1. CASE i > Len(Stream)
      <3>1. i = Arrived + (h + 1) /\ f = frames'
        BY <1>4, <2>1
      <3>2. i + 5 = Len(Stream') /\ i + 5 > Arrived' /\ ~(i + 5 <= Arrived')
        BY <1>3, <1>4, <1>5, <3>1
      <3>3. out' # <<>> /\ f <= frames'
        BY <1>0, <1>1, <3>1, ChunkType
      <3> QED BY <1>0, <1>4, <3>1, <3>2, <3>3
    <2>2. CASE ~(i > Len(Stream))
      <3>1. i \in p..Len(Stream) /\ i \in Nat
        BY <1>3, <1>5, <2>2
      <3>2. /\ f <= frames /\ f <= Len(sent) /\ sent[f] = Frame(f)
            /\ i + 5 <= Arrived
            /\ Intact(Stream', i, f)
        BY <1>3, <3>1
      <3>3. f <= frames' /\ ~(i + 5 > Arrived')
        BY <1>0, <1>1, <1>3, <1>5, <3>1, <3>2
      <3> QED BY <1>0, <3>2, <3>3
    <2> QED BY <2>1, <2>2
  <1>7. ResponseInv'
    BY <1>4 DEF ResponseInv
  <1>8. OrderInv'
    <2> SUFFICES ASSUME NEW i \in p'..Len(Stream'), NEW j \in p'..Len(Stream'),
                        NEW f \in 1..MaxFrames, NEW g \in 1..MaxFrames,
                        DrawAt(i, f)', DrawAt(j, g)', i < j
                 PROVE  f < g
      BY DEF OrderInv
    <2>0. i \in Nat /\ j \in Nat
      BY <1>5
    <2>1. CASE i > Len(Stream)
      <3>1. j > Len(Stream)
        BY <1>3, <1>5, <2>0, <2>1
      <3>2. i = Arrived + (h + 1) /\ j = Arrived + (h + 1)
        BY <1>4, <2>1, <3>1
      <3> QED BY <2>0, <3>2
    <2>2. CASE ~(i > Len(Stream)) /\ j > Len(Stream)
      <3>1. i \in p..Len(Stream)
        BY <1>3, <1>5, <2>2
      <3>2. f <= frames /\ g = frames'
        BY <1>3, <1>4, <2>2, <3>1
      <3> QED BY <1>0, <1>1, <3>2
    <2>3. CASE ~(i > Len(Stream)) /\ ~(j > Len(Stream))
      <3>1. i \in p..Len(Stream) /\ j \in p..Len(Stream)
        BY <1>3, <1>5, <2>3
      <3>2. DrawAt(i, f) /\ DrawAt(j, g)
        BY <1>3, <3>1
      <3> QED BY <1>2, <3>1, <3>2 DEF OrderInv
    <2> QED BY <2>1, <2>2, <2>3
  <1>9. GotInv'
    <2> SUFFICES ASSUME got # <<>>
                 PROVE  \E g \in 1..Len(sent) :
                          /\ got[Len(got)] = sent[g]
                          /\ sent[g] = Frame(g)
                          /\ \A i \in p'..Len(Stream'), f \in 1..MaxFrames : DrawAt(i, f)' => g < f
      BY <1>0 DEF GotInv
    <2>1. PICK g \in 1..Len(sent) :
            /\ got[Len(got)] = sent[g]
            /\ sent[g] = Frame(g)
            /\ \A i \in p..Len(Stream), f \in 1..MaxFrames : DrawAt(i, f) => g < f
      BY DEF FrameInv, GotInv
    <2>2. ASSUME NEW i \in p'..Len(Stream'), NEW f \in 1..MaxFrames, DrawAt(i, f)'
          PROVE  g < f
      <3>1. CASE i > Len(Stream)
        BY <1>0, <1>1, <1>4, <2>2, <3>1
      <3>2. CASE ~(i > Len(Stream))
        <4>1. i \in p..Len(Stream)
          BY <1>3, <1>5, <3>2
        <4>2. DrawAt(i, f)
          BY <1>3, <2>2, <4>1
        <4> QED BY <2>1, <4>1, <4>2
      <3> QED BY <3>1, <3>2
    <2> QED BY <2>1, <2>2
  <1>10. PassedInv'
    BY <1>0 DEF FrameInv, PassedInv
  <1> QED BY <1>6, <1>7, <1>8, <1>9, <1>10 DEF FrameInv

LEMMA AnswersFrame ==
  ASSUME TypeOK, TypeOK', SentInv, SentInv', FrameInv, pc # "done",
         NEW m \in MessagePack, DaemonAnswers(m)
  PROVE  FrameInv'
  <1>0. /\ serving \in {"answer", "key"} /\ out = <<>>
        /\ serving' = "close" /\ UNCHANGED <<sent, pc, buf, wire, p, got, frames>>
        /\ out' = <<Packed>> \/ out' = <<Line("response", 0), NL>>
    BY DEF DaemonAnswers, scan, send_response_msgpack
  <1>2. DrawInv /\ ResponseInv /\ OrderInv
    BY DEF FrameInv
  <1>3. /\ Len(Stream') = Len(Stream) + Len(out') /\ Arrived' = Arrived /\ Len(Stream) = Arrived
        /\ \A k \in 1..Len(out') : Stream'[Arrived + k] = out'[k]
        /\ \A i \in p..Len(Stream), f \in 1..MaxFrames : DrawAt(i, f)' =>
             /\ DrawAt(i, f) /\ f <= frames /\ f <= Len(sent) /\ sent[f] = Frame(f)
             /\ i + 5 <= Arrived
             /\ Intact(Stream', i, f)
        /\ \A i \in p..Len(Stream) : ~ResponseAt(i)'
    BY <1>0, <1>2, Grown
  <1>4. /\ out' # <<>>
        /\ \/ Len(out') = 1 /\ out'[1] = Packed
           \/ Len(out') = 2 /\ out'[1] = Line("response", 0) /\ out'[2] = NL
    BY <1>0
  <1>5. Arrived \in Nat /\ p \in Nat /\ p > 0 /\ p' = p /\ Len(Stream') \in Nat
    BY <1>0, StreamFacts, NextStreamFacts DEF StreamShape
  <1>6. \/ Len(Stream') = Arrived + 1 /\ Stream'[Arrived + 1] = Packed
        \/ /\ Stream'[Arrived + 1] = Line("response", 0) /\ Stream'[Arrived + 2] = NL
           /\ Len(Stream') = Arrived + 2
    <2>1. CASE Len(out') = 1 /\ out'[1] = Packed
      <3>1. 1 \in 1..Len(out')
        BY <2>1
      <3> QED BY <1>3, <2>1, <3>1
    <2>2. CASE Len(out') = 2 /\ out'[1] = Line("response", 0) /\ out'[2] = NL
      <3>1. 1 \in 1..Len(out') /\ 2 \in 1..Len(out')
        BY <2>2
      <3> QED BY <1>3, <2>2, <3>1
    <2> QED BY <1>4, <2>1, <2>2
  <1>7. ASSUME NEW i \in p'..Len(Stream'), NEW f \in 1..MaxFrames, DrawAt(i, f)'
        PROVE  i \in p..Len(Stream) /\ i \in Nat
    <2>1. Stream'[i] = Line("draw", f)
      BY <1>7 DEF DrawAt
    <2>2. i # Arrived + 1 /\ (Len(Stream') = Arrived + 2 => i # Arrived + 2)
      BY <1>5, <1>6, <2>1, TokenFacts
    <2> QED BY <1>3, <1>5, <1>6, <2>2
  <1>8. DrawInv'
    <2> SUFFICES ASSUME NEW i \in p'..Len(Stream'), NEW f \in 1..MaxFrames, DrawAt(i, f)'
                 PROVE  /\ f <= frames'
                        /\ Intact(Stream', i, f)
                        /\ i + 5 <= Arrived' => f <= Len(sent') /\ sent'[f] = Frame(f)
                        /\ ~(i + 5 > Arrived')
      BY DEF DrawInv
    <2>1. i \in p..Len(Stream) /\ i \in Nat
      BY <1>7
    <2>2. /\ f <= frames /\ f <= Len(sent) /\ sent[f] = Frame(f)
          /\ i + 5 <= Arrived
          /\ Intact(Stream', i, f)
      BY <1>3, <2>1
    <2>3. ~(i + 5 > Arrived')
      BY <1>3, <1>5, <2>1, <2>2
    <2> QED BY <1>0, <2>2, <2>3
  <1>9. ResponseInv'
    <2> SUFFICES ASSUME NEW i \in p'..Len(Stream'), ResponseAt(i)'
                 PROVE  /\ serving' \in {"close", "closed"}
                        /\ i + 1 >= Len(Stream')
                        /\ i + 1 <= Len(Stream') => Stream'[i + 1] = NL
                        /\ ~(i + 1 <= Arrived')
      BY DEF ResponseInv
    <2>1. ~(i \in p..Len(Stream))
      BY <1>3
    <2>2. i \in Nat /\ i >= Arrived + 1
      BY <1>3, <1>5, <2>1
    <2>3. ~(Len(Stream') = Arrived + 1 /\ Stream'[Arrived + 1] = Packed)
      <3>1. Stream'[i] = Line("response", 0)
        BY DEF ResponseAt
      <3> QED BY <1>5, <2>2, <3>1, TokenFacts
    <2>4. i + 1 >= Len(Stream') /\ ~(i + 1 <= Arrived') /\ (i + 1 <= Len(Stream') => i + 1 = Arrived + 2)
      BY <1>3, <1>5, <1>6, <2>2, <2>3
    <2> QED BY <1>0, <1>6, <2>3, <2>4
  <1>10. OrderInv'
    <2> SUFFICES ASSUME NEW i \in p'..Len(Stream'), NEW j \in p'..Len(Stream'),
                        NEW f \in 1..MaxFrames, NEW g \in 1..MaxFrames,
                        DrawAt(i, f)', DrawAt(j, g)', i < j
                 PROVE  f < g
      BY DEF OrderInv
    <2>1. i \in p..Len(Stream) /\ j \in p..Len(Stream)
      BY <1>7
    <2>2. DrawAt(i, f) /\ DrawAt(j, g)
      BY <1>3, <2>1
    <2> QED BY <1>2, <2>1, <2>2 DEF OrderInv
  <1>11. GotInv'
    <2> SUFFICES ASSUME got # <<>>
                 PROVE  \E g \in 1..Len(sent) :
                          /\ got[Len(got)] = sent[g]
                          /\ sent[g] = Frame(g)
                          /\ \A i \in p'..Len(Stream'), f \in 1..MaxFrames : DrawAt(i, f)' => g < f
      BY <1>0 DEF GotInv
    <2>1. PICK g \in 1..Len(sent) :
            /\ got[Len(got)] = sent[g]
            /\ sent[g] = Frame(g)
            /\ \A i \in p..Len(Stream), f \in 1..MaxFrames : DrawAt(i, f) => g < f
      BY DEF FrameInv, GotInv
    <2> QED BY <1>3, <1>7, <2>1
  <1>12. PassedInv'
    BY <1>0 DEF FrameInv, PassedInv
  <1> QED BY <1>8, <1>9, <1>10, <1>11, <1>12 DEF FrameInv

(* Writing moves the border between what has arrived and what has not.     *)
LEMMA WritesStream ==
  ASSUME TypeOK, DaemonWrites
  PROVE  /\ Stream' = Stream /\ p' = p /\ out # <<>> /\ UNCHANGED <<serving, frames, buf, got, pc>>
         /\ Arrived' \in Arrived + 1..Len(Stream)
         /\ (out' = <<>> <=> Arrived' = Len(Stream))
         /\ \A i : Start(i)' <=> Start(i)
         /\ \A i, f : DrawAt(i, f)' <=> DrawAt(i, f)
         /\ \A i : ResponseAt(i)' <=> ResponseAt(i)
  <1>0. /\ buf \in Seq(Tokens) /\ wire \in Seq(Tokens) /\ out \in Seq(Tokens)
        /\ Len(buf) \in Nat /\ Len(wire) \in Nat /\ Len(out) \in Nat
        /\ Arrived = Len(buf) + Len(wire) /\ Len(Stream) = Arrived + Len(out)
    BY StreamFacts DEF TypeOK, ClientType, DaemonType, StreamShape
  <1>1. out # <<>> /\ UNCHANGED <<serving, frames, buf, p, got, pc>>
    BY DEF DaemonWrites, scan
  <1>2. PICK n \in 1..Len(out) :
          wire' = wire \o SubSeq(out, 1, n) /\ out' = SubSeq(out, n + 1, Len(out))
    BY DEF DaemonWrites
  <1> DEFINE u == SubSeq(out, 1, n)
             v == SubSeq(out, n + 1, Len(out))
             wu == wire \o u
  <1>3. u \in Seq(Tokens) /\ Len(u) = n
    BY <1>0
  <1>4. v \in Seq(Tokens) /\ Len(v) = Len(out) - n
    BY <1>0
  <1>5. wu \o v = wire \o out
    <2>1. n \in 0..Len(out)
      BY <1>0
    <2> QED BY <1>0, <2>1, Moved
  <1>6. wire' = wu /\ out' = v
    BY <1>2
  <1> HIDE DEF u, v
  <1>7. wu \in Seq(Tokens) /\ Len(wu) = Len(wire) + n
    <2>1. u \in Seq(Tokens) /\ wire \in Seq(Tokens)
      BY <1>0, <1>3
    <2> QED BY <1>3, <2>1, Concat
  <1> HIDE DEF wu
  <1>8. Stream' = Stream
    <2>1. buf \o wu \o v = buf \o (wu \o v)
      <3>1. buf \in Seq(Tokens) /\ wu \in Seq(Tokens) /\ v \in Seq(Tokens)
        BY <1>0, <1>4, <1>7
      <3> QED BY <3>1, Assoc
    <2>2. buf \o wire \o out = buf \o (wire \o out)
      <3>1. buf \in Seq(Tokens) /\ wire \in Seq(Tokens) /\ out \in Seq(Tokens)
        BY <1>0
      <3> QED BY <3>1, Assoc
    <2>3. Stream' = buf \o wu \o v
      BY <1>1, <1>6 DEF Stream
    <2> QED BY <1>5, <2>1, <2>2, <2>3, Zenon DEF Stream
  <1>9. Arrived' = Len(buf) + Len(wu)
    BY <1>1, <1>6 DEF Arrived
  <1>10. Arrived' \in Arrived + 1..Len(Stream)
    BY <1>0, <1>7, <1>9
  <1>11. out' = <<>> <=> Arrived' = Len(Stream)
    <2>1. v = <<>> <=> Len(v) = 0
      BY <1>4
    <2>2. Arrived' = Len(Stream) <=> Len(v) = 0
      <3>1. Arrived' = Len(buf) + (Len(wire) + n) /\ Len(Stream) = Len(buf) + Len(wire) + Len(out)
        BY <1>0, <1>7, <1>9
      <3>2. Len(v) = Len(out) - n /\ n \in Nat
        BY <1>0, <1>4
      <3> HIDE DEF u, v, wu
      <3> QED BY <1>0, <3>1, <3>2
    <2> QED BY <1>6, <2>1, <2>2
  <1>12. \A i : Start(i)' <=> Start(i)
    BY <1>1, <1>8 DEF Start
  <1>13. /\ \A i, f : DrawAt(i, f)' <=> DrawAt(i, f)
         /\ \A i : ResponseAt(i)' <=> ResponseAt(i)
    BY <1>8, <1>12 DEF DrawAt, ResponseAt
  <1> QED BY <1>1, <1>8, <1>10, <1>11, <1>12, <1>13

(* What the daemon adds to what it has sent.                               *)
LEMMA WritesWhole ==
  ASSUME TypeOK, SentInv, DaemonWrites
  PROVE  /\ out' # <<>> => sent' = sent
         /\ out' = <<>> =>
              /\ Len(sent') = Len(sent) + 1
              /\ serving = "key" => frames = Len(sent') /\ sent'[frames] = Frame(frames)
              /\ serving = "close" => AnswerSent'
         /\ Len(sent) \in Nat /\ Len(sent') \in Nat /\ Len(sent) <= Len(sent')
         /\ \A i \in 1..Len(sent) : sent'[i] = sent[i]
         /\ serving \in {"key", "close"}
  <1>0. sent \in Seq(Messages) /\ Len(sent) \in Nat /\ frames \in Nat
    BY DEF TypeOK, DaemonType
  <1>1. /\ serving \in {"key", "close"}
        /\ frames = IF serving = "close" THEN Len(sent) ELSE Len(sent) + 1
    BY <1>0 DEF DaemonWrites, SentInv
  <1>2. CASE out' # <<>>
    <2>1. sent' = sent
      BY <1>2 DEF DaemonWrites
    <2> QED BY <1>0, <1>1, <1>2, <2>1
  <1>3. CASE out' = <<>>
    <2> DEFINE m == IF serving = "close" THEN Response ELSE Frame(frames)
    <2>1. sent' = Append(sent, m)
      BY <1>3 DEF DaemonWrites
    <2>2. m \in Messages
      <3>1. frames \in 0..MaxFrames /\ (serving = "key" => frames \in 1..MaxFrames)
        BY <1>0, <1>1, ClientAssumption DEF TypeOK, DaemonType
      <3> QED BY <1>1, <3>1 DEF Messages
    <2> HIDE DEF m
    <2>3. /\ Len(sent') = Len(sent) + 1 /\ sent'[Len(sent) + 1] = m /\ Last(sent') = m
          /\ \A i \in 1..Len(sent) : sent'[i] = sent[i]
          /\ sent' # <<>>
      BY <1>0, <2>1, <2>2, Appended
    <2>4. serving = "key" => frames = Len(sent') /\ sent'[frames] = Frame(frames)
      <3>1. serving = "key" => m = Frame(frames) /\ frames = Len(sent) + 1
        BY <1>1 DEF m
      <3> QED BY <2>3, <3>1
    <2>5. serving = "close" => AnswerSent'
      <3>1. serving = "close" => m = Response
        BY DEF m
      <3> QED BY <2>3, <3>1 DEF AnswerSent
    <2>6. Len(sent') \in Nat /\ Len(sent) <= Len(sent')
      BY <1>0, <2>3
    <2> QED BY <1>0, <1>1, <1>3, <2>3, <2>4, <2>5, <2>6
  <1> QED BY <1>2, <1>3

LEMMA WritesFrame ==
  ASSUME TypeOK, TypeOK', SentInv, SentInv', FrameInv, pc # "done", DaemonWrites
  PROVE  FrameInv'
  <1>0. /\ Stream' = Stream /\ p' = p /\ out # <<>> /\ UNCHANGED <<serving, frames, buf, got, pc>>
        /\ Arrived' \in Arrived + 1..Len(Stream)
        /\ (out' = <<>> <=> Arrived' = Len(Stream))
        /\ \A i, f : DrawAt(i, f)' <=> DrawAt(i, f)
        /\ \A i : ResponseAt(i)' <=> ResponseAt(i)
    BY WritesStream
  <1>1. /\ out' # <<>> => sent' = sent
        /\ out' = <<>> =>
             /\ Len(sent') = Len(sent) + 1
             /\ serving = "key" => frames = Len(sent') /\ sent'[frames] = Frame(frames)
             /\ serving = "close" => AnswerSent'
        /\ Len(sent) \in Nat /\ Len(sent') \in Nat /\ Len(sent) <= Len(sent')
        /\ \A i \in 1..Len(sent) : sent'[i] = sent[i]
        /\ serving \in {"key", "close"}
    BY WritesWhole
  <1>2. DrawInv /\ ResponseInv /\ OrderInv
    BY DEF FrameInv
  <1>3. Arrived \in Nat /\ p \in Nat /\ p > 0 /\ Len(Stream) \in Nat
    BY StreamFacts DEF StreamShape
  <1>4. Arrived' \in Nat /\ Arrived < Arrived' /\ Arrived' <= Len(Stream)
    BY <1>0, <1>3
  <1>5. DrawInv'
    <2> SUFFICES ASSUME NEW i \in p..Len(Stream), NEW f \in 1..MaxFrames, DrawAt(i, f)
                 PROVE  /\ f <= frames
                        /\ Intact(Stream, i, f)
                        /\ i + 5 <= Arrived' => f <= Len(sent') /\ sent'[f] = Frame(f)
                        /\ i + 5 > Arrived' /\ out' # <<>> =>
                             i + 5 = Len(Stream) /\ f = frames /\ serving = "key"
                        /\ i + 5 > Arrived' /\ out' = <<>> => serving = "closed"
      BY <1>0 DEF DrawInv
    <2>0. i \in Nat /\ f \in Nat /\ f > 0
      BY <1>3, ClientAssumption
    <2>1. /\ f <= frames
          /\ Intact(Stream, i, f)
          /\ i + 5 <= Arrived => f <= Len(sent) /\ sent[f] = Frame(f)
          /\ i + 5 > Arrived => i + 5 = Len(Stream) /\ f = frames /\ serving = "key"
      BY <1>0, <1>2 DEF DrawInv
    <2>2. CASE i + 5 <= Arrived
      <3>1. f \in 1..Len(sent)
        BY <1>1, <2>0, <2>1, <2>2
      <3>2. f <= Len(sent') /\ sent'[f] = Frame(f)
        BY <1>1, <2>0, <2>1, <2>2, <3>1
      <3>3. ~(i + 5 > Arrived')
        BY <1>3, <1>4, <2>0, <2>2
      <3> QED BY <2>1, <3>2, <3>3
    <2>3. CASE i + 5 > Arrived
      <3>1. i + 5 = Len(Stream) /\ f = frames /\ serving = "key"
        BY <2>1, <2>3
      <3>2. CASE out' = <<>>
        <4>1. Arrived' = Len(Stream) /\ ~(i + 5 > Arrived')
          BY <1>0, <1>3, <3>1, <3>2
        <4>2. f <= Len(sent') /\ sent'[f] = Frame(f)
          BY <1>1, <3>1, <3>2
        <4> QED BY <2>1, <4>1, <4>2
      <3>3. CASE out' # <<>>
        <4>1. ~(i + 5 <= Arrived')
          BY <1>0, <1>3, <1>4, <3>1, <3>3
        <4> QED BY <2>1, <3>1, <3>3, <4>1
      <3> QED BY <3>2, <3>3
    <2> QED BY <1>3, <2>0, <2>2, <2>3
  <1>6. ResponseInv'
    <2> SUFFICES ASSUME NEW i \in p..Len(Stream), ResponseAt(i)
                 PROVE  /\ serving \in {"close", "closed"}
                        /\ i + 1 >= Len(Stream)
                        /\ i + 1 <= Len(Stream) => Stream[i + 1] = NL
                        /\ i + 1 <= Arrived' => AnswerSent'
      BY <1>0 DEF ResponseInv
    <2>0. i \in Nat
      BY <1>3
    <2>1. /\ serving \in {"close", "closed"}
          /\ i + 1 >= Len(Stream)
          /\ i + 1 <= Len(Stream) => Stream[i + 1] = NL
      BY <1>2 DEF ResponseInv
    <2>2. serving = "close"
      BY <1>1, <2>1
    <2>3. ASSUME i + 1 <= Arrived' PROVE AnswerSent'
      <3>1. Arrived' = Len(Stream)
        BY <1>3, <1>4, <2>0, <2>1, <2>3
      <3> QED BY <1>0, <1>1, <2>2, <3>1
    <2> QED BY <2>1, <2>3
  <1>7. OrderInv'
    BY <1>0, <1>2 DEF OrderInv
  <1>8. GotInv'
    <2> SUFFICES ASSUME got # <<>>
                 PROVE  \E g \in 1..Len(sent') :
                          /\ got[Len(got)] = sent'[g]
                          /\ sent'[g] = Frame(g)
                          /\ \A i \in p..Len(Stream), f \in 1..MaxFrames : DrawAt(i, f) => g < f
      BY <1>0 DEF GotInv
    <2>1. PICK g \in 1..Len(sent) :
            /\ got[Len(got)] = sent[g]
            /\ sent[g] = Frame(g)
            /\ \A i \in p..Len(Stream), f \in 1..MaxFrames : DrawAt(i, f) => g < f
      BY DEF FrameInv, GotInv
    <2>2. g \in 1..Len(sent') /\ sent'[g] = sent[g]
      BY <1>1
    <2> QED BY <2>1, <2>2
  <1>9. PassedInv'
    BY <1>0 DEF FrameInv, PassedInv
  <1> QED BY <1>5, <1>6, <1>7, <1>8, <1>9 DEF FrameInv

(* A daemon that dies leaves what has arrived.                             *)
LEMMA DiesStream ==
  ASSUME TypeOK, TypeOK', DaemonDies
  PROVE  /\ Arrived' = Arrived /\ Len(Stream') = Arrived
         /\ \A i \in 1..Arrived : Stream'[i] = Stream[i]
         /\ \A i \in p'..Len(Stream') : i \in p..Len(Stream) /\ i \in Nat /\ i \in 1..Arrived
         /\ \A i \in p'..Len(Stream'), f \in 1..MaxFrames : DrawAt(i, f)' => DrawAt(i, f)
         /\ \A i \in p'..Len(Stream') : ResponseAt(i)' => ResponseAt(i)
  <1>0. /\ serving' = "closed" /\ out' = <<>> /\ UNCHANGED <<sent, frames, wire, pc, buf, p, got>>
    BY DEF DaemonDies, scan
  <1>1. /\ Len(buf) \in Nat /\ Len(wire) \in Nat /\ p \in Nat /\ p > 0
        /\ Arrived \in Nat /\ Arrived = Len(buf) + Len(wire)
        /\ Len(Stream) \in Nat /\ Arrived <= Len(Stream)
        /\ \A i \in 1..Len(buf) : Stream[i] = buf[i]
        /\ \A i \in Len(buf) + 1..Arrived : Stream[i] = wire[i - Len(buf)]
    BY StreamFacts DEF StreamShape
  <1>2. /\ Arrived' = Arrived /\ Len(Stream') = Arrived
        /\ \A i \in 1..Len(buf) : Stream'[i] = buf[i]
        /\ \A i \in Len(buf) + 1..Arrived : Stream'[i] = wire[i - Len(buf)]
    <2>1. Arrived' = Arrived
      BY <1>0 DEF Arrived
    <2> QED BY <1>0, <2>1, NextStreamFacts DEF StreamShape
  <1>3. \A i \in 1..Arrived : Stream'[i] = Stream[i]
    <2> TAKE i \in 1..Arrived
    <2>1. i \in 1..Len(buf) \/ i \in Len(buf) + 1..Arrived
      BY <1>1
    <2> QED BY <1>1, <1>2, <2>1
  <1>4. ASSUME NEW i \in p'..Len(Stream')
        PROVE  i \in p..Len(Stream) /\ i \in Nat /\ i \in 1..Arrived
    BY <1>0, <1>1, <1>2
  <1>5. ASSUME NEW i \in p'..Len(Stream'), Start(i)'
        PROVE  Start(i)
    <2>1. i = p \/ (i > p /\ Stream'[i - 1] = NL)
      BY <1>0, <1>1, <1>4, <1>5 DEF Start
    <2>2. i > p => i - 1 \in 1..Arrived
      BY <1>1, <1>4
    <2> QED BY <1>3, <1>4, <2>1, <2>2 DEF Start
  <1>6. ASSUME NEW i \in p'..Len(Stream'), NEW f \in 1..MaxFrames, DrawAt(i, f)'
        PROVE  DrawAt(i, f)
    BY <1>3, <1>4, <1>5, <1>6 DEF DrawAt
  <1>7. ASSUME NEW i \in p'..Len(Stream'), ResponseAt(i)'
        PROVE  ResponseAt(i)
    BY <1>3, <1>4, <1>5, <1>7 DEF ResponseAt
  <1> QED BY <1>2, <1>3, <1>4, <1>6, <1>7

LEMMA DiesFrame ==
  ASSUME TypeOK, TypeOK', SentInv', FrameInv, pc # "done", DaemonDies
  PROVE  FrameInv'
  <1>0. /\ serving' = "closed" /\ out' = <<>> /\ UNCHANGED <<sent, frames, wire, pc, buf, p, got>>
    BY DEF DaemonDies, scan
  <1>1. DrawInv /\ ResponseInv /\ OrderInv
    BY DEF FrameInv
  <1>2. Arrived \in Nat /\ Len(Stream) \in Nat /\ Arrived <= Len(Stream)
    BY StreamFacts DEF StreamShape
  <1>3. Arrived' = Arrived /\ Len(Stream') = Arrived
    BY DiesStream
  <1>4. \A i \in 1..Arrived : Stream'[i] = Stream[i]
    BY DiesStream
  <1>5. ASSUME NEW i \in p'..Len(Stream')
        PROVE  i \in p..Len(Stream) /\ i \in Nat /\ i \in 1..Arrived
    BY DiesStream
  <1>7. ASSUME NEW i \in p'..Len(Stream'), NEW f \in 1..MaxFrames, DrawAt(i, f)'
        PROVE  DrawAt(i, f)
    BY <1>7, DiesStream
  <1>8. ASSUME NEW i \in p'..Len(Stream'), ResponseAt(i)'
        PROVE  ResponseAt(i)
    BY <1>8, DiesStream
  <1>9. DrawInv'
    <2> SUFFICES ASSUME NEW i \in p'..Len(Stream'), NEW f \in 1..MaxFrames, DrawAt(i, f)'
                 PROVE  /\ f <= frames'
                        /\ Intact(Stream', i, f)
                        /\ i + 5 <= Arrived' => f <= Len(sent') /\ sent'[f] = Frame(f)
      BY <1>0 DEF DrawInv
    <2>1. /\ f <= frames
          /\ Intact(Stream, i, f)
          /\ i + 5 <= Arrived => f <= Len(sent) /\ sent[f] = Frame(f)
      BY <1>1, <1>5, <1>7 DEF DrawInv
    <2>2. Intact(Stream', i, f)
      <3>1. \A j \in 1..5 : i + j <= Len(Stream') =>
              Stream'[i + j] = Stream[i + j] /\ i + j <= Len(Stream)
        <4> TAKE j \in 1..5
        <4> HAVE i + j <= Len(Stream')
        <4>1. i + j \in 1..Arrived /\ i + j <= Len(Stream)
          BY <1>2, <1>3, <1>5
        <4> QED BY <1>4, <4>1
      <3>2. 1 \in 1..5 /\ 2 \in 1..5 /\ 3 \in 1..5 /\ 4 \in 1..5 /\ 5 \in 1..5
        OBVIOUS
      <3> QED BY <2>1, <3>1, <3>2 DEF Intact
    <2> QED BY <1>0, <1>3, <2>1, <2>2
  <1>10. ResponseInv'
    <2> SUFFICES ASSUME NEW i \in p'..Len(Stream'), ResponseAt(i)'
                 PROVE  /\ i + 1 >= Len(Stream')
                        /\ i + 1 <= Len(Stream') => Stream'[i + 1] = NL
                        /\ i + 1 <= Arrived' => AnswerSent'
      BY <1>0 DEF ResponseInv
    <2>1. /\ i + 1 >= Len(Stream)
          /\ i + 1 <= Len(Stream) => Stream[i + 1] = NL
          /\ i + 1 <= Arrived => AnswerSent
      BY <1>1, <1>5, <1>8 DEF ResponseInv
    <2>2. i + 1 >= Len(Stream')
      BY <1>2, <1>3, <1>5, <2>1
    <2>3. i + 1 <= Len(Stream') => i + 1 \in 1..Arrived /\ i + 1 <= Len(Stream)
      BY <1>2, <1>3, <1>5
    <2>4. AnswerSent' <=> AnswerSent
      BY <1>0 DEF AnswerSent
    <2> QED BY <1>3, <1>4, <2>1, <2>2, <2>3, <2>4
  <1>11. OrderInv'
    <2> SUFFICES ASSUME NEW i \in p'..Len(Stream'), NEW j \in p'..Len(Stream'),
                        NEW f \in 1..MaxFrames, NEW g \in 1..MaxFrames,
                        DrawAt(i, f)', DrawAt(j, g)', i < j
                 PROVE  f < g
      BY DEF OrderInv
    <2>1. DrawAt(i, f) /\ DrawAt(j, g) /\ i \in p..Len(Stream) /\ j \in p..Len(Stream)
      BY <1>5, <1>7
    <2> QED BY <1>1, <2>1 DEF OrderInv
  <1>12. GotInv'
    <2> SUFFICES ASSUME got # <<>>
                 PROVE  \E g \in 1..Len(sent) :
                          /\ got[Len(got)] = sent[g]
                          /\ sent[g] = Frame(g)
                          /\ \A i \in p'..Len(Stream'), f \in 1..MaxFrames : DrawAt(i, f)' => g < f
      BY <1>0 DEF GotInv
    <2>1. PICK g \in 1..Len(sent) :
            /\ got[Len(got)] = sent[g]
            /\ sent[g] = Frame(g)
            /\ \A i \in p..Len(Stream), f \in 1..MaxFrames : DrawAt(i, f) => g < f
      BY DEF FrameInv, GotInv
    <2> QED BY <1>5, <1>7, <2>1
  <1>13. PassedInv'
    BY <1>0 DEF FrameInv, PassedInv
  <1> QED BY <1>9, <1>10, <1>11, <1>12, <1>13 DEF FrameInv

-----------------------------------------------------------------------------
LEMMA InitFrame == Init => FrameInv
  <1> SUFFICES ASSUME Init PROVE FrameInv
    OBVIOUS
  <1>1. buf = <<>> /\ wire = <<>> /\ out = <<>> /\ p = 1 /\ got = <<>>
    BY DEF Init
  <1>2. Len(Stream) = 0
    <2>1. TypeOK
      BY InitType
    <2> QED BY <1>1, <2>1, StreamFacts DEF StreamShape
  <1>3. p..Len(Stream) = {}
    BY <1>1, <1>2
  <1>4. DrawInv /\ ResponseInv /\ OrderInv
    BY <1>3 DEF DrawInv, ResponseInv, OrderInv
  <1> QED BY <1>1, <1>4, InitSent DEF FrameInv, GotInv, PassedInv

LEMMA NextFrame ==
  ASSUME TypeOK, TypeOK', SentInv, SentInv', FrameInv, [Next]_vars
  PROVE  FrameInv'
  <1>0. /\ Len(sent) \in Nat
        /\ sent' = sent =>
             Len(sent) <= Len(sent') /\ Len(sent') \in Nat /\ \A i \in 1..Len(sent) : sent'[i] = sent[i]
    BY DEF TypeOK, DaemonType
  <1>1. ASSUME UNCHANGED <<buf, wire, out, sent, frames, p, got, pc>>,
               serving' = serving \/ serving = "request" \/ (serving = "close" /\ serving' = "closed")
        PROVE  FrameInv'
    <2>1. CASE pc = "done"
      BY <1>0, <1>1, <2>1, Finished
    <2>2. CASE pc # "done"
      <3>1. Stream' = Stream /\ Arrived' = Arrived
        BY <1>1 DEF Stream, Arrived
      <3> QED BY <1>1, <2>2, <3>1, QuietFrame
    <2> QED BY <2>1, <2>2
  <1>2. CASE UNCHANGED vars
    BY <1>1, <1>2 DEF vars, daemon, scan
  <1>3. CASE Client
    <2>1. pc # "done"
      BY <1>3 DEF Client, relay_setup, filly_client_connect, RelayPoll, filly_client_process,
                  filly_client_get_response, ScanEnd, ScanDraw, ScanPartialDraw, ScanResponse,
                  ScanOther, Scanning
    <2> QED BY <1>3, <2>1, ReadsFrame, ScanEndFrame, ScanDrawFrame, ScanPartialFrame,
               ScanResponseFrame, ScanOtherFrame DEF Client
  <1>4. CASE \E s \in Streaming : DaemonDraws(s)
    <2>1. PICK s \in Streaming : DaemonDraws(s)
      BY <1>4
    <2>2. UNCHANGED <<sent, pc, buf, p, got>>
      BY <2>1 DEF DaemonDraws, scan
    <2> QED BY <1>0, <2>1, <2>2, Finished, DrawsFrame
  <1>5. CASE Answers
    <2>1. PICK m \in MessagePack : DaemonAnswers(m)
      BY <1>5 DEF Answers
    <2>2. UNCHANGED <<sent, pc, buf, p, got>>
      BY <2>1 DEF DaemonAnswers, scan
    <2> QED BY <1>0, <2>1, <2>2, Finished, AnswersFrame
  <1>6. CASE DaemonWrites
    <2>1. CASE pc = "done"
      <3>1. UNCHANGED <<pc, buf, p, got>>
        BY <1>6 DEF DaemonWrites, scan
      <3> QED BY <1>6, <2>1, <3>1, WritesWhole, Finished
    <2> QED BY <1>6, <2>1, WritesFrame
  <1>7. CASE DaemonCloses
    BY <1>1, <1>7 DEF DaemonCloses, scan
  <1>8. CASE DaemonDies
    <2>1. UNCHANGED <<sent, pc, buf, p, got>>
      BY <1>8 DEF DaemonDies, scan
    <2> QED BY <1>0, <1>8, <2>1, Finished, DiesFrame
  <1>9. CASE User
    <2>1. UNCHANGED <<daemon, buf, wire, p, got>> /\ (pc' = pc \/ pc' = "done")
      BY <1>9 DEF User, Press, relay_run, filly_client_send_key, scan
    <2>2. CASE pc' = pc
      BY <1>1, <2>1, <2>2 DEF daemon
    <2>3. CASE pc' = "done"
      BY <1>0, <2>1, <2>3, Finished DEF daemon
    <2> QED BY <2>1, <2>2, <2>3
  <1> QED BY <1>2, <1>3, <1>4, <1>5, <1>6, <1>7, <1>8, <1>9 DEF Next, Daemon

-----------------------------------------------------------------------------
(* No message is sent twice, so that Position is the place of the last one *)
(* handed over.                                                            *)
Placed ==
  /\ got = <<>> => Position = 0
  /\ \A g \in 1..Len(sent) : got # <<>> /\ got[Len(got)] = sent[g] => Position = g

LEMMA Place == TypeOK /\ SentInv => Placed
  <1> SUFFICES ASSUME TypeOK, SentInv PROVE Placed
    OBVIOUS
  <1>1. got = <<>> => Position = 0
    BY DEF Position
  <1>2. ASSUME NEW i \in 1..Len(sent), NEW j \in 1..Len(sent), sent[i] = sent[j]
        PROVE  i = j
    <2>1. /\ sent[i] = Frame(i) \/ (i = Len(sent) /\ sent[i] = Response)
          /\ sent[j] = Frame(j) \/ (j = Len(sent) /\ sent[j] = Response)
      BY DEF SentInv
    <2> QED BY <1>2, <2>1, MessageFacts
  <1>3. ASSUME NEW g \in 1..Len(sent), got # <<>>, got[Len(got)] = sent[g]
        PROVE  Position = g
    <2>1. Last(got) = sent[g]
      BY <1>3 DEF Last
    <2>2. Position = CHOOSE i \in 1..Len(sent) : sent[i] = Last(got)
      BY <1>3, <2>1 DEF Position
    <2>3. (CHOOSE i \in 1..Len(sent) : sent[i] = Last(got)) \in 1..Len(sent)
          /\ sent[CHOOSE i \in 1..Len(sent) : sent[i] = Last(got)] = Last(got)
      BY <2>1
    <2> QED BY <1>2, <2>1, <2>2, <2>3
  <1> QED BY <1>1, <1>3 DEF Placed

LEMMA NextPlace == TypeOK' /\ SentInv' => Placed'
  BY Place, PTL

LEMMA SendStep ==
  ASSUME TypeOK, TypeOK', SentInv, SentInv', FrameInv, DaemonWrites
  PROVE  Channel!Send \/ UNCHANGED <<sent, got, Position>>
  <1>0. got' = got
    BY DEF DaemonWrites, scan
  <1>1. CASE out' # <<>>
    <2>1. sent' = sent
      BY <1>1 DEF DaemonWrites
    <2> QED BY <1>0, <2>1 DEF Position
  <1>2. CASE out' = <<>>
    <2>1. /\ Len(sent') = Len(sent) + 1 /\ Len(sent) \in Nat /\ Len(sent') \in Nat
          /\ \A i \in 1..Len(sent) : sent'[i] = sent[i]
      BY <1>2, WritesWhole
    <2>2. sent \in Seq(Messages) /\ sent' \in Seq(Messages)
      BY DEF TypeOK, DaemonType
    <2>3. Channel!IsPrefix(sent, sent')
      <3>1. SubSeq(sent, 1, Len(sent)) = SubSeq(sent', 1, Len(sent))
        BY <2>1, <2>2
      <3> QED BY <2>1, <3>1 DEF Channel!IsPrefix
    <2>4. Position' = Position
      <3>1. CASE got = <<>>
        BY <1>0, <3>1, Place, NextPlace DEF Placed
      <3>2. CASE got # <<>>
        <4>1. PICK g \in 1..Len(sent) : got[Len(got)] = sent[g]
          BY <3>2 DEF FrameInv, GotInv
        <4>2. g \in 1..Len(sent') /\ sent'[g] = sent[g]
          BY <2>1
        <4>3. Position = g
          BY <3>2, <4>1, Place DEF Placed
        <4>4. Position' = g
          BY <1>0, <3>2, <4>1, <4>2, NextPlace DEF Placed
        <4> QED BY <4>3, <4>4
      <3> QED BY <3>1, <3>2
    <2> QED BY <1>0, <2>1, <2>3, <2>4 DEF Channel!Send
  <1> QED BY <1>1, <1>2

LEMMA FrameStep ==
  ASSUME TypeOK, TypeOK', SentInv, SentInv', FrameInv, ScanDraw
  PROVE  Channel!Receive
  <1>0. UNCHANGED sent /\ pc # "done" /\ Len(sent) \in Nat /\ got \in Seq(Deliveries)
    BY DEF ScanDraw, Scanning, daemon, TypeOK, DaemonType, ClientType
  <1>1. PICK f \in 1..MaxFrames :
          /\ DrawAt(p, f) /\ f <= Len(sent) /\ sent[f] = Frame(f)
          /\ got' = Append(got, Frame(f))
    BY DrawFound
  <1>2. f \in 1..Len(sent) /\ got' = Append(got, sent[f])
    BY <1>0, <1>1
  <1>3. Position' = f
    <2>1. got' \in Seq(Deliveries)
      BY DEF TypeOK, ClientType
    <2> DEFINE m == sent[f]
    <2>2. got' = Append(got, m)
      BY <1>2
    <2> HIDE DEF m
    <2>3. got' # <<>> /\ got'[Len(got')] = m
      BY <1>0, <2>1, <2>2
    <2> QED BY <1>0, <1>2, <2>3, NextPlace DEF Placed, m
  <1>4. Position \in 0..f - 1
    <2>1. CASE got = <<>>
      BY <1>2, <2>1, Place DEF Placed
    <2>2. CASE got # <<>>
      <3>1. PICK g \in 1..Len(sent) :
              /\ got[Len(got)] = sent[g]
              /\ \A i \in p..Len(Stream), h \in 1..MaxFrames : DrawAt(i, h) => g < h
        BY <1>0, <2>2 DEF FrameInv, GotInv
      <3>2. Position = g
        BY <2>2, <3>1, Place DEF Placed
      <3>3. g < f
        BY <1>1, <3>1 DEF DrawAt, Start
      <3> QED BY <1>0, <1>2, <3>2, <3>3
    <2> QED BY <2>1, <2>2
  <1>5. Position' \in Position + 1..Len(sent)
    BY <1>0, <1>2, <1>3, <1>4
  <1> QED BY <1>0, <1>2, <1>3, <1>5 DEF Channel!Receive

LEMMA AnswerStep ==
  ASSUME TypeOK, TypeOK', SentInv, SentInv', FrameInv, ScanResponse
  PROVE  Channel!Receive
  <1>0. /\ UNCHANGED sent /\ pc # "done" /\ Len(sent) \in Nat /\ got \in Seq(Deliveries)
        /\ sent \in Seq(Messages) /\ got' = Append(got, Response)
    BY DEF ScanResponse, Scanning, daemon, TypeOK, DaemonType, ClientType
  <1>1. Len(sent) \in 1..Len(sent) /\ sent[Len(sent)] = Response
    <2>1. sent # <<>> /\ Last(sent) = Response
      BY AnswerFound DEF AnswerSent
    <2> QED BY <1>0, <2>1 DEF Last
  <1>2. Position' = Len(sent)
    <2>1. Response \in Deliveries
      BY DEF Response, Deliveries
    <2>2. got' # <<>> /\ got'[Len(got')] = Response
      BY <1>0, <2>1
    <2> QED BY <1>0, <1>1, <2>2, NextPlace DEF Placed
  <1>3. Position \in 0..Len(sent) - 1
    <2>1. CASE got = <<>>
      BY <1>0, <1>1, <2>1, Place DEF Placed
    <2>2. CASE got # <<>>
      <3>1. PICK g \in 1..Len(sent) : got[Len(got)] = sent[g] /\ sent[g] = Frame(g)
        BY <1>0, <2>2 DEF FrameInv, GotInv
      <3>2. Position = g
        BY <2>2, <3>1, Place DEF Placed
      <3>3. g # Len(sent)
        BY <1>1, <3>1, MessageFacts
      <3> QED BY <1>0, <3>2, <3>3
    <2> QED BY <2>1, <2>2
  <1>4. Position' \in Position + 1..Len(sent)
    BY <1>0, <1>1, <1>2, <1>3
  <1> QED BY <1>0, <1>1, <1>2, <1>4 DEF Channel!Receive

(* What the client library hands over is among what the daemon has written *)
(* whole, in its order and nothing twice: the connection, with its partial *)
(* reads and writes, its buffer and its scan, implements the channel.      *)
THEOREM MessagesInOrder == Spec => InOrder
  <1> DEFINE Inv == TypeOK /\ SentInv /\ FrameInv
  <1>1. Init => Channel!Init
    BY DEF Init, Position, Channel!Init
  <1>2. Init => Inv
    BY InitType, InitSent, InitFrame
  <1>3. Inv /\ [Next]_vars => Inv'
    BY NextType, NextSent, NextFrame
  <1>4. Inv /\ Inv' /\ [Next]_vars => [Channel!Next]_<<sent, got, Position>>
    <2> SUFFICES ASSUME Inv, Inv', [Next]_vars
                 PROVE  [Channel!Next]_<<sent, got, Position>>
      OBVIOUS
    <2>1. CASE UNCHANGED <<sent, got>>
      BY <2>1 DEF Position
    <2>2. CASE DaemonWrites
      BY <2>2, SendStep DEF Channel!Next
    <2>3. CASE ScanDraw
      BY <2>3, FrameStep DEF Channel!Next
    <2>4. CASE ScanResponse
      BY <2>4, AnswerStep DEF Channel!Next
    <2>5. CASE UNCHANGED vars
      BY <2>1, <2>5 DEF vars, daemon, scan
    <2>6. CASE Client
      BY <2>1, <2>3, <2>4, <2>6 DEF Client, relay_setup, filly_client_connect, RelayPoll,
           filly_client_process, filly_client_get_response, ScanEnd, ScanPartialDraw, ScanOther,
           daemon, scan
    <2>7. CASE Daemon \/ Answers \/ DaemonDies
      BY <2>1, <2>2, <2>7 DEF Daemon, DaemonDraws, DaemonCloses, Answers, DaemonAnswers, DaemonDies,
                              scan
    <2>8. CASE User
      BY <2>1, <2>8 DEF User, Press, relay_run, filly_client_send_key, daemon, scan
    <2> QED BY <2>5, <2>6, <2>7, <2>8 DEF Next
  <1> QED BY <1>1, <1>2, <1>3, <1>4, PTL DEF Spec, InOrder, Channel!Spec

-----------------------------------------------------------------------------
(* What the stream begins with, and what follows a frame.                  *)

Whose ==
  /\ TypeOK /\ SentInv /\ FrameInv
  /\ pc # "done" /\ PlainInv

LEMMA LineToken ==
  ASSUME NEW s \in Seq(Tokens), NEW i \in 1..Len(s), NEW f, s[i] = Line("draw", f)
  PROVE  f \in 1..MaxFrames
  <1>1. s[i] \in Tokens
    OBVIOUS
  <1> QED BY <1>1, TokenFacts DEF Tokens

LEMMA Begins ==
  ASSUME Whose, Stream # <<>>
  PROVE  /\ 1 \in p..Len(Stream)
         /\ \/ DrawAt(1, Len(got) + 1) /\ Len(got) + 1 \in 1..MaxFrames
            \/ ResponseAt(1) /\ Frames = Len(got)
  <1>1. TypeOK /\ p = 1 /\ Due(1, Len(got) + 1)
    BY DEF Whose, PlainInv
  <1>2. Stream \in Seq(Tokens) /\ Len(Stream) \in Nat
    BY <1>1, StreamFacts DEF StreamShape
  <1>3. Len(Stream) > 0
    BY <1>2
  <1>4. Start(1) /\ 1 \in p..Len(Stream) /\ 1 \in 1..Len(Stream)
    BY <1>1, <1>2, <1>3 DEF Start
  <1>5. CASE Stream[1] = Line("draw", Len(got) + 1)
    BY <1>2, <1>4, <1>5, LineToken DEF DrawAt
  <1>6. CASE Stream[1] = Line("response", 0) /\ Frames = (Len(got) + 1) - 1
    <2>1. Len(got) \in Nat
      BY <1>1 DEF TypeOK, ClientType
    <2>2. (Len(got) + 1) - 1 = Len(got)
      BY <2>1
    <2> QED BY <1>4, <1>6, <2>2 DEF ResponseAt
  <1> QED BY <1>1, <1>4, <1>5, <1>6 DEF Due

(* The start of the message after a frame.                                 *)
LEMMA Follows ==
  ASSUME Whose, NEW i \in p..Len(Stream), NEW f \in 1..MaxFrames, DrawAt(i, f),
         i + 6 <= Len(Stream)
  PROVE  /\ i + 6 \in p..Len(Stream)
         /\ \/ DrawAt(i + 6, f + 1) /\ f + 1 \in 1..MaxFrames
            \/ ResponseAt(i + 6) /\ Frames = f
  <1>1. TypeOK /\ p = 1 /\ DrawInv
    BY DEF Whose, PlainInv, FrameInv
  <1>2. Stream \in Seq(Tokens) /\ Len(Stream) \in Nat /\ i \in Nat /\ i >= 1
    BY <1>1, StreamFacts DEF StreamShape
  <1>3. Due(i + 6, f + 1)
    BY <1>1 DEF Whose, PlainInv
  <1>4. Intact(Stream, i, f)
    BY <1>1 DEF DrawInv
  <1>5. i + 5 <= Len(Stream) /\ (i + 6) - 1 = i + 5 /\ i + 6 \in p..Len(Stream) /\ i + 6 \in 1..Len(Stream)
    BY <1>1, <1>2
  <1>6. Start(i + 6)
    BY <1>4, <1>5 DEF Intact, Start
  <1>7. CASE Stream[i + 6] = Line("draw", f + 1)
    BY <1>2, <1>5, <1>6, <1>7, LineToken DEF DrawAt
  <1>8. CASE Stream[i + 6] = Line("response", 0) /\ Frames = (f + 1) - 1
    BY <1>5, <1>6, <1>8 DEF ResponseAt
  <1> QED BY <1>3, <1>7, <1>8 DEF Due

(* Steps that leave the stream alone.                                      *)
LEMMA PlainQuiet ==
  ASSUME Whose, Stream' = Stream, p' = p, UNCHANGED <<got, sent>>, out' = <<>> <=> out = <<>>,
         serving' = "close" => serving = "close",
         pc' = "wait" => Len(buf') < DrawLen + 3 /\ (Len(buf') > 1 => buf'[1] # Line("response", 0))
  PROVE  PlainInv'
  <1>1. PlainInv
    BY DEF Whose
  <1>2. Frames' = Frames /\ (AnswerSent' <=> AnswerSent)
    BY DEF Frames, AnswerSent
  <1>3. \A i, f : Due(i, f)' <=> Due(i, f)
    BY <1>2 DEF Due
  <1>4. \A i, f : DrawAt(i, f)' <=> DrawAt(i, f)
    BY DEF DrawAt, Start
  <1>5. /\ p' = 1
        /\ \A i \in 1..Len(got') : got'[i] = Frame(i)
        /\ Stream' # <<>> => Due(1, Len(got) + 1)'
        /\ Stream' = <<>> => Len(got') = Len(sent')
    BY <1>1, <1>3 DEF PlainInv
  <1>6. \A i \in 1..Len(Stream'), f \in 1..MaxFrames : DrawAt(i, f)' =>
          /\ i + 6 <= Len(Stream') => Due(i + 6, f + 1)'
          /\ i + 5 = Len(Stream') => f = Len(sent') + (IF out' = <<>> THEN 0 ELSE 1)
    BY <1>1, <1>3, <1>4 DEF PlainInv
  <1>7. AnswerSent' \/ serving' = "close" =>
          /\ Len(Stream') > 1
          /\ Stream'[Len(Stream') - 1] = Line("response", 0)
          /\ Stream'[Len(Stream')] = NL
    BY <1>1, <1>2 DEF PlainInv
  <1> QED BY <1>5, <1>6, <1>7 DEF PlainInv

-----------------------------------------------------------------------------
(* The client.                                                             *)

LEMMA AtStart ==
  ASSUME Whose, pc = "start"
  PROVE  Stream = <<>>
  <1>0. TypeOK /\ SentInv /\ DrawInv /\ ResponseInv
    BY DEF Whose, FrameInv
  <1>1. serving = "request" /\ out = <<>> /\ sent = <<>> /\ frames = Len(sent)
    BY <1>0 DEF SentInv, TypeOK, DaemonType
  <1>2. frames = 0
    BY <1>1
  <1>3. ASSUME Stream # <<>> PROVE FALSE
    <2>1. /\ 1 \in p..Len(Stream)
          /\ \/ DrawAt(1, Len(got) + 1) /\ Len(got) + 1 \in 1..MaxFrames
             \/ ResponseAt(1)
      BY <1>3, Begins
    <2>2. ~ResponseAt(1)
      BY <1>0, <1>1, <2>1 DEF ResponseInv
    <2>3. Len(got) + 1 <= frames
      BY <1>0, <2>1, <2>2 DEF DrawInv
    <2>4. Len(got) \in Nat
      BY <1>0 DEF TypeOK, ClientType
    <2> QED BY <1>2, <2>3, <2>4
  <1> QED BY <1>3

LEMMA ReadsPlain ==
  ASSUME Whose, pc' # "done",
         relay_setup \/ filly_client_connect \/ RelayPoll \/ filly_client_process
           \/ filly_client_get_response
  PROVE  PlainInv'
  <1>0. TypeOK /\ FrameInv
    BY DEF Whose
  <1>1. /\ p = 1 /\ UNCHANGED <<out, sent, got>>
        /\ Stream' = Stream /\ p' = 1
    BY <1>0, ReadsStream
  <1>2. serving' = "close" => serving = "close"
    BY DEF relay_setup, filly_client_connect, RelayPoll, filly_client_process,
           filly_client_get_response, daemon
  <1>3. ASSUME pc' = "wait"
        PROVE  Len(buf') < DrawLen + 3 /\ (Len(buf') > 1 => buf'[1] # Line("response", 0))
    <2>1. pc = "start" /\ buf' = buf
      BY <1>3 DEF relay_setup, filly_client_connect, RelayPoll, filly_client_process,
                  filly_client_get_response, scan, Fail, Exit
    <2>2. Stream = <<>>
      BY <2>1, AtStart
    <2>3. Len(Stream) = 0
      BY <2>2
    <2>4. Len(buf) = 0
      BY <1>0, <2>3, StreamFacts DEF StreamShape
    <2> QED BY <2>1, <2>4 DEF DrawLen
  <1> QED BY <1>1, <1>2, <1>3, PlainQuiet

(* The buffer begins with the header of a frame or with the answer.        *)
LEMMA BufBegins ==
  ASSUME Whose, buf # <<>>
  PROVE  /\ p = 1 /\ buf \in Seq(Tokens) /\ Len(buf) \in Nat /\ Len(buf) > 0
         /\ Len(buf) > 1 => buf[2] = NL
         /\ \/ /\ Len(got) + 1 \in 1..MaxFrames
               /\ buf[1] = Line("draw", Len(got) + 1) /\ DrawAt(1, Len(got) + 1)
            \/ buf[1] = Line("response", 0) /\ Frames = Len(got)
  <1>0. TypeOK /\ DrawInv /\ ResponseInv /\ p = 1
    BY DEF Whose, FrameInv, PlainInv
  <1>1. /\ buf \in Seq(Tokens) /\ Len(buf) \in Nat /\ Len(Stream) \in Nat
        /\ Len(buf) <= Len(Stream) /\ \A i \in 1..Len(buf) : Stream[i] = buf[i]
    BY <1>0, StreamFacts DEF StreamShape, TypeOK, ClientType
  <1>2. Len(buf) > 0
    BY <1>1
  <1>3. Stream # <<>>
    <2>1. Len(Stream) > 0
      BY <1>1, <1>2
    <2> QED BY <2>1
  <1>4. /\ 1 \in p..Len(Stream)
        /\ \/ DrawAt(1, Len(got) + 1) /\ Len(got) + 1 \in 1..MaxFrames
           \/ ResponseAt(1) /\ Frames = Len(got)
    BY <1>3, Begins
  <1>5. buf[1] = Stream[1]
    BY <1>1, <1>2
  <1>6. Len(buf) > 1 => buf[2] = Stream[2] /\ 1 + 1 = 2 /\ 2 <= Len(Stream)
    BY <1>1
  <1>7. CASE DrawAt(1, Len(got) + 1) /\ Len(got) + 1 \in 1..MaxFrames
    <2>1. Intact(Stream, 1, Len(got) + 1)
      BY <1>0, <1>4, <1>7 DEF DrawInv
    <2>2. 2 <= Len(Stream) => Stream[2] = NL
      BY <2>1 DEF Intact
    <2> QED BY <1>0, <1>1, <1>2, <1>5, <1>6, <1>7, <2>2 DEF DrawAt
  <1>8. CASE ResponseAt(1) /\ Frames = Len(got)
    <2>2. 2 <= Len(Stream) => Stream[2] = NL
      BY <1>0, <1>4, <1>8 DEF ResponseInv
    <2> QED BY <1>0, <1>1, <1>2, <1>5, <1>6, <1>8, <2>2 DEF ResponseAt
  <1> QED BY <1>4, <1>7, <1>8

(* No newline, or a frame that is not whole: the buffer stays.             *)
LEMMA WaitsPlain ==
  ASSUME Whose, ScanEnd \/ ScanPartialDraw
  PROVE  PlainInv'
  <1>0. /\ buf \in Seq(Tokens) /\ Len(buf) \in Nat /\ p = 1
        /\ UNCHANGED <<wire, out, sent, got, serving>> /\ p' = 1
    BY DEF Whose, TypeOK, ClientType, PlainInv, ScanEnd, ScanPartialDraw, daemon
  <1>1. buf' = buf
    <2>1. SubSeq(buf, 1, Len(buf)) = buf
      BY <1>0
    <2> QED BY <1>0, <2>1 DEF ScanEnd, ScanPartialDraw
  <1>2. Stream' = Stream
    BY <1>0, <1>1 DEF Stream
  <1>3. Len(buf) < DrawLen + 3 /\ (Len(buf) > 1 => buf[1] # Line("response", 0))
    <2>1. CASE ScanEnd
      <3>1. ASSUME Len(buf) > 1 PROVE FALSE
        <4>1. buf # <<>>
          BY <3>1
        <4>2. buf[2] = NL
          BY <3>1, <4>1, BufBegins
        <4>3. 2 \in Newlines
          BY <1>0, <3>1, <4>2 DEF Newlines
        <4> QED BY <2>1, <4>3 DEF ScanEnd
      <3> QED BY <1>0, <3>1 DEF DrawLen
    <2>2. CASE ScanPartialDraw
      <3>0. p \in 1..Len(buf) + 1 /\ Newlines # {} /\ Parsed = "draw" /\ ~Whole
        BY <1>0, <2>2 DEF ScanPartialDraw, Scanning
      <3>1. nl \in p..Len(buf) /\ buf[nl] = NL /\ \A j \in p..nl - 1 : buf[j] # NL
        BY <1>0, <3>0, FirstNewline
      <3>2. buf # <<>> /\ Len(buf) > 0
        BY <1>0, <3>1
      <3>3. buf[1].t = "line" /\ buf[1].type = "draw"
        BY <1>0, <3>0 DEF Parsed
      <3>4. nl # 1 /\ buf[1] # Line("response", 0)
        BY <3>1, <3>3, TokenFacts
      <3>5. nl \in Nat /\ nl >= 2 /\ Len(buf) > 1
        BY <1>0, <3>1, <3>4
      <3>6. buf[2] = NL
        BY <3>2, <3>5, BufBegins
      <3>7. nl = 2
        <4>1. ~(2 \in p..nl - 1)
          BY <3>1, <3>6
        <4> QED BY <1>0, <3>5, <4>1
      <3>8. Len(buf) < DrawLen + 3
        BY <1>0, <3>0, <3>7 DEF Whole, DrawLen
      <3> QED BY <3>4, <3>8
    <2> QED BY <2>1, <2>2
  <1> QED BY <1>0, <1>1, <1>2, <1>3, PlainQuiet

(* No other line is met.                                                   *)
LEMMA NoOther ==
  ASSUME Whose, ScanOther
  PROVE  FALSE
  <1>0. /\ buf \in Seq(Tokens) /\ Len(buf) \in Nat /\ p = 1 /\ p \in 1..Len(buf) + 1
        /\ Newlines # {} /\ Parsed \notin {"draw", "response"}
    BY DEF Whose, TypeOK, ClientType, PlainInv, ScanOther, Scanning
  <1>1. nl \in p..Len(buf)
    BY <1>0, FirstNewline
  <1>2. buf # <<>>
    BY <1>0, <1>1
  <1>3. \/ buf[1] = Line("draw", Len(got) + 1)
        \/ buf[1] = Line("response", 0)
    BY <1>2, BufBegins
  <1>4. buf[1].t = "line" /\ buf[1].type \in {"draw", "response"}
    BY <1>3, TokenFacts
  <1> QED BY <1>0, <1>4 DEF Parsed

(* The frame that is taken was the one due, and the next one is due now.   *)
LEMMA DrawPlain ==
  ASSUME Whose, TypeOK', ScanDraw
  PROVE  PlainInv'
  <1>0. /\ TypeOK /\ FrameInv /\ DrawInv /\ PlainInv /\ p = 1 /\ p' = 1 /\ pc' = "scan"
        /\ UNCHANGED <<out, sent, serving>> /\ got \in Seq(Deliveries) /\ Len(got) \in Nat
    BY DEF Whose, FrameInv, TypeOK, ClientType, PlainInv, ScanDraw, Scanning, daemon
  <1>1. PICK f \in 1..MaxFrames : DrawAt(p, f) /\ got' = Append(got, Frame(f)) /\ Shifted(6)
    BY <1>0, DrawFound
  <1>2. /\ Stream \in Seq(Tokens) /\ Len(Stream) \in Nat /\ Len(Stream') \in Nat
        /\ Stream' \in Seq(Tokens) /\ Arrived' \in Nat /\ Len(out') \in Nat
        /\ Len(Stream') = Arrived' + Len(out') /\ (out' = <<>> <=> Len(out') = 0)
    BY <1>0, StreamFacts, NextStreamFacts DEF StreamShape
  <1>3. Len(Stream') = Len(Stream) - 6 /\ \A i \in 1..Len(Stream') : Stream'[i] = Stream[i + 6]
    BY <1>0, <1>1 DEF Shifted
  <1>4. f = Len(got) + 1 /\ 1 \in p..Len(Stream) /\ 1 \in 1..Len(Stream)
    <2>1. Stream[1] = Line("draw", f) /\ 1 \in 1..Len(Stream)
      BY <1>0, <1>1, <1>2 DEF DrawAt, Start
    <2>2. Stream # <<>>
      BY <1>2, <2>1
    <2>3. Stream[1] = Line("draw", Len(got) + 1) \/ Stream[1] = Line("response", 0)
      BY <2>2, Begins DEF DrawAt, ResponseAt
    <2> QED BY <1>0, <2>1, <2>3, TokenFacts
  <1>5. /\ 1 + 6 <= Len(Stream) => Due(1 + 6, f + 1)
        /\ 1 + 5 = Len(Stream) => f = Len(sent) + (IF out = <<>> THEN 0 ELSE 1)
    BY <1>0, <1>1, <1>4 DEF PlainInv
  <1>6. Frames' = Frames /\ (AnswerSent' <=> AnswerSent)
    BY <1>0 DEF Frames, AnswerSent
  <1>7. ASSUME NEW i \in 1..Len(Stream'), NEW g
        PROVE  Due(i, g)' <=> Due(i + 6, g)
    BY <1>3, <1>6 DEF Due
  <1>8. /\ Len(got') = f /\ \A i \in 1..Len(got') : got'[i] = Frame(i)
    <2> DEFINE m == Frame(f)
    <2>1. got' = Append(got, m)
      BY <1>1
    <2> HIDE DEF m
    <2>2. /\ Len(got') = Len(got) + 1 /\ got'[Len(got) + 1] = m
          /\ \A i \in 1..Len(got) : got'[i] = got[i]
      BY <1>0, <2>1
    <2>3. \A i \in 1..Len(got) : got[i] = Frame(i)
      BY <1>0 DEF PlainInv
    <2>4. m = Frame(Len(got) + 1)
      BY <1>4 DEF m
    <2> QED BY <1>0, <1>4, <2>2, <2>3, <2>4
  <1>9. Stream' # <<>> => Due(1, Len(got) + 1)'
    <2> HAVE Stream' # <<>>
    <2>1. 1 \in 1..Len(Stream') /\ 1 + 6 <= Len(Stream)
      BY <1>2, <1>3
    <2>2. Due(1 + 6, Len(got') + 1)
      BY <1>5, <1>8, <2>1
    <2> QED BY <1>3, <1>6, <2>1, <2>2 DEF Due
  <1>10. Stream' = <<>> => Len(got') = Len(sent')
    <2> HAVE Stream' = <<>>
    <2>1. Len(Stream') = 0
      OBVIOUS
    <2>2. out = <<>> /\ 1 + 5 = Len(Stream)
      BY <1>0, <1>2, <1>3, <2>1
    <2>3. Len(sent) \in Nat
      BY <1>0 DEF TypeOK, DaemonType
    <2> QED BY <1>0, <1>5, <1>8, <2>2, <2>3
  <1>11. ASSUME NEW i \in 1..Len(Stream'), NEW g \in 1..MaxFrames, DrawAt(i, g)'
         PROVE  /\ i + 6 <= Len(Stream') => Due(i + 6, g + 1)'
                /\ i + 5 = Len(Stream') => g = Len(sent') + (IF out' = <<>> THEN 0 ELSE 1)
    <2>1. DrawAt(i + 6, g) /\ i + 6 \in 1..Len(Stream)
      BY <1>0, <1>1, <1>2, <1>3, <1>11 DEF Shifted
    <2>2. /\ (i + 6) + 6 <= Len(Stream) => Due((i + 6) + 6, g + 1)
          /\ (i + 6) + 5 = Len(Stream) => g = Len(sent) + (IF out = <<>> THEN 0 ELSE 1)
      BY <1>0, <2>1 DEF PlainInv
    <2>3. ASSUME i + 6 <= Len(Stream')
          PROVE  Due(i + 6, g + 1)'
      <3>1. i + 6 \in 1..Len(Stream') /\ (i + 6) + 6 <= Len(Stream)
        BY <1>2, <1>3, <2>3
      <3> QED BY <1>7, <2>2, <3>1
    <2>4. i + 5 = Len(Stream') => (i + 6) + 5 = Len(Stream)
      BY <1>2, <1>3
    <2> QED BY <1>0, <2>2, <2>3, <2>4
  <1>12. ASSUME AnswerSent \/ serving = "close"
         PROVE  /\ Len(Stream') > 1
                /\ Stream'[Len(Stream') - 1] = Line("response", 0)
                /\ Stream'[Len(Stream')] = NL
    <2>1. /\ Len(Stream) > 1
          /\ Stream[Len(Stream) - 1] = Line("response", 0)
          /\ Stream[Len(Stream)] = NL
      BY <1>0, <1>12 DEF PlainInv
    <2>2. Len(Stream) >= 6
      BY <1>2, <1>3
    <2>3. /\ Stream[1] = Line("draw", f) /\ Stream[2] = NL /\ Stream[3] = Byte(f)
          /\ Stream[4] = NL /\ Stream[5] = Byte(f) /\ Stream[6] = NL
      <3>1. Intact(Stream, 1, f)
        BY <1>0, <1>1, <1>4 DEF DrawInv
      <3>2. /\ 1 + 1 <= Len(Stream) /\ 1 + 2 <= Len(Stream) /\ 1 + 3 <= Len(Stream)
            /\ 1 + 4 <= Len(Stream) /\ 1 + 5 <= Len(Stream)
        BY <1>2, <2>2
      <3>3. /\ Stream[1 + 1] = NL /\ Stream[1 + 2] = Byte(f) /\ Stream[1 + 3] = NL
            /\ Stream[1 + 4] = Byte(f) /\ Stream[1 + 5] = NL
        BY <3>1, <3>2 DEF Intact
      <3> QED BY <1>0, <1>1, <3>3 DEF DrawAt
    <2>4. Line("response", 0) \notin {Line("draw", f), NL, Byte(f)}
      BY TokenFacts
    <2>5. Len(Stream) - 1 # 5 /\ Len(Stream) - 1 # 6
      BY <2>1, <2>3, <2>4
    <2>6. Len(Stream) >= 8
      <3>1. \A n \in Nat : n >= 6 /\ n - 1 # 5 /\ n - 1 # 6 => n >= 8
        OBVIOUS
      <3>2. Len(Stream) \in Nat
        BY <1>2
      <3> QED BY <2>2, <2>5, <3>1, <3>2
    <2>7. /\ Len(Stream') - 1 \in 1..Len(Stream') /\ Len(Stream') \in 1..Len(Stream')
          /\ (Len(Stream') - 1) + 6 = Len(Stream) - 1 /\ Len(Stream') + 6 = Len(Stream)
          /\ Len(Stream') > 1
      BY <1>2, <1>3, <2>6
    <2> QED BY <1>3, <2>1, <2>7
  <1>13. /\ \A i \in 1..Len(Stream'), g \in 1..MaxFrames : DrawAt(i, g)' =>
              /\ i + 6 <= Len(Stream') => Due(i + 6, g + 1)'
              /\ i + 5 = Len(Stream') => g = Len(sent') + (IF out' = <<>> THEN 0 ELSE 1)
    BY <1>11
  <1>14. AnswerSent' \/ serving' = "close" =>
           /\ Len(Stream') > 1
           /\ Stream'[Len(Stream') - 1] = Line("response", 0)
           /\ Stream'[Len(Stream')] = NL
    BY <1>0, <1>6, <1>12
  <1> QED BY <1>0, <1>8, <1>9, <1>10, <1>13, <1>14 DEF PlainInv

-----------------------------------------------------------------------------
(* The daemon.                                                             *)

(* A message begun is the one due after those that were sent.              *)
LEMMA GrownPlain ==
  ASSUME Whose, TypeOK', out = <<>>, UNCHANGED <<buf, wire, p, sent, got, pc>>,
         serving \in {"draw", "key", "answer"}, Len(out') > 1,
         Due(Arrived + 1, Len(sent) + 1)',
         \A i \in p'..Len(Stream'), f \in 1..MaxFrames :
           DrawAt(i, f)' /\ i > Len(Stream) => i + 5 = Len(Stream') /\ f = Len(sent) + 1,
         serving' = "close" =>
           Stream'[Len(Stream') - 1] = Line("response", 0) /\ Stream'[Len(Stream')] = NL
  PROVE  PlainInv'
  <1>0. /\ TypeOK /\ SentInv /\ DrawInv /\ ResponseInv /\ PlainInv /\ p = 1 /\ p' = 1
        /\ Len(sent) \in Nat /\ ~AnswerSent /\ Len(got) \in Nat
    BY DEF Whose, FrameInv, PlainInv, SentInv, TypeOK, DaemonType, ClientType
  <1>1. /\ Len(Stream') = Len(Stream) + Len(out') /\ Arrived' = Arrived /\ Len(Stream) = Arrived
        /\ \A i \in 1..Len(Stream) : Stream'[i] = Stream[i]
        /\ \A i \in p..Len(Stream), f \in 1..MaxFrames : DrawAt(i, f)' =>
             DrawAt(i, f) /\ i + 5 <= Arrived
    BY <1>0, Grown
  <1>2. /\ Len(Stream) \in Nat /\ Len(Stream') \in Nat /\ Arrived \in Nat /\ Len(out') \in Nat
        /\ (out' = <<>> <=> Len(out') = 0) /\ Stream' \in Seq(Tokens) /\ Stream \in Seq(Tokens)
    BY <1>0, StreamFacts, NextStreamFacts DEF StreamShape
  <1>3. Frames' = Frames /\ ~AnswerSent'
    BY <1>0 DEF Frames, AnswerSent
  <1>4. ASSUME NEW i \in 1..Len(Stream), NEW f, Due(i, f)
        PROVE  Due(i, f)'
    BY <1>1, <1>3, <1>4 DEF Due
  <1>begun. ASSUME NEW i, NEW f, i = Arrived + 1, f = Len(sent) + 1
        PROVE  Due(i, f)'
    BY <1>1, <1>begun DEF Due
  <1>5. Stream' # <<>> => Due(1, Len(got) + 1)'
    <2>1. CASE Stream = <<>>
      <3>1. Len(got) = Len(sent)
        BY <1>0, <2>1 DEF PlainInv
      <3>2. Arrived + 1 = 1
        <4>1. Len(Stream) = 0
          BY <2>1
        <4> QED BY <1>1, <4>1
      <3>3. Due(1, Len(got) + 1)' <=> Due(1, Len(sent) + 1)'
        BY <3>1 DEF Due
      <3>4. 1 = Arrived + 1 /\ Len(sent) + 1 = Len(sent) + 1
        BY <3>2
      <3> QED BY <1>begun, <3>3, <3>4 DEF Due
    <2>2. CASE Stream # <<>>
      <3>1. 1 \in 1..Len(Stream) /\ Due(1, Len(got) + 1)
        BY <1>0, <1>2, <2>2 DEF PlainInv
      <3> QED BY <1>4, <3>1 DEF Due
    <2> QED BY <2>1, <2>2
  <1>6. Stream' # <<>>
    <2>1. Len(Stream') > 0
      BY <1>1, <1>2
    <2> QED BY <2>1
  <1>7. ASSUME NEW i \in 1..Len(Stream'), NEW f \in 1..MaxFrames, DrawAt(i, f)'
        PROVE  /\ i + 6 <= Len(Stream') => Due(i + 6, f + 1)'
               /\ i + 5 = Len(Stream') => f = Len(sent') + (IF out' = <<>> THEN 0 ELSE 1)
    <2>0. out' # <<>>
      BY <1>2
    <2>1. CASE i > Len(Stream)
      <3>1. i + 5 = Len(Stream') /\ f = Len(sent) + 1
        BY <1>0, <1>7, <2>1
      <3>2. ~(i + 6 <= Len(Stream'))
        BY <1>2, <3>1
      <3> QED BY <1>0, <2>0, <3>1, <3>2
    <2>2. CASE ~(i > Len(Stream))
      <3>1. i \in p..Len(Stream) /\ i \in 1..Len(Stream)
        BY <1>0, <1>2, <2>2
      <3>2. DrawAt(i, f) /\ i + 5 <= Arrived
        BY <1>1, <1>7, <3>1
      <3>3. ~(i + 5 = Len(Stream'))
        BY <1>1, <1>2, <3>2
      <3>4. /\ i + 6 <= Len(Stream) => Due(i + 6, f + 1)
            /\ i + 5 = Len(Stream) => f = Len(sent) + 0
        BY <1>0, <3>1, <3>2 DEF PlainInv
      <3>5. CASE i + 6 <= Len(Stream)
        <4>1. i + 6 \in 1..Len(Stream)
          BY <1>2, <3>5
        <4> QED BY <1>4, <3>3, <3>4, <3>5, <4>1
      <3>6. CASE i + 5 = Len(Stream)
        <4>1. i + 6 = Arrived + 1 /\ f = Len(sent)
          BY <1>0, <1>1, <1>2, <3>4, <3>6
        <4>2. Due(i + 6, f + 1)'
          BY <1>begun, <4>1
        <4> QED BY <3>3, <4>2
      <3> QED BY <1>1, <1>2, <3>2, <3>5, <3>6
    <2> QED BY <2>1, <2>2
  <1>8. Len(Stream') > 1
    BY <1>1, <1>2
  <1>9. pc' = "wait" => Len(buf') < DrawLen + 3 /\ (Len(buf') > 1 => buf'[1] # Line("response", 0))
    BY <1>0 DEF PlainInv
  <1>10. \A i \in 1..Len(got') : got'[i] = Frame(i)
    BY <1>0 DEF PlainInv
  <1>11. \A i \in 1..Len(Stream'), f \in 1..MaxFrames : DrawAt(i, f)' =>
           /\ i + 6 <= Len(Stream') => Due(i + 6, f + 1)'
           /\ i + 5 = Len(Stream') => f = Len(sent') + (IF out' = <<>> THEN 0 ELSE 1)
    BY <1>7
  <1> QED BY <1>0, <1>3, <1>5, <1>6, <1>8, <1>9, <1>10, <1>11 DEF PlainInv

LEMMA DrawsPlain ==
  ASSUME Whose, TypeOK', NEW s \in Streaming, DaemonDraws(s), plain'
  PROVE  PlainInv'
  <1>0. /\ TypeOK /\ SentInv /\ FrameInv /\ pc # "done" /\ DrawInv /\ ResponseInv
    BY DEF Whose, FrameInv
  <1>1. /\ serving \in {"draw", "key"} /\ out = <<>> /\ frames' = frames + 1
        /\ serving' = "key" /\ UNCHANGED <<sent, pc, buf, wire, p, got>>
        /\ s = FALSE
    <2>1. s \in BOOLEAN /\ ~s
      BY ClientAssumption DEF DaemonDraws
    <2> QED BY <2>1 DEF DaemonDraws, scan
  <1>2. frames' = Len(sent) + 1
    BY <1>0, <1>1 DEF SentInv, TypeOK, DaemonType
  <1>3. /\ Len(Stream') = Arrived + (0 + 6)
        /\ Stream'[Arrived + (0 + 1)] = Line("draw", frames')
        /\ \A i \in p'..Len(Stream'), f \in 1..MaxFrames :
             DrawAt(i, f)' /\ i > Len(Stream) => i = Arrived + (0 + 1) /\ f = frames'
    BY <1>0, <1>1, DrawsNew
  <1>4. Arrived \in Nat /\ Len(out') \in Nat /\ Len(Stream') = Len(Stream) + Len(out') /\ Len(Stream) = Arrived
    <2>1. Arrived \in Nat /\ Len(out') \in Nat
      BY <1>0, StreamFacts, NextStreamFacts DEF StreamShape
    <2> QED BY <1>0, <1>1, <2>1, Grown
  <1>5. Len(out') > 1 /\ 0 + 1 = 1 /\ (Arrived + 1) + 5 = Len(Stream')
    BY <1>3, <1>4
  <1>6. Due(Arrived + 1, Len(sent) + 1)'
    <2>1. Stream'[Arrived' + 1] = Line("draw", Len(sent') + 1)
      <3>1. Arrived' = Arrived
        BY <1>1 DEF Arrived
      <3> QED BY <1>1, <1>2, <1>3, <1>5, <3>1
    <2> QED BY <2>1 DEF Due
  <1>7. \A i \in p'..Len(Stream'), f \in 1..MaxFrames :
          DrawAt(i, f)' /\ i > Len(Stream) => i + 5 = Len(Stream') /\ f = Len(sent) + 1
    BY <1>2, <1>3, <1>5
  <1> QED BY <1>1, <1>5, <1>6, <1>7, GrownPlain

LEMMA AnswersPlain ==
  ASSUME Whose, TypeOK', DaemonAnswers(FALSE)
  PROVE  PlainInv'
  <1>0. /\ TypeOK /\ SentInv /\ FrameInv /\ DrawInv /\ ResponseInv
    BY DEF Whose, FrameInv
  <1>1. /\ serving \in {"answer", "key"} /\ out = <<>>
        /\ serving' = "close" /\ UNCHANGED <<sent, pc, buf, wire, p, got, frames>>
        /\ out' = <<Line("response", 0), NL>>
    BY DEF DaemonAnswers, scan, send_response_msgpack
  <1>2. /\ Len(Stream') = Len(Stream) + Len(out') /\ Arrived' = Arrived /\ Len(Stream) = Arrived
        /\ \A k \in 1..Len(out') : Stream'[Arrived + k] = out'[k]
    BY <1>0, <1>1, Grown
  <1>3. Arrived \in Nat /\ Len(out') = 2 /\ out'[1] = Line("response", 0) /\ out'[2] = NL
    BY <1>0, <1>1, StreamFacts DEF StreamShape
  <1>4. /\ Stream'[Arrived + 1] = Line("response", 0) /\ Stream'[Arrived + 2] = NL
        /\ Len(Stream') = Arrived + 2 /\ Len(Stream') - 1 = Arrived + 1
    <2>1. 1 \in 1..Len(out') /\ 2 \in 1..Len(out')
      BY <1>3
    <2> QED BY <1>2, <1>3, <2>1
  <1>5. Due(Arrived + 1, Len(sent) + 1)'
    <2>1. ~AnswerSent /\ Len(sent) \in Nat
      BY <1>0, <1>1 DEF SentInv, TypeOK, DaemonType
    <2>2. Frames' = (Len(sent') + 1) - 1
      BY <1>1, <2>1 DEF Frames, AnswerSent
    <2> QED BY <1>2, <1>4, <2>2 DEF Due
  <1>6. ASSUME NEW i \in p'..Len(Stream'), NEW f \in 1..MaxFrames, DrawAt(i, f)', i > Len(Stream)
        PROVE  FALSE
    <2>1. i = Arrived + 1 \/ i = Arrived + 2
      <3>1. p \in Nat
        BY <1>0, StreamFacts DEF StreamShape
      <3> QED BY <1>1, <1>2, <1>3, <1>4, <1>6, <3>1
    <2>2. Stream'[i] = Line("draw", f)
      BY <1>6 DEF DrawAt
    <2> QED BY <1>4, <2>1, <2>2, TokenFacts
  <1>7. Len(out') > 1
    BY <1>3
  <1> QED BY <1>1, <1>4, <1>5, <1>6, <1>7, GrownPlain

(* A message that is written whole is counted as sent.                     *)
LEMMA WritesPlain ==
  ASSUME Whose, TypeOK', SentInv', DaemonWrites
  PROVE  PlainInv'
  <1>0. /\ TypeOK /\ SentInv /\ FrameInv /\ DrawInv /\ ResponseInv /\ PlainInv /\ p = 1
        /\ Len(sent) \in Nat /\ Len(got) \in Nat /\ Len(sent') \in Nat
    BY DEF Whose, FrameInv, PlainInv, TypeOK, DaemonType, ClientType
  <1>1. /\ Stream' = Stream /\ p' = p /\ out # <<>> /\ UNCHANGED <<serving, frames, buf, got, pc>>
        /\ \A i, f : DrawAt(i, f)' <=> DrawAt(i, f)
    BY <1>0, WritesStream
  <1>2. /\ Stream \in Seq(Tokens) /\ Len(Stream) \in Nat /\ Len(Stream) > 0 /\ Stream # <<>>
    <2>1. /\ Stream \in Seq(Tokens) /\ Len(Stream) = Arrived + Len(out) /\ Arrived \in Nat
          /\ Len(out) \in Nat /\ Len(out) # 0
      BY <1>0, <1>1, StreamFacts DEF StreamShape
    <2>2. Len(Stream) > 0 /\ Len(Stream) \in Nat
      BY <2>1
    <2> QED BY <2>1, <2>2
  <1>3. pc' = "wait" => Len(buf') < DrawLen + 3 /\ (Len(buf') > 1 => buf'[1] # Line("response", 0))
    BY <1>0, <1>1 DEF PlainInv
  <1>4. CASE out' # <<>>
    <2>1. sent' = sent
      BY <1>0, <1>4, WritesWhole
    <2> QED BY <1>1, <1>3, <1>4, <2>1, PlainQuiet
  <1>5. CASE out' = <<>>
    <2>0. /\ Len(sent') = Len(sent) + 1 /\ serving \in {"key", "close"} /\ ~AnswerSent
          /\ serving = "close" => AnswerSent'
          /\ serving = "key" => ~AnswerSent'
      <3>1. /\ Len(sent') = Len(sent) + 1 /\ serving \in {"key", "close"}
            /\ serving = "close" => AnswerSent'
        BY <1>0, <1>5, WritesWhole
      <3>2. serving = "key" => ~AnswerSent'
        BY <1>1 DEF SentInv
      <3> QED BY <1>0, <1>1, <3>1, <3>2 DEF SentInv
    <2>1. serving = "close" => Frames' = Frames
      BY <1>0, <2>0 DEF Frames
    <2>2. serving = "key" => \A i \in p..Len(Stream) : ~ResponseAt(i)
      BY <1>0 DEF ResponseInv
    <2>3. Due(1, Len(got) + 1)'
      <3>1. /\ 1 \in p..Len(Stream)
            /\ \/ DrawAt(1, Len(got) + 1)
               \/ ResponseAt(1) /\ Frames = Len(got)
        BY <1>2, Begins
      <3>2. CASE DrawAt(1, Len(got) + 1)
        BY <1>1, <3>2 DEF Due, DrawAt
      <3>3. CASE ResponseAt(1) /\ Frames = Len(got)
        <4>1. Frames' = (Len(got') + 1) - 1
          BY <1>0, <1>1, <2>0, <2>1, <2>2, <3>1, <3>3
        <4> QED BY <1>1, <3>3, <4>1 DEF Due, ResponseAt
      <3> QED BY <3>1, <3>2, <3>3
    <2>4. ASSUME NEW i \in 1..Len(Stream), NEW f \in 1..MaxFrames, DrawAt(i, f)
          PROVE  /\ i + 6 <= Len(Stream) => Due(i + 6, f + 1)'
                 /\ i + 5 = Len(Stream) => f = Len(sent')
      <3>0. i \in p..Len(Stream)
        BY <1>0
      <3>1. ASSUME i + 6 <= Len(Stream) PROVE Due(i + 6, f + 1)'
        <4>1. /\ i + 6 \in p..Len(Stream)
              /\ \/ DrawAt(i + 6, f + 1)
                 \/ ResponseAt(i + 6) /\ Frames = f
          BY <2>4, <3>0, <3>1, Follows
        <4>2. CASE DrawAt(i + 6, f + 1)
          BY <1>1, <4>2 DEF Due, DrawAt
        <4>3. CASE ResponseAt(i + 6) /\ Frames = f
          <5>1. Frames' = (f + 1) - 1
            BY <2>0, <2>1, <2>2, <4>1, <4>3
          <5> QED BY <1>1, <4>3, <5>1 DEF Due, ResponseAt
        <4> QED BY <4>1, <4>2, <4>3
      <3>2. ASSUME i + 5 = Len(Stream) PROVE f = Len(sent')
        <4>1. f = Len(sent) + 1
          BY <1>0, <1>1, <2>4, <3>2 DEF PlainInv
        <4> QED BY <2>0, <4>1
      <3> QED BY <3>1, <3>2
    <2>5. ASSUME AnswerSent' \/ serving' = "close"
          PROVE  /\ Len(Stream) > 1
                 /\ Stream[Len(Stream) - 1] = Line("response", 0)
                 /\ Stream[Len(Stream)] = NL
      <3>1. serving = "close"
        BY <1>1, <2>0, <2>5
      <3> QED BY <1>0, <3>1 DEF PlainInv
    <2>6. \A i \in 1..Len(got') : got'[i] = Frame(i)
      BY <1>0, <1>1 DEF PlainInv
    <2>7. \A i \in 1..Len(Stream'), f \in 1..MaxFrames : DrawAt(i, f)' =>
            /\ i + 6 <= Len(Stream') => Due(i + 6, f + 1)'
            /\ i + 5 = Len(Stream') => f = Len(sent') + (IF out' = <<>> THEN 0 ELSE 1)
      BY <1>0, <1>1, <1>5, <2>4
    <2> QED BY <1>0, <1>1, <1>2, <1>3, <2>3, <2>5, <2>6, <2>7 DEF PlainInv
  <1> QED BY <1>4, <1>5

(* The daemon stops: what was left of a message is never written, and the  *)
(* message was not sent.                                                   *)
LEMMA DiesPlain ==
  ASSUME Whose, TypeOK', DaemonDies
  PROVE  PlainInv'
  <1>0. /\ TypeOK /\ SentInv /\ FrameInv /\ DrawInv /\ ResponseInv /\ PlainInv /\ p = 1
        /\ Len(sent) \in Nat /\ Len(got) \in Nat
    BY DEF Whose, FrameInv, PlainInv, TypeOK, DaemonType, ClientType
  <1>1. serving' = "closed" /\ out' = <<>> /\ UNCHANGED <<sent, wire, pc, buf, p, got>>
    BY DEF DaemonDies, scan
  <1>2. pc' = "wait" => Len(buf') < DrawLen + 3 /\ (Len(buf') > 1 => buf'[1] # Line("response", 0))
    BY <1>0, <1>1 DEF PlainInv
  <1>3. CASE out = <<>>
    <2>1. Stream' = Stream
      BY <1>1, <1>3 DEF Stream
    <2> QED BY <1>1, <1>2, <1>3, <2>1, PlainQuiet
  <1>4. CASE out # <<>>
    <2>1. /\ Len(Stream') = Arrived /\ Arrived \in Nat /\ Len(Stream) > Arrived /\ Len(Stream) \in Nat
          /\ \A i \in 1..Arrived : Stream'[i] = Stream[i]
          /\ \A i \in p'..Len(Stream'), f \in 1..MaxFrames : DrawAt(i, f)' => DrawAt(i, f)
      <3>1. Len(Stream) = Arrived + Len(out) /\ Arrived \in Nat /\ Len(out) \in Nat /\ Len(out) # 0
        BY <1>0, <1>4, StreamFacts DEF StreamShape
      <3>2. Len(Stream) > Arrived /\ Len(Stream) \in Nat
        BY <3>1
      <3> QED BY <1>0, <3>1, <3>2, DiesStream
    <2>2. Frames' = Frames /\ ~AnswerSent /\ ~AnswerSent'
      BY <1>0, <1>1, <1>4 DEF SentInv, Frames, AnswerSent
    <2>3. ASSUME NEW i \in 1..Arrived, NEW f, Due(i, f)
          PROVE  Due(i, f)'
      BY <2>1, <2>2, <2>3 DEF Due
    <2>4. Stream # <<>>
      BY <2>1
    <2>5. Stream' # <<>> => Due(1, Len(got) + 1)'
      <3> HAVE Stream' # <<>>
      <3>1. 1 \in 1..Arrived
        <4>1. Stream' \in Seq(Tokens)
          BY NextStreamFacts DEF StreamShape
        <4>2. Len(Stream') # 0
          BY <4>1
        <4> QED BY <2>1, <4>2
      <3>2. Due(1, Len(got) + 1)
        BY <1>0, <2>4 DEF PlainInv
      <3> QED BY <1>1, <2>3, <3>1, <3>2 DEF Due
    <2>6. Stream' = <<>> => Len(got) = Len(sent)
      <3> HAVE Stream' = <<>>
      <3>1. Arrived = 0
        BY <2>1
      <3>2. /\ 1 \in p..Len(Stream)
            /\ \/ DrawAt(1, Len(got) + 1) /\ Len(got) + 1 \in 1..MaxFrames
               \/ ResponseAt(1) /\ Frames = Len(got)
        BY <2>4, Begins
      <3>3. CASE DrawAt(1, Len(got) + 1) /\ Len(got) + 1 \in 1..MaxFrames
        <4>1. 1 + 5 > Arrived
          BY <3>1
        <4>2. Len(got) + 1 = frames /\ serving = "key"
          BY <1>0, <1>4, <3>2, <3>3, <4>1 DEF DrawInv
        <4>3. frames = Len(sent) + 1
          BY <1>0, <1>4, <4>2 DEF SentInv
        <4> QED BY <1>0, <4>2, <4>3
      <3>4. CASE ResponseAt(1) /\ Frames = Len(got)
        BY <2>2, <3>4 DEF Frames
      <3> QED BY <3>2, <3>3, <3>4
    <2>7. ASSUME NEW i \in 1..Arrived, NEW f \in 1..MaxFrames, DrawAt(i, f)
          PROVE  /\ i + 6 <= Arrived => Due(i + 6, f + 1)'
                 /\ i + 5 = Arrived => f = Len(sent)
      <3>1. i \in 1..Len(Stream) /\ i \in p..Len(Stream) /\ i \in Nat
        BY <1>0, <2>1
      <3>2. i + 6 <= Len(Stream) => Due(i + 6, f + 1)
        BY <1>0, <2>7, <3>1 DEF PlainInv
      <3>3. ASSUME i + 6 <= Arrived PROVE Due(i + 6, f + 1)'
        <4>1. i + 6 \in 1..Arrived /\ i + 6 <= Len(Stream)
          BY <2>1, <3>1, <3>3
        <4> QED BY <2>3, <3>2, <4>1
      <3>4. ASSUME i + 5 = Arrived PROVE f = Len(sent)
        <4>1. i + 6 <= Len(Stream) /\ i + 6 > Arrived
          BY <2>1, <3>1, <3>4
        <4>2. /\ i + 6 \in p..Len(Stream)
              /\ \/ DrawAt(i + 6, f + 1) /\ f + 1 \in 1..MaxFrames
                 \/ ResponseAt(i + 6) /\ Frames = f
          BY <2>7, <3>1, <4>1, Follows
        <4>3. CASE DrawAt(i + 6, f + 1) /\ f + 1 \in 1..MaxFrames
          <5>1. (i + 6) + 5 > Arrived
            BY <2>1, <3>1, <4>1
          <5>2. f + 1 = frames /\ serving = "key"
            BY <1>0, <1>4, <4>2, <4>3, <5>1 DEF DrawInv
          <5>3. frames = Len(sent) + 1
            BY <1>0, <1>4, <5>2 DEF SentInv
          <5> QED BY <1>0, <5>2, <5>3
        <4>4. CASE ResponseAt(i + 6) /\ Frames = f
          BY <2>2, <4>4 DEF Frames
        <4> QED BY <4>2, <4>3, <4>4
      <3> QED BY <3>3, <3>4
    <2>8. \A i \in 1..Len(Stream'), f \in 1..MaxFrames : DrawAt(i, f)' =>
            /\ i + 6 <= Len(Stream') => Due(i + 6, f + 1)'
            /\ i + 5 = Len(Stream') => f = Len(sent') + (IF out' = <<>> THEN 0 ELSE 1)
      <3> SUFFICES ASSUME NEW i \in 1..Len(Stream'), NEW f \in 1..MaxFrames, DrawAt(i, f)'
                   PROVE  /\ i + 6 <= Len(Stream') => Due(i + 6, f + 1)'
                          /\ i + 5 = Len(Stream') => f = Len(sent')
        BY <1>0, <1>1
      <3>1. DrawAt(i, f) /\ i \in 1..Arrived
        BY <1>0, <1>1, <2>1
      <3>2. /\ i + 6 <= Arrived => Due(i + 6, f + 1)'
            /\ i + 5 = Arrived => f = Len(sent)
        BY <2>7, <3>1
      <3> QED BY <1>1, <2>1, <3>2
    <2>9. \A i \in 1..Len(got') : got'[i] = Frame(i)
      BY <1>0, <1>1 DEF PlainInv
    <2> QED BY <1>0, <1>1, <1>2, <2>2, <2>5, <2>6, <2>8, <2>9 DEF PlainInv
  <1> QED BY <1>3, <1>4

LEMMA QuietPlain ==
  ASSUME Whose, UNCHANGED <<buf, wire, out, p, got, sent, pc>>,
         serving' = "close" => serving = "close"
  PROVE  PlainInv'
  <1>1. Stream' = Stream
    BY DEF Stream
  <1>2. pc' = "wait" => Len(buf') < DrawLen + 3 /\ (Len(buf') > 1 => buf'[1] # Line("response", 0))
    BY DEF Whose, PlainInv
  <1> QED BY <1>1, <1>2, PlainQuiet

LEMMA NextPlain ==
  ASSUME Whose, TypeOK', SentInv', [Next]_vars, plain', pc' # "done"
  PROVE  PlainInv'
  <1>1. CASE relay_setup \/ filly_client_connect \/ RelayPoll \/ filly_client_process
               \/ filly_client_get_response
    BY <1>1, ReadsPlain
  <1>2. CASE ScanEnd \/ ScanPartialDraw
    BY <1>2, WaitsPlain
  <1>3. CASE ScanDraw
    BY <1>3, DrawPlain
  <1>4. CASE ScanResponse
    BY <1>4 DEF ScanResponse, Exit
  <1>5. CASE ScanOther
    BY <1>5, NoOther
  <1>6. CASE Daemon \/ Answers \/ DaemonDies
    <2>1. ASSUME NEW s \in Streaming, DaemonDraws(s) PROVE PlainInv'
      BY <2>1, DrawsPlain
    <2>2. CASE DaemonCloses
      BY <2>2, QuietPlain DEF DaemonCloses, scan
    <2>3. CASE Answers
      <3>1. PICK m \in MessagePack : DaemonAnswers(m)
        BY <2>3 DEF Answers
      <3>2. m \in BOOLEAN /\ ~m
        BY <3>1, ClientAssumption DEF DaemonAnswers
      <3>3. m = FALSE
        BY <3>2
      <3> QED BY <3>1, <3>3, AnswersPlain
    <2> QED BY <1>6, <2>1, <2>2, <2>3, WritesPlain, DiesPlain DEF Daemon
  <1>7. CASE User
    <2>1. UNCHANGED <<buf, wire, out, p, got, sent, pc, serving>>
      BY <1>7 DEF User, Press, relay_run, filly_client_send_key, daemon, scan
    <2> QED BY <2>1, QuietPlain
  <1>8. CASE UNCHANGED vars
    <2>1. UNCHANGED <<buf, wire, out, p, got, sent, pc, serving>>
      BY <1>8 DEF vars, daemon, scan
    <2> QED BY <2>1, QuietPlain
  <1> QED BY <1>1, <1>2, <1>3, <1>4, <1>5, <1>6, <1>7, <1>8 DEF Next, Client

-----------------------------------------------------------------------------
(* What the client ends with.                                              *)

(* Once the answer is sent the daemon sends nothing more.                  *)
LEMMA AnswerIsLast ==
  ASSUME SentInv, AnswerSent
  PROVE  serving \in {"close", "closed"} /\ out = <<>>
  BY DEF SentInv

LEMMA PlainBefore ==
  ASSUME [Next]_vars, plain'
  PROVE  plain
  <1>1. ASSUME NEW s, DaemonDraws(s) PROVE plain
    <2>1. plain' = (plain /\ ~s)
      BY <1>1 DEF DaemonDraws
    <2> QED BY <2>1
  <1>2. CASE UNCHANGED plain
    BY <1>2
  <1>3. CASE UNCHANGED vars
    BY <1>2, <1>3 DEF vars, daemon
  <1>4. CASE Client
    <2>1. UNCHANGED plain
      BY <1>4 DEF Client, relay_setup, filly_client_connect, RelayPoll, filly_client_process,
                  filly_client_get_response, ScanEnd, ScanDraw, ScanPartialDraw, ScanResponse,
                  ScanOther, daemon
    <2> QED BY <1>2, <2>1
  <1>5. CASE DaemonWrites \/ DaemonCloses \/ DaemonDies
    <2>1. UNCHANGED plain
      BY <1>5 DEF DaemonWrites, DaemonCloses, DaemonDies
    <2> QED BY <1>2, <2>1
  <1>7. ASSUME NEW m, DaemonAnswers(m) PROVE plain
    <2>1. plain' = (plain /\ ~m)
      BY <1>7 DEF DaemonAnswers
    <2> QED BY <2>1
  <1>6. CASE User
    <2>1. UNCHANGED plain
      BY <1>6 DEF User, Press, relay_run, filly_client_send_key, daemon
    <2> QED BY <1>2, <2>1
  <1> QED BY <1>1, <1>3, <1>4, <1>5, <1>6, <1>7 DEF Next, Daemon, Answers

(* The client is gone, the daemon may go on.                               *)
LEMMA DoneLoss ==
  ASSUME TypeOK, SentInv, LossInv, [Next]_vars, pc = "done"
  PROVE  LossInv'
  <1>1. \/ \E s \in Streaming : DaemonDraws(s)
        \/ DaemonWrites \/ DaemonCloses \/ Answers \/ DaemonDies \/ UNCHANGED vars
    BY DEF Next, Client, Daemon, User, relay_setup, filly_client_connect, RelayPoll,
           filly_client_process, filly_client_get_response, ScanEnd, ScanDraw, ScanPartialDraw,
           ScanResponse, ScanOther, Scanning, Press, relay_run, filly_client_send_key
  <1>2. UNCHANGED <<mode, pc, response_received, got, status>> /\ (plain' => plain)
    <2>1. UNCHANGED <<mode, pc, response_received, got, status>>
      BY <1>1 DEF DaemonDraws, DaemonWrites, DaemonCloses, Answers, DaemonAnswers, DaemonDies,
                  vars, scan
    <2> QED BY <1>1, <2>1, PlainBefore DEF Next, Daemon
  <1>3. ASSUME AnswerSent PROVE sent' = sent
    <2>1. serving \in {"close", "closed"} /\ out = <<>>
      BY <1>3, AnswerIsLast
    <2> QED BY <1>1, <2>1 DEF DaemonDraws, DaemonWrites, DaemonCloses, Answers, DaemonAnswers,
                              DaemonDies, vars, daemon
  <1>4. ASSUME serving \in {"request", "closed"} PROVE UNCHANGED <<serving, sent>>
    <2>1. out = <<>>
      BY <1>4 DEF SentInv
    <2> QED BY <1>1, <1>4, <2>1 DEF DaemonDraws, DaemonWrites, DaemonCloses, Answers,
                                    DaemonAnswers, DaemonDies, vars, daemon
  <1>5. /\ status' = "running" <=> pc' # "done"
        /\ pc' = "read" => mode' = "relay"
        /\ pc' = "done"
    BY <1>2 DEF LossInv
  <1>6. response_received' => AnswerSent' /\ (plain' => got' = sent')
    BY <1>2, <1>3 DEF LossInv, AnswerSent
  <1>7. plain' /\ mode' = "send" /\ status' = "failed" =>
          ~AnswerSent' /\ serving' \in {"request", "closed"}
    BY <1>2, <1>4 DEF LossInv, AnswerSent
  <1> QED BY <1>5, <1>6, <1>7 DEF LossInv

(* A caller of filly_client_get_response that is told the connection is    *)
(* closed has not missed the answer: the buffer would hold it.             *)
LEMMA NotMissed ==
  ASSUME Whose, pc = "wait", wire = <<>>, serving = "closed"
  PROVE  ~AnswerSent
  <1> SUFFICES ASSUME AnswerSent PROVE FALSE
    OBVIOUS
  <1>0. TypeOK /\ SentInv /\ DrawInv /\ PlainInv /\ out = <<>> /\ p = 1
    BY DEF Whose, FrameInv, PlainInv, SentInv
  <1>1. /\ Len(Stream) = Len(buf) /\ Len(buf) \in Nat
    BY <1>0, StreamFacts DEF StreamShape
  <1>2. /\ Len(Stream) > 1 /\ Stream[Len(Stream) - 1] = Line("response", 0)
        /\ Len(buf) < DrawLen + 3
        /\ Len(buf) > 1 => buf[1] # Line("response", 0)
    BY <1>0 DEF PlainInv
  <1>3. buf # <<>>
    BY <1>1, <1>2
  <1>4. /\ Len(got) + 1 \in 1..MaxFrames /\ DrawAt(1, Len(got) + 1)
    BY <1>1, <1>2, <1>3, BufBegins
  <1>5. Intact(Stream, 1, Len(got) + 1) /\ Stream[1] = Line("draw", Len(got) + 1)
    BY <1>0, <1>1, <1>2, <1>4 DEF DrawInv, DrawAt
  <1>6. /\ Len(Stream) > 1 => Stream[2] = NL
        /\ Len(Stream) > 2 => Stream[3] = Byte(Len(got) + 1)
        /\ Len(Stream) > 3 => Stream[4] = NL
    <2>1. /\ 1 + 1 = 2 /\ 1 + 2 = 3 /\ 1 + 3 = 4
          /\ Len(Stream) > 1 => 2 <= Len(Stream)
          /\ Len(Stream) > 2 => 3 <= Len(Stream)
          /\ Len(Stream) > 3 => 4 <= Len(Stream)
      BY <1>1
    <2> QED BY <1>5, <2>1 DEF Intact
  <1>7. Len(Stream) \in {2, 3, 4, 5}
    BY <1>1, <1>2 DEF DrawLen
  <1>8. Line("response", 0) \notin {Line("draw", Len(got) + 1), NL, Byte(Len(got) + 1)}
    BY TokenFacts
  <1>9. /\ 2 - 1 = 1 /\ 3 - 1 = 2 /\ 4 - 1 = 3 /\ 5 - 1 = 4
        /\ 2 > 1 /\ 3 > 1 /\ 4 > 2 /\ 5 > 3
    OBVIOUS
  <1> QED BY <1>2, <1>5, <1>6, <1>7, <1>8, <1>9

(* With the answer the caller has all that was sent.                       *)
LEMMA AllThere ==
  ASSUME Whose, TypeOK', ScanResponse
  PROVE  got' = sent
  <1>0. /\ TypeOK /\ SentInv /\ FrameInv /\ PlainInv /\ p = 1
        /\ got \in Seq(Deliveries) /\ sent \in Seq(Messages) /\ Len(got) \in Nat /\ Len(sent) \in Nat
        /\ got' \in Seq(Deliveries)
    BY DEF Whose, PlainInv, TypeOK, DaemonType, ClientType
  <1>1. AnswerSent
    BY <1>0, AnswerFound
  <1>2. Len(sent) > 0 /\ sent[Len(sent)] = Response /\ Frames = Len(sent) - 1
    <2>1. sent # <<>> /\ Last(sent) = Response
      BY <1>1 DEF AnswerSent
    <2> QED BY <1>0, <1>1, <2>1 DEF Last, Frames
  <1>3. Frames = Len(got)
    <2>1. Newlines # {} /\ Parsed = "response" /\ buf \in Seq(Tokens) /\ p \in 1..Len(buf) + 1
      BY <1>0 DEF ScanResponse, Scanning, TypeOK, ClientType
    <2>2. nl \in p..Len(buf)
      BY <2>1, FirstNewline
    <2>3. buf # <<>>
      BY <1>0, <2>1, <2>2
    <2>4. buf[1].t = "line" /\ buf[1].type = "response"
      BY <1>0, <2>1 DEF Parsed
    <2>5. buf[1] # Line("draw", Len(got) + 1)
      BY <2>4, TokenFacts
    <2> QED BY <2>3, <2>5, BufBegins
  <1>4. Response \in Deliveries
    BY DEF Response, Deliveries
  <1>5. /\ Len(got') = Len(got) + 1 /\ got'[Len(got) + 1] = Response
        /\ \A i \in 1..Len(got) : got'[i] = got[i]
    <2>1. got' = Append(got, Response)
      BY DEF ScanResponse
    <2> QED BY <1>0, <1>4, <2>1, Appended
  <1>6. Len(got') = Len(sent) /\ Len(got) + 1 = Len(sent)
    BY <1>0, <1>2, <1>3, <1>5
  <1>7. ASSUME NEW i \in 1..Len(got') PROVE got'[i] = sent[i]
    <2>1. CASE i = Len(sent)
      BY <1>2, <1>5, <1>6, <2>1
    <2>2. CASE i # Len(sent)
      <3>1. i \in 1..Len(got) /\ i \in 1..Len(sent)
        BY <1>0, <1>6, <2>2
      <3>2. sent[i] = Frame(i)
        BY <1>0, <2>2, <3>1 DEF SentInv
      <3>3. got[i] = Frame(i)
        BY <1>0, <3>1 DEF PlainInv
      <3> QED BY <1>5, <3>1, <3>2, <3>3
    <2> QED BY <2>1, <2>2
  <1>8. sent \in Seq(Deliveries)
    <2>1. Messages \subseteq Deliveries
      <3>1. \A f \in 1..MaxFrames : Byte(f) \in Tokens /\ NL \in Tokens
        BY DEF Tokens
      <3>2. \A f \in 1..MaxFrames : Payload(f) \in Seq(Tokens)
        BY <3>1 DEF Payload
      <3> QED BY <1>4, <3>2 DEF Messages, Frame, Deliveries
    <2> QED BY <1>0, <2>1
  <1> QED BY <1>0, <1>6, <1>7, <1>8, SameSeq

(* The steps with which the client ends.                                   *)
LEMMA LastLoss ==
  ASSUME TypeOK, TypeOK', SentInv, FrameInv, LossInv, CLIENT_BUF_SIZE > DrawLen + 3,
         [Next]_vars, pc # "done", pc' = "done"
  PROVE  LossInv'
  <1>0. /\ status = "running" /\ ~response_received
        /\ plain' => plain /\ Whose
    <2>1. plain' => plain
      BY PlainBefore
    <2> QED BY <2>1 DEF LossInv, Whose
  <1>1. CASE ScanResponse
    <2>1. /\ status' = "answered" /\ UNCHANGED <<sent, mode>> /\ AnswerSent
      BY <1>1, AnswerFound DEF ScanResponse, Exit, daemon
    <2>2. plain' => got' = sent'
      BY <1>0, <1>1, <2>1, AllThere
    <2> QED BY <2>1, <2>2 DEF LossInv, AnswerSent
  <1>2. CASE ~ScanResponse
    <2>1. \/ filly_client_connect \/ filly_client_get_response
          \/ relay_setup \/ filly_client_process \/ \E n \in 1..Len(typed) : relay_run(n)
      BY <1>2 DEF Next, Client, Daemon, User, RelayPoll, ScanEnd, ScanDraw, ScanPartialDraw,
           ScanOther, Press, filly_client_send_key, DaemonDraws, DaemonWrites, DaemonCloses,
           Answers, DaemonAnswers, DaemonDies, vars
    <2>2. /\ UNCHANGED <<mode, sent, response_received>>
          /\ status' \in {"failed", "killed"}
      BY <2>1 DEF filly_client_connect, filly_client_get_response, relay_setup,
           filly_client_process, relay_run, Fail, Exit, daemon, scan
    <2>3. ASSUME plain', mode = "send"
          PROVE  ~AnswerSent /\ serving' \in {"request", "closed"}
      <3>1. CASE filly_client_connect
        <4>1. serving = "request" /\ serving' = serving
          BY <3>1 DEF filly_client_connect, SentInv
        <4> QED BY <4>1 DEF SentInv
      <3>2. CASE filly_client_get_response
        <4>1. /\ pc = "wait" /\ serving' = serving
              /\ \/ CLIENT_BUF_SIZE - Len(buf) - 1 <= 0
                 \/ wire = <<>> /\ serving = "closed"
          BY <3>2 DEF filly_client_get_response, daemon
        <4>2. Len(buf) < DrawLen + 3
          BY <1>0, <2>3, <4>1 DEF Whose, PlainInv
        <4>3. ~(CLIENT_BUF_SIZE - Len(buf) - 1 <= 0)
          <5>1. CLIENT_BUF_SIZE \in Nat /\ Len(buf) \in Nat
            BY ClientAssumption DEF TypeOK, ClientType
          <5> QED BY <4>2, <5>1 DEF DrawLen
        <4> QED BY <1>0, <2>3, <4>1, <4>3, NotMissed
      <3>3. CASE relay_setup \/ filly_client_process \/ \E n \in 1..Len(typed) : relay_run(n)
        BY <2>3, <3>3 DEF relay_setup, filly_client_process, relay_run, LossInv
      <3> QED BY <2>1, <3>1, <3>2, <3>3
    <2> QED BY <1>0, <2>2, <2>3 DEF LossInv, AnswerSent
  <1> QED BY <1>1, <1>2

LEMMA NextLoss ==
  ASSUME TypeOK, TypeOK', SentInv, SentInv', FrameInv, LossInv, CLIENT_BUF_SIZE > DrawLen + 3,
         [Next]_vars
  PROVE  LossInv'
  <1>1. CASE pc # "done" /\ pc' # "done"
    <2>1. plain' => PlainInv'
      <3> HAVE plain'
      <3>1. Whose
        BY <1>1, PlainBefore DEF LossInv, Whose
      <3> QED BY <1>1, <3>1, NextPlain
    <2>2. /\ UNCHANGED <<mode, response_received, status>>
          /\ pc' = "read" => pc = "read" \/ mode = "relay"
      BY <1>1 DEF Next, Client, Daemon, User, relay_setup, filly_client_connect, RelayPoll,
           filly_client_process, filly_client_get_response, ScanEnd, ScanDraw, ScanPartialDraw,
           ScanResponse, ScanOther, Press, relay_run, filly_client_send_key, DaemonDraws,
           DaemonWrites, DaemonCloses, Answers, DaemonAnswers, DaemonDies, vars, scan, Fail, Exit
    <2> QED BY <1>1, <2>1, <2>2 DEF LossInv
  <1> QED BY <1>1, LastLoss, DoneLoss

LEMMA InitLoss == Init => LossInv
  <1> SUFFICES ASSUME Init PROVE LossInv
    OBVIOUS
  <1>1. /\ buf = <<>> /\ wire = <<>> /\ out = <<>> /\ sent = <<>> /\ got = <<>> /\ p = 1
        /\ pc = "start" /\ serving = "request" /\ status = "running" /\ response_received = FALSE
    BY DEF Init
  <1>2. Stream = <<>> /\ Len(Stream) = 0
    BY <1>1 DEF Stream
  <1>3. ~AnswerSent
    BY <1>1 DEF AnswerSent
  <1>4. PlainInv
    BY <1>1, <1>2, <1>3 DEF PlainInv
  <1> QED BY <1>1, <1>4 DEF LossInv

(* As long as only frames and the answer are written, in NDJSON (what a    *)
(* MessagePack answer does is AnswerDecoded's), the client misses none of  *)
(* them: with the answer it has all that was sent, and one that waits in   *)
(* filly_client_get_response for a daemon that has answered gets           *)
(* the answer.  It holds for any buffer that has room for a frame with its *)
(* header, which is what filly_client_get_response needs to go on reading. *)
THEOREM NothingIsLost ==
  ASSUME CLIENT_BUF_SIZE > DrawLen + 3
  PROVE  Spec => []NothingLost
  <1> DEFINE Inv == TypeOK /\ SentInv /\ FrameInv /\ LossInv
  <1>1. Init => Inv
    BY InitType, InitSent, InitFrame, InitLoss
  <1>2. Inv /\ [Next]_vars => Inv'
    BY NextType, NextSent, NextFrame, NextLoss
  <1>3. Inv => NothingLost
    BY DEF LossInv, NothingLost
  <1> QED BY <1>1, <1>2, <1>3, PTL DEF Spec
=============================================================================
