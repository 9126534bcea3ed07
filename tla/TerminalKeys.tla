---------------------------- MODULE TerminalKeys ----------------------------
(***************************************************************************)
(* From the bytes of a terminal to keys, twice: term_next_event reads them *)
(* for a widget on this terminal (src/backend/terminal/terminal.c), the    *)
(* relay reads them in parse_csi and relay_run (src/core/relay.c), sends   *)
(* key messages, and sock_next_event makes keys of those.  The operators   *)
(* take the bytes that arrive in time; what comes later is read as a new   *)
(* key.  Of the tables one entry of each shape is kept.                    *)
(***************************************************************************)
EXTENDS Integers, Sequences, SequencesExt

\* What the terminal sends for a key.  The relay asks for reports of clicks
\* in SGR form, but the last two bytes of the request are not written; they
\* come in either form, for a terminal may have been left in the other.
Bytes ==
  [a       |-> <<"a">>,
   quote   |-> <<"quote">>,
   ctrl_v  |-> <<"SYN">>,
   enter   |-> <<"CR">>,
   esc     |-> <<"ESC">>,
   up      |-> <<"ESC", "[", "A">>,
   delete  |-> <<"ESC", "[", "3", "~">>,
   f5      |-> <<"ESC", "[", "1", "5", "~">>,
   f1      |-> <<"ESC", "O", "P">>,
   ctrl_up |-> <<"ESC", "[", "1", "semi", "5", "A">>,
   click   |-> <<"ESC", "[", "M", "blank", "!", "!">>,
   sgr_click |-> <<"ESC", "[", "<", "0", "semi", "1", "semi", "1", "M">>]

Control == {"SYN"}
Digits == {"0", "1", "3", "5"}
Finals == {"A", "M", "O", "P", "a", "~"}     \* letters, and ~

Key(code) == [code |-> code, ch |-> "none"]
Char(ch) == [code |-> "char", ch |-> ch]
Nothing == [code |-> "none", ch |-> "none"]     \* EVENT_NONE

\* A key, or Nothing, and how many bytes it took.
Read(key, used) == [key |-> key, used |-> used]

-----------------------------------------------------------------------------
(* What both decoders know: letters that stand alone, numbers before ~ and *)
(* the letters after O.                                                    *)
Letters == [A |-> "up"]
Tilde == [n \in {<<"3">>, <<"1", "5">>} |-> IF n = <<"3">> THEN "delete" ELSE "f5"]
AfterO == [P |-> "f1"]

\* atoi stops at the semicolon.
Number(params) ==
  LET semi == {i \in DOMAIN params : params[i] = "semi"} IN
  IF semi = {} THEN params
  ELSE SubSeq(params, 1, (CHOOSE i \in semi : \A j \in semi : i <= j) - 1)

CsiKey(params, final) ==
  IF params = <<>> /\ final \in DOMAIN Letters THEN Key(Letters[final])
  ELSE IF final = "~" /\ Number(params) \in DOMAIN Tilde THEN Key(Tilde[Number(params)])
  ELSE Nothing

\* The loop over digits and semicolons, other bytes skipped, from the third
\* byte of the sequence up to the one that ends it.
Ends3(in) == {i \in 3..Len(in) : in[i] \in Finals}
End(in) == CHOOSE i \in Ends3(in) : \A j \in Ends3(in) : i <= j
Params(in) ==
  LET kept == {i \in 3..End(in) - 1 : in[i] \in Digits \cup {"semi"}}
      nth(n) == CHOOSE i \in kept : Cardinality({j \in kept : j <= i}) = n
  IN [n \in 1..Cardinality(kept) |-> in[nth(n)]]

Simple(b) == IF b = "CR" THEN Key("enter") ELSE Char(b)

-----------------------------------------------------------------------------
(* relay.c.  parse_csi reads what follows an escape; relay_run sends       *)
(* KEY_ESC whenever that is no key it knows, or is cut short.              *)
parse_csi(in) ==
  CASE in[2] = "[" /\ Ends3(in) # {} -> Read(CsiKey(Params(in), in[End(in)]), End(in))
    [] in[2] = "[" /\ Ends3(in) = {} -> Read(Nothing, Len(in))
    [] in[2] = "O" /\ Len(in) > 2 ->
         Read(IF in[3] \in DOMAIN AfterO THEN Key(AfterO[in[3]]) ELSE Nothing, 3)
    [] OTHER -> Read(Nothing, 2)

RelayKey(in) ==
  IF in[1] # "ESC" THEN Read(Simple(in[1]), 1)
  ELSE IF Len(in) = 1 THEN Read(Key("esc"), 1)
  ELSE LET r == parse_csi(in) IN IF r.key = Nothing THEN Read(Key("esc"), r.used) ELSE r

\* The key message: the text of a character that cannot be printed is empty.
key_message(key) == IF key.ch \in Control THEN [key EXCEPT !.ch = "none"] ELSE key

-----------------------------------------------------------------------------
(* terminal.c: a sequence that is cut behind its first byte is KEY_ESC,    *)
(* one that is not known is no event, and clicks are read in SGR form.     *)
term_next_event(in) ==
  CASE in[1] # "ESC" -> Simple(in[1])
    [] in = <<"ESC">> \/ in = <<"ESC", "[">> \/ in = <<"ESC", "O">> -> Key("esc")
    [] in[1] = "ESC" /\ Len(in) > 2 /\ in[2] = "[" /\ in[3] = "<" -> Key("mouse")
    [] in[1] = "ESC" /\ Len(in) > 2 /\ in[2] = "[" /\ in[3] # "<" ->
         IF Ends3(in) = {} THEN Nothing ELSE CsiKey(Params(in), in[End(in)])
    [] in[1] = "ESC" /\ Len(in) > 2 /\ in[2] = "O" ->
         IF in[3] \in DOMAIN AfterO THEN Key(AfterO[in[3]]) ELSE Nothing
    [] OTHER -> Key("esc")
=============================================================================
