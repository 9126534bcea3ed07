-------------------------- MODULE MCClientFraming --------------------------
(* Small instances of ClientFraming for TLC.                               *)
EXTENDS ClientFraming

SomeKeys == {"quote", "esc", "delete", "ctrl_v"}
CsiKeys == {"up", "f1", "f5", "ctrl_up"}  \* enough to refute HearsTheSame
Either == {TRUE, FALSE}
=============================================================================
