---------------------------- MODULE MCAcceptLoop ----------------------------
(* Small instances of AcceptLoop for TLC.                                  *)
EXTENDS AcceptLoop
=============================================================================
