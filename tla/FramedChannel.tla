--------------------------- MODULE FramedChannel ---------------------------
(***************************************************************************)
(* What a client of the daemon is promised: the messages that reach it are *)
(* among those sent, whole, in the order of their sending, none twice.     *)
(***************************************************************************)
EXTENDS Integers, Sequences, SequencesExt

VARIABLES sent,   \* the messages completely written
          got,    \* the messages handed to the client's caller
          at      \* the place in sent of the last of them

Init == sent = <<>> /\ got = <<>> /\ at = 0

Send ==
  /\ Len(sent') = Len(sent) + 1
  /\ IsPrefix(sent, sent')
  /\ UNCHANGED <<got, at>>

Receive ==
  /\ at' \in at + 1..Len(sent)
  /\ got' = Append(got, sent[at'])
  /\ UNCHANGED sent

Next == Send \/ Receive

Spec == Init /\ [][Next]_<<sent, got, at>>
=============================================================================
