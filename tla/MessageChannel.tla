---------------------------- MODULE MessageChannel ----------------------------
(* What the parser of usbmux.ts promises its callback: the messages of       *)
(* usbmuxd, each once and in the order in which they were sent, however the  *)
(* stream was cut into chunks.  A channel that has become faulty promises    *)
(* only that what it passes on has been sent.                                *)
EXTENDS Naturals, Sequences

VARIABLES sent, heard, faulty

Init == sent = <<>> /\ heard = <<>> /\ faulty = FALSE

\* Any messages may be sent.
Send ==
  /\ Len(sent') >= Len(sent) /\ SubSeq(sent', 1, Len(sent)) = sent
  /\ UNCHANGED <<heard, faulty>>

Hear ==
  /\ ~faulty
  /\ Len(heard) < Len(sent)
  /\ heard' = Append(heard, sent[Len(heard) + 1])
  /\ UNCHANGED <<sent, faulty>>

HearSome ==
  /\ faulty
  /\ \E i \in DOMAIN sent : heard' = Append(heard, sent[i])
  /\ UNCHANGED <<sent, faulty>>

Fail == faulty' = TRUE /\ UNCHANGED <<sent, heard>>

Spec == Init /\ [][Send \/ Hear \/ HearSome \/ Fail]_<<sent, heard, faulty>>
====
