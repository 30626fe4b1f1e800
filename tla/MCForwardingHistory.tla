-------------------------- MODULE MCForwardingHistory --------------------------
(* Instances of ForwardingHistory for TLC.                                   *)
EXTENDS ForwardingHistory

CONSTANTS s1, s2, s3, d1, d2
====
