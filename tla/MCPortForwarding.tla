--------------------------- MODULE MCPortForwarding ---------------------------
(* Instances of PortForwarding for TLC.                                      *)
EXTENDS PortForwarding

CONSTANTS s1, s2, d1, d2
====
