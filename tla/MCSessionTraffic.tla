--------------------------- MODULE MCSessionTraffic ---------------------------
(* Instance of SessionTraffic for TLC: a session on a node with a command, a *)
(* DELETE and its retry, and a session of the hub's own with its DELETE; and *)
(* tests, which run on the node.                                             *)
EXTENDS SessionTraffic

CONSTANTS remote, own, look, quit, retry, ownQuit, test, hook, other

MCSessionOf ==
  [x \in Commands \cup Events |-> IF x \in {ownQuit, other} THEN own ELSE remote]
====
