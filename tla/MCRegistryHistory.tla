--------------------------- MODULE MCRegistryHistory ---------------------------
(* Instances of RegistryHistory for TLC: a hub and a node, each with an       *)
(* emulator; the emulators have the same udid.                               *)
EXTENDS RegistryHistory

CONSTANTS hub, n1, e0, e1, emulator

\* e0 is attached to the hub, e1 to the node.
Attached == [d \in Devices |-> IF d = e0 THEN hub ELSE n1]

OneUdid == [d \in Devices |-> emulator]

\* No host's address is part of another's URL.
Apart == [h \in Hosts |-> {h}]

\* The node's address is part of the hub's URL.
Contained == [h \in Hosts |-> IF h = hub THEN {hub} ELSE {h, hub}]
====
