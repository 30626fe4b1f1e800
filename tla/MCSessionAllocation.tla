--------------------------- MODULE MCSessionAllocation ---------------------------
(* Instances of SessionAllocation for TLC: which requests compete for what. *)
EXTENDS SessionAllocation, TLC

CONSTANTS r1, r2, r3, d1, d2, d3, l1, l2

OneLock == [r \in Requests |-> l1]

MatchAll == [r \in Requests |-> Devices]

\* r2 names the udid of d1, the others take any device.
MatchUdid == [r \in Requests |-> IF r = r2 THEN {d1} ELSE Devices]

\* r2 has other capabilities, and so another lock name.
TwoLocks == [r \in Requests |-> IF r = r2 THEN l2 ELSE l1]
====
