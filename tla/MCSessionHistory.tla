--------------------------- MODULE MCSessionHistory ---------------------------
(* Instances of SessionHistory for TLC: the same, under two lock names. *)
EXTENDS SessionLease, TLC

CONSTANTS r1, r2, r3, d1, d2, l1, l2

\* The capabilities of r3 give another lock name than those of the others.
TwoLocks == [r \in Requests |-> IF r = r3 THEN l2 ELSE l1]

MatchAll == [r \in Requests |-> Devices]

Symmetry == Permutations({r1, r2}) \cup Permutations({d1, d2})
====
