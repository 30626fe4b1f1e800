------------------------------ MODULE DeviceLease ------------------------------
(***************************************************************************)
(* What device allocation promises: a device is leased to one request at a *)
(* time, a request has at most one lease in its life, and a lease ends     *)
(* before the device is leased again.  A device may be withdrawn, one at a *)
(* time: from then on nothing is promised of it, and a request may be      *)
(* served with it.                                                         *)
(***************************************************************************)
CONSTANTS Requests, Devices, Free

VARIABLES
  lessee,     \* the request each device is leased to, or Free
  served,     \* requests that have had their lease
  withdrawn   \* devices no longer leased

Init ==
  /\ lessee = [d \in Devices |-> Free]
  /\ served = {}
  /\ withdrawn = {}

Take(r, d) ==
  /\ d \notin withdrawn
  /\ lessee[d] = Free
  /\ r \notin served
  /\ lessee' = [lessee EXCEPT ![d] = r]
  /\ served' = served \cup {r}
  /\ UNCHANGED withdrawn

GiveBack(d) ==
  /\ lessee[d] # Free
  /\ lessee' = [lessee EXCEPT ![d] = Free]
  /\ UNCHANGED <<served, withdrawn>>

Withdraw(d) ==
  /\ d \notin withdrawn
  /\ withdrawn' = withdrawn \cup {d}
  /\ lessee' = [lessee EXCEPT ![d] = Free]
  /\ UNCHANGED served

ServeWithdrawn(r) ==
  /\ withdrawn # {}
  /\ r \notin served
  /\ served' = served \cup {r}
  /\ UNCHANGED <<lessee, withdrawn>>

Next ==
  \/ \E r \in Requests, d \in Devices : Take(r, d)
  \/ \E d \in Devices : GiveBack(d) \/ Withdraw(d)
  \/ \E r \in Requests : ServeWithdrawn(r)

Spec == Init /\ [][Next]_<<lessee, served, withdrawn>>
====
