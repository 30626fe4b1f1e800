------------------------------ MODULE SessionLease ------------------------------
(***************************************************************************)
(* The lease that SessionAllocation implements: which request each device  *)
(* is leased to, and which requests have had their lease.  A device whose  *)
(* allocation was disturbed counts as withdrawn.                           *)
(***************************************************************************)
EXTENDS SessionHistory

Lessee == [d \in Devices |->
  IF d \notin spoiled /\ \E r \in Requests : Holds(r, d)
    THEN CHOOSE r \in Requests : Holds(r, d)
    ELSE NoRequest]

Served == {r \in Requests : dev[r] # NoDevice /\ pc[r] # "blocking"}

Lease == INSTANCE DeviceLease
           WITH Free <- NoRequest, lessee <- Lessee, served <- Served,
                withdrawn <- spoiled

\* The hub implements the lease: every step is a lease taken or given back, a
\* device withdrawn or given out after that, or none of these.
ImplementsLease == Lease!Spec
====
