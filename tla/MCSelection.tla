----------------------------- MODULE MCSelection -----------------------------
(* Instance of Selection for TLC: two devices of each platform, which differ *)
(* in all that a filter may ask for.                                         *)
EXTENDS Selection

MCRows ==
  [a1 |-> [platform |-> "android", type |-> "real", name |-> "phone", sdk |-> 1, tags |-> {}],
   a2 |-> [platform |-> "android", type |-> "real", name |-> "tablet", sdk |-> 2,
           tags |-> {"team"}],
   i1 |-> [platform |-> "ios", type |-> "real", name |-> "iPhone", sdk |-> 2, tags |-> {"team"}],
   i2 |-> [platform |-> "ios", type |-> "simulator", name |-> "iPad", sdk |-> 2, tags |-> {}]]

\* All but the device that is busy and blocked by the user as well.
MCFlags == {f \in [busy : BOOLEAN, userBlocked : BOOLEAN] : ~(f.busy /\ f.userBlocked)}

\* UDIDS, where it is set, lists the first device of each platform.
MCUdidsVar == {{}, {"a1", "i1"}}

MCTagLists == {<<"team">>, <<"lab", "team">>}
====
