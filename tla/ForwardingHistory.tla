--------------------------- MODULE ForwardingHistory ---------------------------
(***************************************************************************)
(* PortForwarding with a history variable: which sessions were given their *)
(* device while the deleteSession that had freed it was still under way.   *)
(* The properties say what such a deleteSession may do to its successor,   *)
(* and what holds for all other sessions.                                  *)
(***************************************************************************)
EXTENDS PortForwarding

VARIABLE overtaken \* pairs: a session that was ending, and its successor

historyVars == <<vars, overtaken>>

\* This step gives s the device of t, whose deleteSession is under way.
Overtakes(s, t) ==
  pc[s] = "new" /\ pc'[s] = "allocated" /\ pc[t] \in Deleting /\ dev[t] = dev'[s]

HistoryInit == Init /\ overtaken = {}

HistoryNext ==
  /\ Next
  /\ overtaken' = overtaken \cup {x \in Sessions \X Sessions : Overtakes(x[2], x[1])}

HistorySpec == HistoryInit /\ [][HistoryNext]_historyVars

FairHistorySpec == HistorySpec /\ Fairness

----------------------------------------------------------------------------
(* Properties. *)

\* The port of a session in use is closed, before the session's own end, by a
\* request for the same port or by the end of the very session from which it has
\* taken the device over too early - and by no other end, whatever the order of
\* probes, releases and creations on this device and on others.
SparedUnlessOvertaking ==
  [][\A s \in Sessions : InUse(s) /\ socket'[want[s]] # s =>
       \E t \in Sessions \ {s} : \/ pc[t] = "probed" /\ want[t] = want[s]
                                 \/ pc[t] = "finding" /\ <<t, s>> \in overtaken]_historyVars

\* A session has its port from its creation to its end, unless another session
\* has asked for the same port or was still ending when this one got its device.
SessionHasPort ==
  \A s \in Sessions :
    pc[s] \in {"creating", "running"} /\ want[s] # None =>
      \/ socket[want[s]] = s
      \/ \E t \in Sessions \ {s} : want[t] = want[s] \/ <<t, s>> \in overtaken

\* The port of a session its client ends is closed in the end - unless the device
\* has a next session by then: its port, not the old one, may be what is released.
EveryDeleteCloses ==
  \A s \in Sessions : pc[s] \in Deleting \cup {"deleted"} ~>
    \/ pc[s] = "deleted" /\ \A p \in Ports : socket[p] # s
    \/ \E t \in Sessions : <<s, t>> \in overtaken
====
