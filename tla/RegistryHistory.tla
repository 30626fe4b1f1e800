---------------------------- MODULE RegistryHistory ----------------------------
(***************************************************************************)
(* When a device gets a second driver session beside the first: the tables *)
(* of DeviceRegistry, with history variables for what may have happened to *)
(* the row of a device at its own process while a driver used the device.  *)
(* They change nothing.                                                    *)
(***************************************************************************)
EXTENDS DeviceRegistry

VARIABLES
  released,  \* devices in use whose row was released
  lost       \* devices in use whose row was removed

historyVars == <<vars, released, lost>>

----------------------------------------------------------------------------
(* The events, at the process the device is attached to. *)

\* DELETE or the cron job frees the row, and the driver still lives.
FreedInUse(d) == sessions[d] > 0 /\ Release(HostOf[d], d)

\* A removal meant for an earlier plug of its device, or for another device.
Misses(x, d) == x.kind = "remove" /\ d \in RowsFor(x.dev) /\ (x.dev # d \/ x.nr # plugs[d])

\* Such a removal, or a node that has no answer of its hub, takes the row.
TakenInUse(d) ==
  /\ sessions[d] > 0
  /\ \/ \E x \in handlers :
          /\ Misses(x, d)
          /\ \/ HostOf[d] = Hub /\ PostArrives(x)
             \/ HostOf[d] = HostOf[x.dev] /\ Store(x)
     \/ \E n \in Nodes : HostOf[d] = n /\ HubSilent(n)

HistoryInit == Init /\ released = {} /\ lost = {}

\* What happened to a device is forgotten when no driver uses it.
HistoryNext ==
  /\ Next
  /\ released' = {d \in Devices : sessions'[d] > 0 /\ (d \in released \/ FreedInUse(d))}
  /\ lost' = {d \in Devices : sessions'[d] > 0 /\ (d \in lost \/ TakenInUse(d))}

HistorySpec == HistoryInit /\ [][HistoryNext]_historyVars

----------------------------------------------------------------------------
(* Properties. *)

\* A second session begins on a device in use only after DELETE or the cron job
\* has released its row, or one of the removals above has taken it: lists that
\* are stored and posted again, stale rows, lost posts, dead and returning nodes
\* and whatever the hub forgets do not do it, for the device's own process
\* refuses.
SecondHasCause == \A d \in Devices : sessions[d] > 1 => d \in released \cup lost

\* "This will prevent subsequent request from getting the same device": only
\* after a release.
SecondAfterRelease == \A d \in Devices : sessions[d] > 1 => d \in released
====
