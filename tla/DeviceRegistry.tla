---------------------------- MODULE DeviceRegistry ----------------------------
(***************************************************************************)
(* How the hub and its nodes keep their device tables: the device trackers *)
(* (AndroidDeviceManager, IOSDeviceManager), NodeDevices and the hub's     *)
(* /register route, updateDeviceList, which every node repeats, and        *)
(* removeStaleDevices, which the hub repeats (src/src/device-utils.ts).    *)
(*                                                                         *)
(* Every process keeps a table of its own in memory.  A handler runs until *)
(* it awaits an adb command, a post or a ping; each such await ends an     *)
(* action here.                                                            *)
(***************************************************************************)
EXTENDS Naturals, FiniteSets

CONSTANTS
  Hosts,      \* Appium processes with the plugin
  Hub,        \* the one the others register at
  Devices,    \* pairs of a udid and the host it is attached to
  HostOf,     \* that host
  UdidOf,     \* that udid: emulators of two hosts may share one
  Within,     \* for each host, the hosts whose URL contains its address
  MaxPlugs,   \* bound: times a device is plugged in
  MaxCrashes, \* bound: times a process goes down
  MaxShared,  \* bound: driver sessions on one device
  Env         \* what the environment may do, see EnvEvents

Nodes == Hosts \ {Hub}

(***************************************************************************)
(* "post":   a post to the hub may fail while the hub is up                *)
(* "ping":   the hub's ping of a node may fail while the node is up        *)
(* "adb":    adb may fail for a device that is attached                    *)
(* "replug": a device may come back while a handler for it still runs      *)
(* "node":   a node may go down                                            *)
(* "hub":    the hub may go down                                           *)
(* "silent": the hub may leave a node's ping without an answer while it is *)
(*           up                                                            *)
(***************************************************************************)
EnvEvents == {"post", "ping", "adb", "replug", "node", "hub", "silent"}

ASSUME RegistryAssumption ==
  /\ Hub \in Hosts
  /\ HostOf \in [Devices -> Hosts]
  /\ \A d, e \in Devices : HostOf[d] = HostOf[e] /\ UdidOf[d] = UdidOf[e] => d = e
  /\ Within \in [Hosts -> SUBSET Hosts]
  /\ \A h \in Hosts : h \in Within[h]
  /\ MaxPlugs \in Nat
  /\ MaxCrashes \in Nat
  /\ MaxShared \in Nat
  /\ Env \subseteq EnvEvents

VARIABLES
  plugged,   \* devices attached to their host
  up,        \* processes that run
  tracking,  \* processes whose trackers have started
  table,     \* the devices collection of each process
  busy,      \* the rows of it that are busy
  sessions,  \* driver sessions that use each device
  handlers,  \* tracker events being handled
  sweep,     \* the run of updateDeviceList of each process
  stale,     \* the run of removeStaleDevices of the hub
  plugs,     \* times each device was plugged in
  crashes    \* times a process went down

tableVars == <<table, busy>>
vars == <<plugged, up, tracking, table, busy, sessions, handlers, sweep, stale,
          plugs, crashes>>

Own(h) == {d \in Devices : HostOf[d] = h}

Handler == [kind : {"add", "remove"}, dev : Devices, nr : 0 .. MaxPlugs,
            step : {"booting", "posting", "storing"}]
Sweep   == [step : {"idle", "listing", "storing", "posting"}, devs : SUBSET Devices]
Stale   == [rows : SUBSET Devices, asked : SUBSET Nodes, alive : SUBSET Nodes]

NoSweep == [step |-> "idle", devs |-> {}]
Listing == [step |-> "listing", devs |-> {}]
NoStale == [rows |-> {}, asked |-> {}, alive |-> {}]

RegistryTypeOK ==
  /\ plugged \subseteq Devices
  /\ tracking \subseteq up /\ up \subseteq Hosts
  /\ table \in [Hosts -> SUBSET Devices]
  /\ busy \in [Hosts -> SUBSET Devices]
  /\ \A h \in Hosts : busy[h] \subseteq table[h]
  /\ \A n \in Nodes : table[n] \subseteq Own(n)
  /\ sessions \in [Devices -> Nat]
  /\ handlers \subseteq Handler
  /\ sweep \in [Hosts -> Sweep]
  /\ stale \in Stale
  /\ plugs \in [Devices -> 0 .. MaxPlugs]
  /\ crashes \in 0 .. MaxCrashes

\* Every process has just been started; the hub begins its updateDeviceList.
Init ==
  /\ plugged = {}
  /\ up = Hosts
  /\ tracking = {}
  /\ table = [h \in Hosts |-> {}]
  /\ busy = [h \in Hosts |-> {}]
  /\ sessions = [d \in Devices |-> 0]
  /\ handlers = {}
  /\ sweep = [h \in Hosts |-> IF h = Hub THEN Listing ELSE NoSweep]
  /\ stale = NoStale
  /\ plugs = [d \in Devices |-> 0]
  /\ crashes = 0

----------------------------------------------------------------------------
(* The table. *)

\* addNewDevice that takes the row it is given, present or not.
InsertAnyway(h, devs) ==
  /\ table' = [table EXCEPT ![h] = @ \cup devs]
  /\ busy' = [busy EXCEPT ![h] = @ \ devs]

\* addNewDevice: a row that is there stays as it is, a new one is not busy.
Insert(h, devs) ==
  /\ table' = [table EXCEPT ![h] = @ \cup devs]
  /\ UNCHANGED busy

\* The rows removeDevice finds for a device its tracker has lost: the udid,
\* and every host whose URL contains the address.
RowsFor(d) == {e \in Devices : UdidOf[e] = UdidOf[d] /\ HostOf[e] \in Within[HostOf[d]]}

Delete(h, devs) ==
  /\ table' = [table EXCEPT ![h] = @ \ devs]
  /\ busy' = [busy EXCEPT ![h] = @ \ devs]

Apply(h, x) ==
  IF x.kind = "add" THEN Insert(h, {x.dev}) ELSE Delete(h, RowsFor(x.dev))

----------------------------------------------------------------------------
(* Tracker events: onDeviceAdded and onDeviceRemoved, 'attached', 'detached'. *)

Event(kind, d, nr, step) == [kind |-> kind, dev |-> d, nr |-> nr, step |-> step]

Advance(x, step) ==
  handlers' = (handlers \ {x}) \cup {Event(x.kind, x.dev, x.nr, step)}

\* A node tells the hub before it changes its own table.
AfterEvent(d) == IF HostOf[d] = Hub THEN "storing" ELSE "posting"

Plug(d) ==
  /\ d \notin plugged
  /\ plugs[d] < MaxPlugs
  /\ "replug" \in Env \/ \A x \in handlers : x.dev # d
  /\ plugged' = plugged \cup {d}
  /\ plugs' = [plugs EXCEPT ![d] = @ + 1]
  /\ handlers' = IF HostOf[d] \in tracking
                   THEN handlers \cup {Event("add", d, plugs[d] + 1, "booting")}
                   ELSE handlers
  /\ UNCHANGED <<up, tracking, tableVars, sessions, sweep, stale, crashes>>

\* No session survives the loss of its device.
Unplug(d) ==
  /\ d \in plugged
  /\ plugged' = plugged \ {d}
  /\ sessions' = [sessions EXCEPT ![d] = 0]
  /\ handlers' = IF HostOf[d] \in tracking
                   THEN handlers \cup {Event("remove", d, plugs[d], AfterEvent(d))}
                   ELSE handlers
  /\ UNCHANGED <<up, tracking, tableVars, sweep, stale, plugs, crashes>>

\* The device has booted and tells its details; abort() of a removal that
\* came meanwhile stops nothing.
Booted(x) ==
  /\ x.step = "booting"
  /\ x.dev \in plugged
  /\ Advance(x, AfterEvent(x.dev))
  /\ UNCHANGED <<plugged, up, tracking, tableVars, sessions, sweep, stale, plugs, crashes>>

\* It does not boot in time, or some detail of it cannot be read.
BootFails(x) ==
  /\ x.step = "booting"
  /\ "adb" \in Env \/ x.dev \notin plugged
  /\ handlers' = handlers \ {x}
  /\ UNCHANGED <<plugged, up, tracking, tableVars, sessions, sweep, stale, plugs, crashes>>

\* postDevicesToHub, and registerNode at the hub.
PostArrives(x) ==
  /\ x.step = "posting"
  /\ Hub \in up
  /\ Apply(Hub, x)
  /\ Advance(x, "storing")
  /\ UNCHANGED <<plugged, up, tracking, sessions, sweep, stale, plugs, crashes>>

\* postDevicesToHub logs the error and returns.
PostFails(x) ==
  /\ x.step = "posting"
  /\ "post" \in Env \/ Hub \notin up
  /\ Advance(x, "storing")
  /\ UNCHANGED <<plugged, up, tracking, tableVars, sessions, sweep, stale, plugs, crashes>>

\* The process changes its own table.
Store(x) ==
  /\ x.step = "storing"
  /\ Apply(HostOf[x.dev], x)
  /\ handlers' = handlers \ {x}
  /\ UNCHANGED <<plugged, up, tracking, sessions, sweep, stale, plugs, crashes>>

----------------------------------------------------------------------------
(* updateDeviceList: once at the hub's start, again and again on a node.     *)
(* Bound: a run of it starts after the last one has ended.                  *)

SetSweep(h, step, devs) == sweep' = [sweep EXCEPT ![h] = [step |-> step, devs |-> devs]]

\* isDeviceFarmRunning(hub) answers true.
HubAnswers(n) ==
  /\ n \in Nodes \cap up
  /\ sweep[n] = NoSweep
  /\ Hub \in up
  /\ SetSweep(n, "listing", {})
  /\ UNCHANGED <<plugged, up, tracking, tableVars, sessions, handlers, stale, plugs, crashes>>

\* It answers false: "Removing all devices from node".
HubSilent(n) ==
  /\ n \in Nodes \cap up
  /\ sweep[n] = NoSweep
  /\ "silent" \in Env \/ Hub \notin up
  /\ Delete(n, Devices)
  /\ UNCHANGED <<plugged, up, tracking, sessions, handlers, sweep, stale, plugs, crashes>>

\* Devices of any host.
ListingsOfAll(h) == SUBSET plugged

\* Only devices the process does not know yet.
ListingsOfNew(h) == SUBSET ((plugged \cap Own(h)) \ table[h])

\* What a listing can return: every attached device whose row is there, and
\* those others whose details can be read.
Listings(h) ==
  {devs \in SUBSET (plugged \cap Own(h)) :
     IF "adb" \in Env THEN plugged \cap table[h] \cap Own(h) \subseteq devs
                       ELSE devs = plugged \cap Own(h)}

\* getDevices of the device managers.  The first one starts the trackers,
\* which report every device that is attached.  An empty list ends the run.
SweepLists(h, devs) ==
  /\ h \in up
  /\ sweep[h].step = "listing"
  /\ devs \in Listings(h)
  /\ IF devs = {} THEN SetSweep(h, "idle", {}) ELSE SetSweep(h, "storing", devs)
  /\ tracking' = tracking \cup {h}
  /\ handlers' = IF h \in tracking
                   THEN handlers
                   ELSE handlers \cup
                     {Event("add", d, plugs[d], "booting") : d \in plugged \cap Own(h)}
  /\ UNCHANGED <<plugged, up, tableVars, sessions, stale, plugs, crashes>>

\* addNewDevice on the process's own table.
SweepStores(h) ==
  /\ h \in up
  /\ sweep[h].step = "storing"
  /\ Insert(h, sweep[h].devs)
  /\ IF h = Hub THEN SetSweep(h, "idle", {}) ELSE SetSweep(h, "posting", sweep[h].devs)
  /\ UNCHANGED <<plugged, up, tracking, sessions, handlers, stale, plugs, crashes>>

\* The post of the whole list arrives at the hub.
SweepArrives(n) ==
  /\ n \in up /\ Hub \in up
  /\ sweep[n].step = "posting"
  /\ Insert(Hub, sweep[n].devs)
  /\ SetSweep(n, "idle", {})
  /\ UNCHANGED <<plugged, up, tracking, sessions, handlers, stale, plugs, crashes>>

SweepFails(n) ==
  /\ n \in up
  /\ sweep[n].step = "posting"
  /\ "post" \in Env \/ Hub \notin up
  /\ SetSweep(n, "idle", {})
  /\ UNCHANGED <<plugged, up, tracking, tableVars, sessions, handlers, stale, plugs, crashes>>

----------------------------------------------------------------------------
(* removeStaleDevices of the hub: a snapshot of the table, a ping to every  *)
(* host in it, up to thirty seconds long, then the removal.                 *)
(* Bound: a run of it starts after the last one has ended.                  *)

\* Without the rows in use.
FreeForeignRows == {d \in table[Hub] \ busy[Hub] : HostOf[d] \notin Within[Hub]}

\* Rows whose host does not include the hub's own address.
ForeignRows == {d \in table[Hub] : HostOf[d] \notin Within[Hub]}

HostsOf(rows) == {HostOf[d] : d \in rows}

StaleStart ==
  /\ Hub \in up
  /\ stale = NoStale
  /\ ForeignRows # {}
  /\ stale' = [rows |-> ForeignRows, asked |-> {}, alive |-> {}]
  /\ UNCHANGED <<plugged, up, tracking, tableVars, sessions, handlers, sweep, plugs, crashes>>

Asked(n, answers) ==
  stale' = [rows |-> stale.rows, asked |-> stale.asked \cup {n},
            alive |-> stale.alive \cup answers]

StalePing(n) ==
  /\ n \in HostsOf(stale.rows) \ stale.asked
  /\ \/ n \in up /\ Asked(n, {n})
     \/ ("ping" \in Env \/ n \notin up) /\ Asked(n, {})
  /\ UNCHANGED <<plugged, up, tracking, tableVars, sessions, handlers, sweep, plugs, crashes>>

StaleFinish ==
  /\ stale.rows # {}
  /\ stale.asked = HostsOf(stale.rows)
  /\ Delete(Hub, {d \in stale.rows : HostOf[d] \notin stale.alive})
  /\ stale' = NoStale
  /\ UNCHANGED <<plugged, up, tracking, sessions, handlers, sweep, plugs, crashes>>

----------------------------------------------------------------------------
(* Sessions, as far as the tables are concerned.  SessionAllocation has the *)
(* steps of one process.                                                    *)

\* The processes whose tables a session on d goes through: the hub, which
\* forwards the request with the udid, and the node, which allocates again.
Path(d) == {Hub, HostOf[d]}

\* A session begins on a row that is free in every table on its way.
Begin(d) ==
  /\ d \in plugged
  /\ \A h \in Path(d) : h \in up /\ d \in table[h] \ busy[h]
  /\ sessions[d] < MaxShared
  /\ sessions' = [sessions EXCEPT ![d] = @ + 1]
  /\ busy' = [h \in Hosts |-> IF h \in Path(d) THEN busy[h] \cup {d} ELSE busy[h]]
  /\ UNCHANGED <<plugged, up, tracking, table, handlers, sweep, stale, plugs, crashes>>

\* The driver ends: in next() of deleteSession, or by itself.  No row is freed.
End(d) ==
  /\ sessions[d] > 0
  /\ sessions' = [sessions EXCEPT ![d] = @ - 1]
  /\ UNCHANGED <<plugged, up, tracking, tableVars, handlers, sweep, stale, plugs, crashes>>

\* A process frees its row, whether the driver lives or not: releaseBlockedDevices
\* when it is idle; deleteSession, before next(); at the hub the proxy, when it has
\* passed a DELETE on.
Release(h, d) ==
  /\ d \in busy[h]
  /\ busy' = [busy EXCEPT ![h] = @ \ {d}]
  /\ UNCHANGED <<plugged, up, tracking, table, sessions, handlers, sweep, stale, plugs, crashes>>

----------------------------------------------------------------------------
(* Processes go down and are started again.                                 *)

\* All tables are in memory, and a driver dies with its own process only.
Crash(h) ==
  /\ h \in up
  /\ IF h = Hub THEN "hub" \in Env ELSE "node" \in Env
  /\ crashes < MaxCrashes
  /\ crashes' = crashes + 1
  /\ up' = up \ {h}
  /\ tracking' = tracking \ {h}
  /\ Delete(h, Devices)
  /\ sessions' = [d \in Devices |-> IF HostOf[d] = h THEN 0 ELSE sessions[d]]
  /\ handlers' = {x \in handlers : HostOf[x.dev] # h}
  /\ SetSweep(h, "idle", {})
  /\ stale' = IF h = Hub THEN NoStale ELSE stale
  /\ UNCHANGED <<plugged, plugs>>

\* updateServer: the hub lists its devices once, a node does so by and by.
Restart(h) ==
  /\ h \notin up
  /\ up' = up \cup {h}
  /\ sweep' = [sweep EXCEPT ![h] = IF h = Hub THEN Listing ELSE NoSweep]
  /\ UNCHANGED <<plugged, tracking, tableVars, sessions, handlers, stale, plugs, crashes>>

----------------------------------------------------------------------------

Handle(x) == Booted(x) \/ BootFails(x) \/ PostArrives(x) \/ PostFails(x) \/ Store(x)

SweepOn(h) == \/ \E devs \in SUBSET Devices : SweepLists(h, devs)
              \/ SweepStores(h) \/ SweepArrives(h) \/ SweepFails(h)

StaleCheck == StaleStart \/ StaleFinish \/ \E n \in Nodes : StalePing(n)

Next ==
  \/ \E d \in Devices : Plug(d) \/ Unplug(d) \/ Begin(d) \/ End(d)
  \/ \E x \in handlers : Handle(x)
  \/ \E h \in Hosts : SweepOn(h) \/ Crash(h) \/ Restart(h)
  \/ \E n \in Nodes : HubAnswers(n) \/ HubSilent(n)
  \/ \E h \in Hosts, d \in Devices : Release(h, d)
  \/ StaleCheck

Spec == Init /\ [][Next]_vars

(***************************************************************************)
(* Node's event loop: handlers, timers and pings come to an end.  adb and  *)
(* the posts of a device's list do not fail for ever.  Nothing is assumed  *)
(* of plugs, sessions, crashes and restarts.                               *)
(***************************************************************************)
Fairness ==
  /\ \A d \in Devices : WF_vars(\E x \in handlers : x.dev = d /\ Handle(x))
  /\ \A h \in Hosts : WF_vars(SweepOn(h))
  /\ \A n \in Nodes : WF_vars(HubAnswers(n))
  /\ \A d \in Devices :
       /\ SF_vars(\E devs \in SUBSET Devices : d \in devs /\ SweepLists(HostOf[d], devs))
       /\ SF_vars(d \in sweep[HostOf[d]].devs /\ SweepArrives(HostOf[d]))
  /\ WF_vars(StaleCheck)

FairSpec == Spec /\ Fairness

----------------------------------------------------------------------------
(* Properties. *)

\* A device that stays attached to a node is offered by the hub again and
\* again, whatever posts, adb calls and pings have failed before.
PluggedIsListed ==
  \A d \in Devices : HostOf[d] \in Nodes =>
    (<>[](d \in plugged /\ {HostOf[d], Hub} \subseteq up) => []<>(d \in table[Hub]))

\* "Remove devices where the host is not alive": the rows of a node that has
\* gone down for good leave the hub's table and stay out of it.
DeadNodeGoes ==
  \A n \in Nodes : <>[](n \notin up /\ Hub \in up) => <>[](table[Hub] \cap Own(n) = {})
====
