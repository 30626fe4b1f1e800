---------------------------- MODULE PortForwarding ----------------------------
(***************************************************************************)
(* The local ports that carry the screen of real iOS devices               *)
(* (src/src/iProxy.ts): DeviceConnectionsFactory.requestConnection, which  *)
(* createSession calls before it creates the driver session, and           *)
(* releaseConnection, which deleteSession calls when the session is over.  *)
(*                                                                         *)
(* The factory knows its proxies by their key, a device and a port.  A     *)
(* proxy is named here by the session it was requested for.  Both calls    *)
(* await probes of the port, so that they interleave with each other.      *)
(***************************************************************************)
EXTENDS Naturals, FiniteSets

CONSTANTS
  Sessions, \* sessions on real iOS devices, each created once
  Devices,
  Ports,
  None,     \* no session, no port
  Foreign,  \* another program on this host that listens at a port
  Env       \* what the environment may do, see EnvEvents

(***************************************************************************)
(* "reuse":    a device is handed out before the deleteSession that freed  *)
(*             it has ended                                                *)
(* "samePort": getPort returns a port that it has returned before and that *)
(*             its caller does not listen at yet                           *)
(* "foreign":  other programs listen at ports                              *)
(* "novideo":  sessions may have live video switched off                   *)
(* "fail":     listeners of events reject, creations fail, rows are        *)
(*             released by others than the client                          *)
(***************************************************************************)
EnvEvents == {"reuse", "samePort", "foreign", "novideo", "fail"}

ASSUME ForwardingAssumption ==
  /\ None \notin Sessions \cup Ports
  /\ Foreign \notin Sessions \cup {None}
  /\ Env \subseteq EnvEvents

VARIABLES
  pc,      \* where createSession and deleteSession of a session stand
  dev,     \* the device of a session
  held,    \* the session a device is busy with
  port,    \* mjpegServerPort in the row of a device
  want,    \* the port requestConnection was called with
  seen,    \* devices whose connections on that port the call knew of
  busy,    \* what its probe of the port has returned
  rel,     \* the port releaseConnection was called with
  mapping, \* _connectionsMapping: the proxy under each key
  socket   \* who listens at each port

rowVars == <<held, port>>
callVars == <<want, seen, busy, rel>>
netVars == <<mapping, socket>>
vars == <<pc, dev, rowVars, callVars, netVars>>

Keys == Devices \X Ports

\* Before requestConnection, while it runs, and after it.
Creating == {"allocated", "chosen", "checking", "probed", "waiting", "bound",
             "creating", "running"}
\* deleteSession, after it has freed the device.
Deleting == {"ending", "finding", "clearing"}
Over == {"deleted", "gone", "stuck"}

ForwardingTypeOK ==
  /\ pc \in [Sessions -> {"new"} \cup Creating \cup Deleting \cup Over]
  /\ dev \in [Sessions -> Devices \cup {None}]
  /\ \A s \in Sessions : pc[s] # "new" => dev[s] \in Devices
  /\ held \in [Devices -> Sessions \cup {None}]
  /\ port \in [Devices -> Ports \cup {None}]
  /\ want \in [Sessions -> Ports \cup {None}]
  /\ seen \in [Sessions -> SUBSET Devices]
  /\ busy \in [Sessions -> BOOLEAN]
  /\ rel \in [Sessions -> Ports \cup {None}]
  /\ mapping \in [Keys -> Sessions \cup {None}]
  /\ socket \in [Ports -> Sessions \cup {None, Foreign}]

\* The rows have the port their device got when it was listed; nobody listens
\* there yet and no session uses it, so it is left out.
Init ==
  /\ pc = [s \in Sessions |-> "new"]
  /\ dev = [s \in Sessions |-> None]
  /\ held = [d \in Devices |-> None]
  /\ port = [d \in Devices |-> None]
  /\ want = [s \in Sessions |-> None]
  /\ seen = [s \in Sessions |-> {}]
  /\ busy = [s \in Sessions |-> FALSE]
  /\ rel = [s \in Sessions |-> None]
  /\ mapping = [k \in Keys |-> None]
  /\ socket = [p \in Ports |-> None]

Goto(s, step) == pc' = [pc EXCEPT ![s] = step]

\* unblockDevice and unblockDeviceMatchingFilter, for the device's own session.
Free(s) == held' = [d \in Devices |-> IF d = dev[s] THEN None ELSE held[d]]

----------------------------------------------------------------------------
(* createSession up to the request. *)

\* allocateDeviceForSession blocks a free device.
Allocate(s, d) ==
  /\ pc[s] = "new"
  /\ held[d] = None
  /\ "reuse" \in Env \/ \A t \in Sessions : dev[t] = d => pc[t] \notin Deleting
  /\ dev' = [dev EXCEPT ![s] = d]
  /\ held' = [held EXCEPT ![d] = s]
  /\ Goto(s, "allocated")
  /\ UNCHANGED <<port, callVars, netVars>>

\* A port get-port may return: nobody listens there, and for some seconds
\* after it has been returned it is not returned again.
Offered(p) ==
  /\ socket[p] = None
  /\ \/ "samePort" \in Env
     \/ \A t \in Sessions : pc[t] \in {"chosen", "checking", "probed", "waiting"}
                              => port[dev[t]] # p

\* iOSCapabilities puts a new port into the row itself, not into a copy of it.
ChoosePort(s, p) ==
  /\ pc[s] = "allocated"
  /\ IF p = None THEN "novideo" \in Env ELSE Offered(p)
  /\ port' = [port EXCEPT ![dev[s]] = p]
  /\ Goto(s, "chosen")
  /\ UNCHANGED <<dev, held, callVars, netVars>>

\* A listener of BeforeSessionCreatedEvent rejects; the device stays busy.
EventThrows(s) ==
  /\ "fail" \in Env
  /\ pc[s] = "chosen"
  /\ Goto(s, "stuck")
  /\ UNCHANGED <<dev, rowVars, callVars, netVars>>

----------------------------------------------------------------------------
(* requestConnection. *)

\* A mutant: the proxies of the port, not their devices.
ProxiesOnPort(p) == {mapping[<<d, p>>] : d \in Devices} \ {None}

\* listConnections(null, port)
OnPort(p) == {d \in Devices : mapping[<<d, p>>] # None}

\* Without a port it warns and returns.  Otherwise the connections on the port
\* are looked up before the probe is awaited.
Request(s) ==
  /\ pc[s] = "chosen"
  /\ LET p == port[dev[s]]
     IN /\ want' = [want EXCEPT ![s] = p]
        /\ seen' = [seen EXCEPT ![s] = IF p = None THEN {} ELSE OnPort(p)]
        /\ Goto(s, IF p = None THEN "creating" ELSE "checking")
  /\ UNCHANGED <<dev, rowVars, busy, rel, netVars>>

\* checkPortStatus looks at the port; its answer is read later.
Probe(s) ==
  /\ pc[s] = "checking"
  /\ busy' = [busy EXCEPT ![s] = socket[want[s]] # None]
  /\ Goto(s, "probed")
  /\ UNCHANGED <<dev, rowVars, want, seen, rel, netVars>>

\* A mutant: the keys go, the servers stay.
ForgetKeys(keys) ==
  /\ mapping' = [k \in Keys |-> IF k \in keys THEN None ELSE mapping[k]]
  /\ UNCHANGED socket

\* _releaseProxiedConnections and the removal of the keys: the proxy of a key
\* that is still there closes its server.
Stop(keys) ==
  /\ socket' = [p \in Ports |-> IF \E k \in keys : k[2] = p /\ mapping[k] = socket[p]
                                  THEN None ELSE socket[p]]
  /\ mapping' = [k \in Keys |-> IF k \in keys THEN None ELSE mapping[k]]

\* The port is free: iProxy.start listens there.
Listen(s) ==
  /\ pc[s] = "probed" /\ ~busy[s]
  /\ socket[want[s]] = None
  /\ socket' = [socket EXCEPT ![want[s]] = s]
  /\ Goto(s, "bound")
  /\ UNCHANGED <<dev, rowVars, callVars, mapping>>

\* Somebody else listens there by now, or the port is busy and no connection
\* was known on it: createSession rejects, and the device stays busy.
ListenFails(s) ==
  /\ pc[s] = "probed"
  /\ IF busy[s] THEN seen[s] = {} ELSE socket[want[s]] # None
  /\ Goto(s, "stuck")
  /\ UNCHANGED <<dev, rowVars, callVars, netVars>>

\* The port is busy: the connections known on it are stopped.
StopKnown(s) ==
  /\ pc[s] = "probed" /\ busy[s] /\ seen[s] # {}
  /\ Stop(seen[s] \X {want[s]})
  /\ Goto(s, "waiting")
  /\ UNCHANGED <<dev, rowVars, callVars>>

\* waitForPortTobeReleased finds the port free.
PortIsFree(s) ==
  /\ pc[s] = "waiting"
  /\ socket[want[s]] = None
  /\ busy' = [busy EXCEPT ![s] = FALSE]
  /\ Goto(s, "probed")
  /\ UNCHANGED <<dev, rowVars, want, seen, rel, netVars>>

\* A mutant: the wait goes on for ever.
WaitNeverEnds(s) == FALSE /\ pc[s] = "waiting" /\ UNCHANGED vars

\* It finds the port busy for fifteen seconds, and requestConnection throws.
WaitTimesOut(s) ==
  /\ pc[s] = "waiting"
  /\ socket[want[s]] # None
  /\ Goto(s, "stuck")
  /\ UNCHANGED <<dev, rowVars, callVars, netVars>>

\* 'listening' has been emitted and start() returns: only now is the proxy
\* entered in the mapping.
Enter(s) ==
  /\ pc[s] = "bound"
  /\ mapping' = [mapping EXCEPT ![<<dev[s], want[s]>>] = s]
  /\ Goto(s, "creating")
  /\ UNCHANGED <<dev, rowVars, callVars, socket>>

----------------------------------------------------------------------------
(* The session. *)

Created(s) ==
  /\ pc[s] = "creating"
  /\ Goto(s, "running")
  /\ UNCHANGED <<dev, rowVars, callVars, netVars>>

\* The creation fails, the driver dies or the cron job frees an idle device:
\* the row is released, and no releaseConnection is called.  A DELETE that
\* comes later finds no row with its session.
ReleasedByOthers(s) ==
  /\ "fail" \in Env
  /\ pc[s] \in {"creating", "running"}
  /\ Free(s)
  /\ Goto(s, "gone")
  /\ UNCHANGED <<dev, port, callVars, netVars>>

\* A mutant: the row is looked up after it has been cleared, and not found.
DeleteLosesRow(s) ==
  /\ pc[s] = "running"
  /\ Free(s)
  /\ Goto(s, "deleted")
  /\ UNCHANGED <<dev, port, callVars, netVars>>

\* deleteSession keeps the row it has found and frees the device, before it
\* awaits next() and the listeners of the event.
Delete(s) ==
  /\ pc[s] = "running"
  /\ Free(s)
  /\ Goto(s, "ending")
  /\ UNCHANGED <<dev, port, callVars, netVars>>

----------------------------------------------------------------------------
(* releaseConnection. *)

\* The row deleteSession has kept is the one in the table: its port is the one
\* that is there now.
Release(s) ==
  /\ pc[s] = "ending"
  /\ rel' = [rel EXCEPT ![s] = port[dev[s]]]
  /\ Goto(s, "finding")
  /\ UNCHANGED <<dev, rowVars, want, seen, busy, netVars>>

\* A mutant: without a port all connections of all devices.
ListedAnyDevice(d, p) ==
  {k \in Keys : mapping[k] # None /\ (p = None \/ (k[1] = d /\ k[2] = p))}

\* A mutant: not strict, every connection of the device or on the port.
ListedLoosely(d, p) ==
  {k \in Keys : mapping[k] # None /\ (k[1] = d \/ k[2] = p)}

\* listConnections(udid, port, strict): without a port all of the device.
Listed(d, p) ==
  {k \in Keys : mapping[k] # None /\ k[1] = d /\ (p = None \/ k[2] = p)}

\* The probe has answered; whatever it says, the keys found now are released.
ReleaseListed(s) ==
  /\ pc[s] = "finding"
  /\ LET keys == Listed(dev[s], rel[s])
     IN /\ Stop(keys)
        /\ Goto(s, IF keys = {} THEN "deleted" ELSE "clearing")
  /\ UNCHANGED <<dev, rowVars, callVars>>

\* The probe of no port at all may reject, and deleteSession with it.
ProbeThrows(s) ==
  /\ pc[s] = "finding" /\ rel[s] = None
  /\ Goto(s, "deleted")
  /\ UNCHANGED <<dev, rowVars, callVars, netVars>>

\* waitForPortTobeReleased ends, by the port or by its timeout.
ReleaseEnds(s) ==
  /\ pc[s] = "clearing"
  /\ Goto(s, "deleted")
  /\ UNCHANGED <<dev, rowVars, callVars, netVars>>

----------------------------------------------------------------------------

\* Another program takes a port, or leaves it.
ForeignListens(p) ==
  /\ "foreign" \in Env
  /\ socket[p] = None
  /\ socket' = [socket EXCEPT ![p] = Foreign]
  /\ UNCHANGED <<pc, dev, rowVars, callVars, mapping>>

ForeignLeaves(p) ==
  /\ socket[p] = Foreign
  /\ socket' = [socket EXCEPT ![p] = None]
  /\ UNCHANGED <<pc, dev, rowVars, callVars, mapping>>

\* What requestConnection and releaseConnection do once they are called.
Requesting(s) ==
  \/ Probe(s) \/ Listen(s) \/ ListenFails(s) \/ StopKnown(s) \/ PortIsFree(s)
  \/ WaitTimesOut(s) \/ Enter(s)

Releasing(s) == Release(s) \/ ReleaseListed(s) \/ ProbeThrows(s) \/ ReleaseEnds(s)

Serve(s) == Requesting(s) \/ Releasing(s)

Live(s) == Created(s) \/ ReleasedByOthers(s) \/ Delete(s) \/ EventThrows(s) \/ Request(s)

\* Every session is over, or has no device or no port to go on with.
Quiet ==
  /\ \A s \in Sessions :
       \/ pc[s] \in Over
       \/ pc[s] = "new" /\ \A d \in Devices : held[d] # None
       \/ pc[s] = "allocated" /\ \A p \in Ports : ~Offered(p)
  /\ UNCHANGED vars

Next ==
  \/ \E s \in Sessions, d \in Devices : Allocate(s, d)
  \/ \E s \in Sessions, p \in Ports \cup {None} : ChoosePort(s, p)
  \/ \E s \in Sessions : Serve(s) \/ Live(s)
  \/ \E p \in Ports : ForeignListens(p) \/ ForeignLeaves(p)
  \/ Quiet

Spec == Init /\ [][Next]_vars

\* The event loop: probes answer, timers fire, next() and the listeners of
\* deleteSession come to an end.
Fairness == \A s \in Sessions : WF_vars(Serve(s))

FairSpec == Spec /\ Fairness

----------------------------------------------------------------------------
(* Properties. *)

\* Every proxy that listens can be found: the mapping names it under its own
\* device and port, or start() is about to return; and a proxy the mapping
\* names does listen.  Otherwise nobody could close the port again.
SocketsMatchMapping ==
  /\ \A k \in Keys : mapping[k] \in Sessions => socket[k[2]] = mapping[k]
  /\ \A s \in Sessions, p \in Ports : socket[p] = s =>
       \/ pc[s] = "bound" /\ want[s] = p
       \/ mapping[<<dev[s], p>>] = s

InUse(s) == pc[s] \in {"creating", "running"} /\ want[s] # None /\ socket[want[s]] = s

\* The live video of a session stays until the session's own end: no release that
\* another session's end started closes its port.  Only a request for the same
\* port may.
ReleasesSpareOthers ==
  [][\A s \in Sessions : InUse(s) /\ socket'[want[s]] # s =>
       \E t \in Sessions \ {s} : pc[t] = "probed" /\ want[t] = want[s]]_vars

\* A request ends, by a proxy or by an error, also when another program takes
\* the port it waits for.
EveryRequestSettles ==
  \A s \in Sessions : pc[s] = "checking" ~> pc[s] \in {"creating", "stuck"}
====
