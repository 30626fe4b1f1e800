------------------------------ MODULE IosTracking ------------------------------
(***************************************************************************)
(* How one host keeps its list of real iOS devices: a tracker, which is    *)
(* usbmuxd's stream or the output of `ios listen` (goIOSTracker.ts), the   *)
(* listeners that IOSDeviceManager adds to it, and the listings            *)
(* (fetchLocalIOSDevices).  The tracker is created by the first listing    *)
(* and never again.                                                        *)
(***************************************************************************)
EXTENDS UsbmuxStream, FiniteSets

CONSTANTS
  MaxListings, \* bound: listings
  Env          \* what the environment may do, see EnvEvents

(***************************************************************************)
(* "usbmux", "goios": trackers the host may have                           *)
(* "cut":    a chunk of usbmuxd's stream may end inside a header           *)
(* "noise":  a line of go-ios may be something else than JSON              *)
(* "pair":   go-ios reports that a device has been paired                  *)
(* "lost":   the tracker's process goes away                               *)
(* "quick":  a device comes or goes while something about it is under way  *)
(* "info":   attached devices, or the details of one, cannot be read       *)
(***************************************************************************)
EnvEvents == {"usbmux", "goios", "cut", "noise", "pair", "lost", "quick", "info"}

ASSUME TrackingAssumption ==
  /\ MaxListings \in Nat
  /\ Env \subseteq EnvEvents

VARIABLES
  tool,      \* the tracker of this host
  conn,      \* whether it runs
  lines,     \* go-ios: lines of output on their way
  attached,  \* the DeviceID of each attached device, 0 when it is away
  nextId,    \* the next DeviceID
  table,     \* the host's rows of real iOS devices
  listeners, \* how many times the listeners have been added
  adding,    \* 'attached' handlers under way
  removing,  \* 'detached' handlers under way
  listing,   \* where the listing stands
  found,     \* the devices it has found
  asked,     \* those of them whose details it reads
  listings,  \* listings so far
  spoiled    \* devices the environment has spoiled the view of (a history variable)

hostVars == <<tool, conn, attached, nextId, table, listeners, listing, found, asked,
              listings>>
handlerVars == <<adding, removing>>
vars == <<streamVars, hostVars, lines, handlerVars, spoiled>>

IosTypeOK ==
  /\ StreamTypeOK
  /\ tool \in {"usbmux", "goios"} /\ conn \in {"none", "open", "ended"}
  /\ lines \in Seq(Message)
  /\ attached \in [Udids -> 0 .. MaxId] /\ nextId \in 1 .. MaxId + 1
  /\ table \subseteq Udids
  /\ listeners \in 0 .. MaxListings
  /\ adding \in [Udids -> Nat] /\ removing \in [Udids -> Nat]
  /\ listing \in {"idle", "listing", "storing"} /\ found \subseteq Udids
  /\ asked \subseteq found
  /\ listings \in 0 .. MaxListings
  /\ spoiled \subseteq Udids

Init ==
  /\ StreamInit
  /\ tool \in {"usbmux", "goios"} \cap Env
  /\ conn = "none"
  /\ lines = <<>>
  /\ attached = [u \in Udids |-> 0] /\ nextId = 1
  /\ table = {}
  /\ listeners = 0
  /\ adding = [u \in Udids |-> 0] /\ removing = [u \in Udids |-> 0]
  /\ listing = "idle" /\ found = {} /\ asked = {} /\ listings = 0
  /\ spoiled = {}

\* Bound: one thing goes wrong.
NoFault == spoiled = {}

Present == {u \in Udids : attached[u] # 0}

----------------------------------------------------------------------------
(* Events.                                                                 *)

\* Emitting to the listeners starts one handler for each time they were added.
Emit(added, removed) ==
  /\ adding' = [u \in Udids |-> adding[u] + IF u \in added THEN listeners ELSE 0]
  /\ removing' = [u \in Udids |-> removing[u] + IF u \in removed THEN listeners ELSE 0]

\* A mutant: the entry is deleted before 'detached' is emitted.
EmitAfterHeed(m) ==
  Emit(IF m.type = "Attached" THEN {m.udid} ELSE {},
       IF m.type = "Detached" THEN {d[1] : d \in {e \in devices' : e[2] = m.id}} ELSE {})

\* The callback of createListener: 'detached' is emitted for every entry with
\* the DeviceID, by the entry's serial number.
EmitFor(m) ==
  Emit(IF m.type = "Attached" THEN {m.udid} ELSE {},
       IF m.type = "Detached" THEN {d[1] : d \in {e \in devices : e[2] = m.id}} ELSE {})

\* usbmuxd's stream: the tracker parses, and the callback emits.
Track ==
  /\ conn = "open"
  /\ \/ Parse
     \/ \E n \in 1 .. Len(pipe) :
          Receive(n) /\ (("cut" \in Env /\ NoFault) \/ ~EndsInHeader(SubSeq(pipe, 1, n)))
  /\ IF heard' # heard THEN EmitFor(Last(heard')) ELSE UNCHANGED handlerVars
  /\ spoiled' = IF cut' THEN Udids ELSE spoiled
  /\ UNCHANGED <<hostVars, lines>>

\* notify: deviceMap only grows; whatever is not "Attached" counts as detached.
UdidOfId(map, id) == {d[1] : d \in {e \in map : e[2] = id}}

\* A mutant: the map has udids for keys.
LearntByUdid(ms) == {<<m.id, m.udid>> : m \in {x \in ToSet(ms) : x.type = "Attached"}}

Learnt(ms) == {<<m.udid, m.id>> : m \in {x \in ToSet(ms) : x.type = "Attached"}}

\* 'lines-stdout' with some lines that are all JSON: they are notified in
\* their order.
Batch(n) ==
  /\ conn = "open"
  /\ LET ms == SubSeq(lines, 1, n)
         map == devices \cup Learnt(ms)
     IN /\ devices' = map
        /\ Emit(UNION {{m.udid} : m \in {x \in ToSet(ms) : x.type = "Attached"}},
                UNION {UdidOfId(map, m.id) : m \in {x \in ToSet(ms) : x.type # "Attached"}})
  /\ lines' = SubSeq(lines, n + 1, Len(lines))
  /\ UNCHANGED <<sent, pipe, parserVars, cut, heard, hostVars, spoiled>>

\* A line among them is no JSON: parseOutput returns null for all of them.
BatchDropped(n) ==
  /\ "noise" \in Env /\ NoFault
  /\ conn = "open"
  /\ lines' = SubSeq(lines, n + 1, Len(lines))
  /\ spoiled' = Udids
  /\ UNCHANGED <<streamVars, hostVars, handlerVars>>

\* A mutant: the handler tells the hub and forgets its own table.
AddedToHubOnly(u) ==
  /\ adding[u] > 0
  /\ adding' = [adding EXCEPT ![u] = @ - 1]
  /\ UNCHANGED <<streamVars, hostVars, lines, removing, spoiled>>

\* The 'attached' handler has read the details and adds the row.
Added(u) ==
  /\ adding[u] > 0
  /\ adding' = [adding EXCEPT ![u] = @ - 1]
  /\ table' = table \cup {u}
  /\ UNCHANGED <<streamVars, lines, tool, conn, attached, nextId, listeners, removing,
                 listing, found, asked, listings, spoiled>>

\* The details cannot be read: the handler rejects, and no row is added.
InfoFails(u) ==
  /\ adding[u] > 0
  /\ attached[u] = 0 \/ ("info" \in Env /\ NoFault)
  /\ adding' = [adding EXCEPT ![u] = @ - 1]
  /\ spoiled' = IF attached[u] = 0 THEN spoiled ELSE spoiled \cup {u}
  /\ UNCHANGED <<streamVars, hostVars, lines, removing>>

\* The 'detached' handler removes the row.
Removed(u) ==
  /\ removing[u] > 0
  /\ removing' = [removing EXCEPT ![u] = @ - 1]
  /\ table' = table \ {u}
  /\ UNCHANGED <<streamVars, lines, tool, conn, attached, nextId, listeners, adding,
                 listing, found, asked, listings, spoiled>>

----------------------------------------------------------------------------
(* Listings.                                                               *)

\* fetchLocalIOSDevices asks for the devices, and for the details of those that
\* have no row.  What cannot be listed is no device.
List ==
  /\ listing = "idle" /\ listings < MaxListings
  /\ listing' = "listing" /\ listings' = listings + 1
  /\ found' = Present \/ ("info" \in Env /\ found' = {})
  /\ asked' = found' \ table
  /\ UNCHANGED <<streamVars, lines, tool, conn, attached, nextId, table, listeners,
                 handlerVars, spoiled>>

\* The details of one device cannot be read: the listing rejects and nothing is
\* stored.  The first listing is part of the plugin's start, which fails with it.
ListFails ==
  /\ listing = "listing" /\ listings > 1
  /\ \E u \in asked : attached[u] = 0 \/ "info" \in Env
  /\ listing' = "idle" /\ found' = {} /\ asked' = {}
  /\ UNCHANGED <<streamVars, lines, tool, conn, attached, nextId, table, listeners,
                 listings, handlerVars, spoiled>>

\* trackIOSDevices: the tracker is created when there is none, and tells of the
\* devices that are there; the listeners are added again each time.
TrackDevices ==
  /\ listing = "listing"
  /\ listing' = "storing" /\ asked' = {}
  /\ listeners' = listeners + 1
  /\ LET news == SetToSeq({Attached(u, attached[u]) : u \in Present})
     IN IF conn # "none" THEN UNCHANGED <<streamVars, lines, conn>>
        ELSE /\ conn' = "open"
             /\ IF tool = "usbmux" THEN Write(news) /\ UNCHANGED lines
                                   ELSE lines' = news /\ UNCHANGED streamVars
  /\ UNCHANGED <<tool, attached, nextId, table, found, listings, handlerVars, spoiled>>

\* updateDeviceList adds the rows that were found.
ListStores ==
  /\ listing = "storing"
  /\ listing' = "idle" /\ found' = {}
  /\ table' = table \cup found
  /\ UNCHANGED <<streamVars, lines, tool, conn, attached, nextId, listeners, asked,
                 listings, handlerVars, spoiled>>

----------------------------------------------------------------------------
(* The devices and the tracker's process.                                  *)

\* Nothing about u is under way.
Calm(u) ==
  /\ listing = "idle" \/ (listing = "storing" /\ u \notin found)
  /\ adding[u] = 0 /\ removing[u] = 0
  /\ \A c \in ToSet(pipe \o data) : c.msg.udid # u
  /\ \A m \in ToSet(lines) : m.udid # u

Report(m) ==
  IF conn # "open" THEN UNCHANGED <<streamVars, lines>>
  ELSE IF tool = "usbmux" THEN Write(<<m>>) /\ UNCHANGED lines
                          ELSE lines' = Append(lines, m) /\ UNCHANGED streamVars

Spoil(u) ==
  /\ Calm(u) \/ ("quick" \in Env /\ spoiled \subseteq {u})
  /\ spoiled' = IF Calm(u) THEN spoiled ELSE spoiled \cup {u}

Plug(u) ==
  /\ attached[u] = 0 /\ nextId <= MaxId
  /\ attached' = [attached EXCEPT ![u] = nextId]
  /\ nextId' = nextId + 1
  /\ Report(Attached(u, nextId))
  /\ Spoil(u)
  /\ UNCHANGED <<tool, conn, table, listeners, listing, found, asked, listings,
                 handlerVars>>

Unplug(u) ==
  /\ attached[u] # 0
  /\ attached' = [attached EXCEPT ![u] = 0]
  /\ Report(Detached(u, attached[u]))
  /\ Spoil(u)
  /\ UNCHANGED <<tool, conn, nextId, table, listeners, listing, found, asked, listings,
                 handlerVars>>

\* The user trusts the host.
Pair(u) ==
  /\ "pair" \in Env
  /\ attached[u] # 0 /\ NoFault
  /\ Report(Paired(u, attached[u]))
  /\ spoiled' = spoiled \cup {u}
  /\ UNCHANGED <<hostVars, handlerVars>>

\* usbmuxd closes the connection, or go-ios exits: nobody starts it again.
TrackerEnds ==
  /\ "lost" \in Env /\ NoFault
  /\ conn = "open"
  /\ conn' = "ended"
  /\ lines' = <<>>
  /\ pipe' = <<>>
  /\ spoiled' = Udids
  /\ cut' = (cut \/ pipe # <<>>)
  /\ UNCHANGED <<sent, parserVars, heard, devices, tool, attached, nextId, table,
                 listeners, handlerVars, listing, found, asked, listings>>

----------------------------------------------------------------------------

\* A handler runs until it awaits: a chunk is parsed to its end before anything
\* else happens in the process.
Idle == data = <<>>

Handlers == Idle /\ \E u \in Udids : Added(u) \/ InfoFails(u) \/ Removed(u)

Listing == Idle /\ (List \/ ListFails \/ TrackDevices \/ ListStores)

Lines == Idle /\ \E n \in 1 .. Len(lines) : Batch(n) \/ BatchDropped(n)

\* Bound: nothing more comes or goes once the view of every device is spoiled.
Outside ==
  /\ Idle /\ spoiled # Udids
  /\ (\E u \in Udids : Plug(u) \/ Unplug(u) \/ Pair(u)) \/ TrackerEnds

Next == Track \/ Lines \/ Handlers \/ Listing \/ Outside

Spec == Init /\ [][Next]_vars

\* Node's event loop: what has arrived is read, handlers and listings end.
FairSpec ==
  /\ Spec
  /\ WF_vars(Track) /\ WF_vars(Lines) /\ WF_vars(Handlers) /\ WF_vars(Listing)

----------------------------------------------------------------------------
(* Properties. *)

\* When nothing about a device is under way, the host lists it if and only if
\* it is attached, however many times the listeners were added - unless the
\* stream was cut in a header, a batch was dropped, the tracker went away, the
\* device was paired, its details could not be read, or it came and went while
\* something about it was under way.
TableFollowsDevices ==
  \A u \in Udids : conn = "open" /\ Calm(u) /\ u \notin spoiled =>
    (u \in table <=> attached[u] # 0)

\* The devices object of usbmux.ts, which "is added and removed to only by
\* createListener", has the DeviceIDs by which usbmuxd knows the devices now.
DevicesMirrorUsbmuxd ==
  tool = "usbmux" /\ conn = "open" /\ pipe = <<>> /\ data = <<>> /\ ~cut =>
    devices = {<<u, attached[u]>> : u \in Present}

\* A device that stays attached is listed in the end.
AttachedIsListed ==
  \A u \in Udids :
    <>[](attached[u] # 0 /\ u \notin spoiled /\ conn = "open") => <>[](u \in table)
====
