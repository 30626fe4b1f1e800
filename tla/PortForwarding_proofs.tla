------------------------- MODULE PortForwarding_proofs -------------------------
(***************************************************************************)
(* Theorems about the port forwarding, for any sessions, devices and ports. *)
(***************************************************************************)
EXTENDS ForwardingHistory, TLAPS

USE ForwardingAssumption

----------------------------------------------------------------------------
(* Types.                                                                  *)

\* The steps of requestConnection keep the types.
LEMMA ServeTyped ==
  ASSUME ForwardingTypeOK, NEW s \in Sessions, Requesting(s)
  PROVE  ForwardingTypeOK'
<1> USE DEF ForwardingTypeOK, Goto, rowVars, callVars, netVars, Creating, Deleting, Over
<1>1. CASE Probe(s)
  BY <1>1 DEF Probe
<1>2. CASE Listen(s)
  BY <1>2 DEF Listen
<1>3. CASE ListenFails(s)
  BY <1>3 DEF ListenFails
<1>4. CASE StopKnown(s)
  BY <1>4 DEF StopKnown, Stop
<1>5. CASE PortIsFree(s)
  BY <1>5 DEF PortIsFree
<1>6. CASE WaitTimesOut(s)
  BY <1>6 DEF WaitTimesOut
<1>7. CASE Enter(s)
  BY <1>7 DEF Enter
<1> QED
  BY <1>1, <1>2, <1>3, <1>4, <1>5, <1>6, <1>7 DEF Requesting

\* So do those of releaseConnection.
LEMMA EndTyped ==
  ASSUME ForwardingTypeOK, NEW s \in Sessions, Releasing(s)
  PROVE  ForwardingTypeOK'
<1> USE DEF ForwardingTypeOK, Goto, rowVars, callVars, netVars, Creating, Deleting, Over
<1>1. CASE Release(s)
  BY <1>1 DEF Release
<1>2. CASE ReleaseListed(s)
  BY <1>2 DEF ReleaseListed, Stop
<1>3. CASE ProbeThrows(s)
  BY <1>3 DEF ProbeThrows
<1>4. CASE ReleaseEnds(s)
  BY <1>4 DEF ReleaseEnds
<1> QED
  BY <1>1, <1>2, <1>3, <1>4 DEF Releasing

\* So do the steps of the session itself.
LEMMA LiveTyped ==
  ASSUME ForwardingTypeOK, NEW s \in Sessions, Live(s)
  PROVE  ForwardingTypeOK'
<1> USE DEF ForwardingTypeOK, Goto, Free, rowVars, callVars, netVars, Creating, Deleting, Over
<1>1. CASE Created(s)
  BY <1>1 DEF Created
<1>2. CASE ReleasedByOthers(s)
  BY <1>2 DEF ReleasedByOthers
<1>3. CASE Delete(s)
  BY <1>3 DEF Delete
<1>4. CASE EventThrows(s)
  BY <1>4 DEF EventThrows
<1>5. CASE Request(s)
  BY <1>5 DEF Request, OnPort
<1> QED
  BY <1>1, <1>2, <1>3, <1>4, <1>5 DEF Live

\* Every step keeps the types.
LEMMA NextTyped == ASSUME ForwardingTypeOK, [Next]_vars PROVE ForwardingTypeOK'
<1>1. ASSUME NEW s \in Sessions, NEW d \in Devices, Allocate(s, d) PROVE ForwardingTypeOK'
  BY <1>1 DEF ForwardingTypeOK, Allocate, Goto, callVars, netVars, Creating, Deleting, Over
<1>2. ASSUME NEW s \in Sessions, NEW p \in Ports \cup {None}, ChoosePort(s, p)
      PROVE  ForwardingTypeOK'
  BY <1>2 DEF ForwardingTypeOK, ChoosePort, Goto, callVars, netVars, Creating, Deleting, Over
<1>3. ASSUME NEW p \in Ports, ForeignListens(p) \/ ForeignLeaves(p) PROVE ForwardingTypeOK'
  BY <1>3 DEF ForwardingTypeOK, ForeignListens, ForeignLeaves, rowVars, callVars
<1>4. CASE UNCHANGED vars
  BY <1>4 DEF ForwardingTypeOK, vars, rowVars, callVars, netVars
<1> QED
  BY <1>1, <1>2, <1>3, <1>4, ServeTyped, EndTyped, LiveTyped
     DEF Next, Serve, Requesting, Releasing, Quiet

\* The types hold in every reachable state, for any environment.
THEOREM ForwardingTyped == Spec => []ForwardingTypeOK
<1>1. Init => ForwardingTypeOK
  BY DEF Init, ForwardingTypeOK
<1>2. ForwardingTypeOK /\ [Next]_vars => ForwardingTypeOK'
  BY NextTyped
<1> QED
  BY <1>1, <1>2, PTL DEF Spec
----------------------------------------------------------------------------
(* Sockets and the mapping.                                                *)

\* The session does not listen yet.
Early == {"new", "allocated", "chosen", "checking", "probed", "waiting"}

\* What the mapping names listens, on behalf of a session with that key.
MappedListens ==
  \A d \in Devices, p \in Ports : mapping[<<d, p>>] # None =>
    /\ socket[p] = mapping[<<d, p>>]
    /\ dev[socket[p]] = d /\ want[socket[p]] = p
    /\ pc[socket[p]] \notin Early \cup {"bound"}

\* What listens is named by the mapping, or is about to be.
ListenerMapped ==
  \A s \in Sessions, p \in Ports : socket[p] = s =>
    /\ pc[s] \notin Early /\ want[s] = p
    /\ pc[s] # "bound" => mapping[<<dev[s], p>>] = s

\* What the calls of requestConnection know of their port.
CallsSound ==
  \A s \in Sessions :
    /\ pc[s] \in {"new", "allocated", "chosen"} => want[s] = None
    /\ pc[s] \in {"checking", "probed", "waiting", "bound"} => want[s] \in Ports
    /\ pc[s] = "bound" => socket[want[s]] = s

SocketInv == ForwardingTypeOK /\ MappedListens /\ ListenerMapped /\ CallsSound

\* The invariant says what the run checks of sockets and mapping.
LEMMA SocketInvImplies == SocketInv => SocketsMatchMapping
<1> SUFFICES ASSUME SocketInv PROVE SocketsMatchMapping
  OBVIOUS
<1>1. ASSUME NEW k \in Keys, mapping[k] \in Sessions PROVE socket[k[2]] = mapping[k]
  <2>1. PICK d \in Devices, p \in Ports : k = <<d, p>>
    BY DEF Keys
  <2> QED
    BY <1>1, <2>1 DEF SocketInv, MappedListens
<1> QED
  BY <1>1 DEF SocketInv, ListenerMapped, SocketsMatchMapping

\* Stopping the connections of some keys keeps sockets and mapping in step,
\* when the session that does so is not one that has just begun to listen.
LEMMA StopKeeps ==
  ASSUME SocketInv, NEW s \in Sessions, NEW step, NEW keys \in SUBSET Keys,
         Stop(keys), Goto(s, step), UNCHANGED <<dev, want>>,
         \/ pc[s] = "probed" /\ step = "waiting"
         \/ pc[s] = "finding" /\ step \in {"deleted", "clearing"}
  PROVE  MappedListens' /\ ListenerMapped' /\ CallsSound'
<1> USE DEF SocketInv, ForwardingTypeOK
<1>1. ASSUME NEW p \in Ports, socket'[p] # socket[p]
      PROVE  /\ socket'[p] = None
             /\ \E d \in Devices : <<d, p>> \in keys /\ mapping[<<d, p>>] = socket[p]
  <2>1. PICK k \in keys : k[2] = p /\ mapping[k] = socket[p]
    BY <1>1 DEF Stop
  <2>2. PICK d \in Devices, q \in Ports : k = <<d, q>>
    BY <2>1 DEF Keys
  <2> QED
    BY <1>1, <2>1, <2>2 DEF Stop
<1>2. ASSUME NEW d \in Devices, NEW p \in Ports, mapping'[<<d, p>>] # None
      PROVE  /\ <<d, p>> \notin keys /\ mapping'[<<d, p>>] = mapping[<<d, p>>]
             /\ socket'[p] = socket[p]
  <2>1. <<d, p>> \in Keys
    BY DEF Keys
  <2>2. <<d, p>> \notin keys /\ mapping'[<<d, p>>] = mapping[<<d, p>>]
    BY <1>2, <2>1 DEF Stop
  <2>3. socket[p] = mapping[<<d, p>>] /\ dev[socket[p]] = d
    BY <1>2, <2>2 DEF MappedListens
  <2>4. ASSUME socket'[p] # socket[p] PROVE FALSE
    <3>1. PICK e \in Devices : <<e, p>> \in keys /\ mapping[<<e, p>>] = socket[p]
      BY <1>1, <2>4
    <3>2. dev[socket[p]] = e
      BY <1>2, <2>2, <2>3, <3>1 DEF MappedListens
    <3> QED
      BY <2>2, <2>3, <3>1, <3>2
  <2> QED
    BY <2>2, <2>4
<1>3. MappedListens'
  <2> SUFFICES ASSUME NEW d \in Devices, NEW p \in Ports, mapping'[<<d, p>>] # None
               PROVE  /\ socket'[p] = mapping'[<<d, p>>]
                      /\ dev[socket[p]] = d /\ want[socket[p]] = p
                      /\ pc'[socket[p]] \notin Early \cup {"bound"}
                      /\ socket'[p] = socket[p]
    BY DEF MappedListens
  <2>1. mapping'[<<d, p>>] = mapping[<<d, p>>] /\ socket'[p] = socket[p]
    BY <1>2
  <2>2. /\ socket[p] = mapping[<<d, p>>] /\ dev[socket[p]] = d /\ want[socket[p]] = p
        /\ pc[socket[p]] \notin Early \cup {"bound"}
    BY <2>1 DEF MappedListens
  <2>3. socket[p] \in Sessions
    BY <2>1, <2>2 DEF Keys
  <2>4. pc'[socket[p]] = pc[socket[p]] \/ (socket[p] = s /\ pc'[socket[p]] = step)
    BY <2>3 DEF Goto
  <2> QED
    BY <2>1, <2>2, <2>4 DEF Early
<1>4. ListenerMapped'
  <2> SUFFICES ASSUME NEW t \in Sessions, NEW p \in Ports, socket'[p] = t
               PROVE  /\ pc'[t] \notin Early /\ want[t] = p
                      /\ pc'[t] # "bound" => mapping'[<<dev[t], p>>] = t
    BY DEF ListenerMapped
  <2>1. socket[p] = t
    BY <1>1
  <2>2. pc[t] \notin Early /\ want[t] = p /\ (pc[t] # "bound" => mapping[<<dev[t], p>>] = t)
    BY <2>1 DEF ListenerMapped
  <2>3. pc'[t] = pc[t] \/ (t = s /\ pc'[t] = step /\ pc[t] = "finding")
    BY <2>2 DEF Goto, Early
  <2>4. ASSUME pc[t] # "bound" PROVE mapping'[<<dev[t], p>>] = t
    <3>1. mapping[<<dev[t], p>>] = t /\ <<dev[t], p>> \in Keys
      BY <2>2, <2>4 DEF Keys, Early
    <3>2. <<dev[t], p>> \notin keys
      BY <2>1, <3>1 DEF Stop
    <3> QED
      BY <3>1, <3>2 DEF Stop
  <2> QED
    BY <2>2, <2>3, <2>4 DEF Early
<1>5. CallsSound'
  <2> SUFFICES ASSUME NEW t \in Sessions
               PROVE  /\ pc'[t] \in {"new", "allocated", "chosen"} => want[t] = None
                      /\ pc'[t] \in {"checking", "probed", "waiting", "bound"} => want[t] \in Ports
                      /\ pc'[t] = "bound" => socket'[want[t]] = t
    BY DEF CallsSound
  <2>1. pc'[t] = pc[t] \/ (t = s /\ pc'[t] = step)
    BY DEF Goto
  <2>2. ASSUME pc'[t] = "bound" PROVE socket'[want[t]] = t
    <3>1. pc[t] = "bound" /\ want[t] \in Ports /\ socket[want[t]] = t
      BY <2>1, <2>2 DEF CallsSound
    <3>2. ASSUME NEW d \in Devices, mapping[<<d, want[t]>>] = t PROVE FALSE
      BY <3>1, <3>2 DEF MappedListens
    <3> QED
      BY <1>1, <3>1, <3>2
  <2> QED
    BY <2>1, <2>2 DEF CallsSound
<1> QED
  BY <1>3, <1>4, <1>5

\* The steps of requestConnection keep the invariant.
LEMMA ServeSockets ==
  ASSUME SocketInv, NEW s \in Sessions, Requesting(s)
  PROVE  MappedListens' /\ ListenerMapped' /\ CallsSound'
<1> USE DEF SocketInv, ForwardingTypeOK, Goto, Early, rowVars, callVars, netVars
<1>1. CASE Probe(s)
  BY <1>1 DEF Probe, MappedListens, ListenerMapped, CallsSound
<1>2. CASE Listen(s)
  <2>0. want[s] \in Ports /\ pc[s] = "probed" /\ socket[want[s]] = None
    BY <1>2 DEF Listen, CallsSound
  <2>1. MappedListens'
    BY <1>2, <2>0 DEF Listen, MappedListens, Keys
  <2>2. ListenerMapped'
    BY <1>2, <2>0 DEF Listen, ListenerMapped
  <2>3. CallsSound'
    BY <1>2, <2>0 DEF Listen, CallsSound
  <2> QED
    BY <2>1, <2>2, <2>3
<1>3. CASE ListenFails(s)
  BY <1>3 DEF ListenFails, MappedListens, ListenerMapped, CallsSound
<1>4. CASE StopKnown(s)
  <2>1. seen[s] \X {want[s]} \in SUBSET Keys
    BY <1>4 DEF StopKnown, Keys, CallsSound
  <2> QED
    BY <1>4, <2>1, StopKeeps DEF StopKnown
<1>5. CASE PortIsFree(s)
  BY <1>5 DEF PortIsFree, MappedListens, ListenerMapped, CallsSound
<1>6. CASE WaitTimesOut(s)
  BY <1>6 DEF WaitTimesOut, MappedListens, ListenerMapped, CallsSound
<1>7. CASE Enter(s)
  <2>0. want[s] \in Ports /\ pc[s] = "bound" /\ socket[want[s]] = s /\ dev[s] \in Devices
        /\ <<dev[s], want[s]>> \in Keys
    BY <1>7 DEF Enter, CallsSound, Keys
  <2>1. MappedListens'
    BY <1>7, <2>0 DEF Enter, MappedListens, Keys
  <2>2. ListenerMapped'
    BY <1>7, <2>0 DEF Enter, ListenerMapped, Keys
  <2>3. CallsSound'
    BY <1>7, <2>0 DEF Enter, CallsSound
  <2> QED
    BY <2>1, <2>2, <2>3
<1> QED
  BY <1>1, <1>2, <1>3, <1>4, <1>5, <1>6, <1>7 DEF Requesting

\* So do those of releaseConnection.
LEMMA EndSockets ==
  ASSUME SocketInv, NEW s \in Sessions, Releasing(s)
  PROVE  MappedListens' /\ ListenerMapped' /\ CallsSound'
<1> USE DEF SocketInv, ForwardingTypeOK, Goto, Early, rowVars, callVars, netVars
<1>1. CASE Release(s)
  BY <1>1 DEF Release, MappedListens, ListenerMapped, CallsSound
<1>2. CASE ReleaseListed(s)
  <2>1. Listed(dev[s], rel[s]) \in SUBSET Keys
    BY DEF Listed
  <2> QED
    BY <1>2, <2>1, StopKeeps DEF ReleaseListed
<1>3. CASE ProbeThrows(s)
  BY <1>3 DEF ProbeThrows, MappedListens, ListenerMapped, CallsSound
<1>4. CASE ReleaseEnds(s)
  BY <1>4 DEF ReleaseEnds, MappedListens, ListenerMapped, CallsSound
<1> QED
  BY <1>1, <1>2, <1>3, <1>4 DEF Releasing

\* So do the steps of the session itself.
LEMMA LiveSockets ==
  ASSUME SocketInv, NEW s \in Sessions, Live(s)
  PROVE  MappedListens' /\ ListenerMapped' /\ CallsSound'
<1> USE DEF SocketInv, ForwardingTypeOK, Goto, Early, rowVars, callVars, netVars
<1>1. CASE Created(s)
  BY <1>1 DEF Created, MappedListens, ListenerMapped, CallsSound
<1>2. CASE ReleasedByOthers(s)
  BY <1>2 DEF ReleasedByOthers, MappedListens, ListenerMapped, CallsSound
<1>3. CASE Delete(s)
  BY <1>3 DEF Delete, MappedListens, ListenerMapped, CallsSound
<1>4. CASE EventThrows(s)
  BY <1>4 DEF EventThrows, MappedListens, ListenerMapped, CallsSound
<1>5. CASE Request(s)
  <2>1. \A p \in Ports : socket[p] # s
    BY <1>5 DEF Request, ListenerMapped
  <2>2. MappedListens'
    BY <1>5, <2>1 DEF Request, MappedListens, Keys
  <2>3. ListenerMapped'
    BY <1>5, <2>1 DEF Request, ListenerMapped
  <2>4. CallsSound'
    BY <1>5 DEF Request, CallsSound
  <2> QED
    BY <2>2, <2>3, <2>4
<1> QED
  BY <1>1, <1>2, <1>3, <1>4, <1>5 DEF Live

\* Every step keeps the invariant.
LEMMA NextSockets == ASSUME SocketInv, [Next]_vars PROVE SocketInv'
<1>0. ForwardingTypeOK'
  BY NextTyped DEF SocketInv
<1> USE DEF SocketInv, ForwardingTypeOK, Goto, Early, rowVars, callVars, netVars
<1>1. ASSUME NEW s \in Sessions, NEW d \in Devices, Allocate(s, d)
      PROVE  MappedListens' /\ ListenerMapped' /\ CallsSound'
  <2>1. \A p \in Ports : socket[p] # s
    BY <1>1 DEF Allocate, ListenerMapped
  <2>2. MappedListens'
    BY <1>1, <2>1 DEF Allocate, MappedListens, Keys
  <2> QED
    BY <1>1, <2>1, <2>2 DEF Allocate, ListenerMapped, CallsSound
<1>2. ASSUME NEW s \in Sessions, NEW p \in Ports \cup {None}, ChoosePort(s, p)
      PROVE  MappedListens' /\ ListenerMapped' /\ CallsSound'
  BY <1>2 DEF ChoosePort, MappedListens, ListenerMapped, CallsSound
<1>3. ASSUME NEW p \in Ports, ForeignListens(p) \/ ForeignLeaves(p)
      PROVE  MappedListens' /\ ListenerMapped' /\ CallsSound'
  <2>1. socket[p] \notin Sessions /\ socket'[p] \notin Sessions
        /\ \A q \in Ports \ {p} : socket'[q] = socket[q]
    BY <1>3 DEF ForeignListens, ForeignLeaves
  <2>2. UNCHANGED <<pc, dev, want, mapping>>
    BY <1>3 DEF ForeignListens, ForeignLeaves
  <2>3. MappedListens'
    BY <2>1, <2>2 DEF MappedListens, Keys
  <2>4. ListenerMapped' /\ CallsSound'
    BY <2>1, <2>2 DEF ListenerMapped, CallsSound
  <2> QED
    BY <2>3, <2>4
<1>4. CASE UNCHANGED vars
  BY <1>0, <1>4 DEF vars, MappedListens, ListenerMapped, CallsSound
<1>5. CASE Next
  BY <1>0, <1>1, <1>2, <1>3, <1>4, <1>5, ServeSockets, EndSockets, LiveSockets
     DEF Next, Serve, Requesting, Releasing, Quiet
<1> QED
  BY <1>4, <1>5

\* The invariant holds at the start.
LEMMA InitSockets == Init => SocketInv
  BY DEF Init, SocketInv, ForwardingTypeOK, MappedListens, ListenerMapped, CallsSound, Keys

\* Every proxy that listens is in the mapping or about to be, and what the
\* mapping names listens, whatever the environment does.
THEOREM SocketsAreMapped == Spec => []SocketsMatchMapping
<1>1. SocketInv /\ [Next]_vars => SocketInv'
  BY NextSockets
<1> QED
  BY InitSockets, SocketInvImplies, <1>1, PTL DEF Spec
----------------------------------------------------------------------------
(* Sessions of one device.                                                 *)

\* A session holds its device until it is freed; and where a deleteSession still
\* has to release its port, the device's next session has overtaken it.
DevicesApart ==
  \A s, t \in Sessions :
    /\ pc[s] \in Creating => held[dev[s]] = s
    /\ pc[s] \in Creating /\ pc[t] \in Deleting /\ dev[s] = dev[t] => <<t, s>> \in overtaken

\* The invariant under which releases spare other sessions.
ApartInv == SocketInv /\ DevicesApart /\ SessionHasPort

\* Only a request for the same port closes the port of a session in use, or the
\* end of a session it has overtaken.
LEMMA StepSpares ==
  ASSUME SocketInv, DevicesApart, [Next]_vars,
         NEW s \in Sessions, InUse(s), socket'[want[s]] # s
  PROVE  \E t \in Sessions \ {s} : \/ pc[t] = "probed" /\ want[t] = want[s]
                                   \/ pc[t] = "finding" /\ <<t, s>> \in overtaken
<1> USE DEF SocketInv, ForwardingTypeOK
<1>0. want[s] \in Ports /\ socket[want[s]] = s /\ pc[s] \in {"creating", "running"}
  BY DEF InUse
<1>1. PICK t \in Sessions : Listen(t) \/ StopKnown(t) \/ ReleaseListed(t)
  BY <1>0 DEF Next, vars, netVars, Allocate, ChoosePort, Live, Created, ReleasedByOthers,
     Delete, EventThrows, Request, Serve, Requesting, Releasing, Probe, ListenFails,
     PortIsFree, WaitTimesOut, Enter, Release, ProbeThrows, ReleaseEnds, ForeignListens,
     ForeignLeaves, Quiet
<1>2. CASE Listen(t)
  BY <1>0, <1>2 DEF Listen
<1>3. CASE StopKnown(t)
  BY <1>0, <1>3 DEF StopKnown, Stop
<1>4. CASE ReleaseListed(t)
  <2>1. PICK k \in Listed(dev[t], rel[t]) : k[2] = want[s] /\ mapping[k] = s
    BY <1>0, <1>4 DEF ReleaseListed, Stop
  <2>2. PICK d \in Devices, p \in Ports : k = <<d, p>>
    BY <2>1 DEF Listed, Keys
  <2>3. d = dev[t] /\ mapping[<<d, p>>] = s
    BY <2>1, <2>2 DEF Listed
  <2>4. dev[s] = d
    BY <2>2, <2>3 DEF MappedListens
  <2> QED
    BY <1>0, <1>4, <2>3, <2>4 DEF ReleaseListed, DevicesApart, Creating, Deleting
<1> QED
  BY <1>1, <1>2, <1>3, <1>4

\* The steps that change who has a device.
LEMMA NextApart ==
  ASSUME SocketInv, DevicesApart, [HistoryNext]_historyVars
  PROVE  DevicesApart'
<1>0. [Next]_vars /\ overtaken \subseteq overtaken'
  BY DEF HistoryNext, historyVars
<1> USE DEF SocketInv, ForwardingTypeOK, Goto, rowVars, callVars, netVars, Creating, Deleting, Over
<1>1. ASSUME NEW s \in Sessions, NEW d \in Devices, Allocate(s, d) PROVE DevicesApart'
  <2>1. /\ pc[s] = "new" /\ held[d] = None /\ dev'[s] = d /\ pc'[s] = "allocated"
        /\ held' = [held EXCEPT ![d] = s]
        /\ \A t \in Sessions \ {s} : pc'[t] = pc[t] /\ dev'[t] = dev[t]
    BY <1>1 DEF Allocate
  <2>2. ASSUME NEW t \in Sessions, pc[t] \in Deleting, dev[t] = d PROVE <<t, s>> \in overtaken'
    <3>1. Overtakes(s, t)
      BY <2>1, <2>2 DEF Overtakes
    <3>2. ~UNCHANGED vars
      BY <2>1 DEF vars
    <3> QED BY <3>1, <3>2 DEF HistoryNext, historyVars
  <2> HIDE DEF SocketInv, ForwardingTypeOK
  <2>3. \A t \in Sessions \ {s} : pc[t] \in Creating => dev[t] # d
    BY <2>1 DEF DevicesApart, SocketInv, ForwardingTypeOK
  <2> QED BY <1>0, <2>1, <2>2, <2>3 DEF DevicesApart, SocketInv, ForwardingTypeOK
<1>2. ASSUME NEW s \in Sessions, ReleasedByOthers(s) \/ Delete(s) PROVE DevicesApart'
  <2>1. /\ pc[s] \in Creating /\ dev[s] \in Devices /\ UNCHANGED dev
        /\ held' = [d \in Devices |-> IF d = dev[s] THEN None ELSE held[d]]
        /\ pc'[s] \in {"gone", "ending"}
        /\ \A t \in Sessions \ {s} : pc'[t] = pc[t]
    BY <1>2 DEF ReleasedByOthers, Delete, Free
  <2>2. \A t \in Sessions \ {s} : pc[t] \in Creating => dev[t] # dev[s]
    BY <2>1 DEF DevicesApart
  <2> QED
    BY <1>0, <2>1, <2>2 DEF DevicesApart
<1>3. ASSUME NEW s \in Sessions,
             \/ Created(s) \/ EventThrows(s) \/ Request(s) \/ Requesting(s) \/ Releasing(s)
             \/ \E p \in Ports \cup {None} : ChoosePort(s, p)
      PROVE  DevicesApart'
  <2>1. UNCHANGED <<dev, held>>
    BY <1>3 DEF Created, EventThrows, Request, Requesting, Releasing, ChoosePort, Probe, Listen,
       ListenFails, StopKnown, PortIsFree, WaitTimesOut, Enter, Release, ReleaseListed,
       ProbeThrows, ReleaseEnds
  <2>2. /\ \A t \in Sessions \ {s} : pc'[t] = pc[t]
        /\ pc'[s] \in Creating => pc[s] \in Creating
        /\ pc'[s] \in Deleting => pc[s] \in Deleting
    BY <1>3 DEF Created, EventThrows, Request, Requesting, Releasing, ChoosePort, Probe, Listen,
       ListenFails, StopKnown, PortIsFree, WaitTimesOut, Enter, Release, ReleaseListed,
       ProbeThrows, ReleaseEnds
  <2> QED
    BY <1>0, <2>1, <2>2 DEF DevicesApart
<1>4. ASSUME UNCHANGED <<pc, dev, held>> PROVE DevicesApart'
  BY <1>0, <1>4 DEF DevicesApart
<1> QED
  BY <1>0, <1>1, <1>2, <1>3, <1>4
     DEF Next, Live, Serve, Requesting, Releasing, ForeignListens, ForeignLeaves, Quiet, vars

\* A session that has asked for its port keeps it.
LEMMA NextHasPort ==
  ASSUME ApartInv, [HistoryNext]_historyVars
  PROVE  SessionHasPort'
<1>0. [Next]_vars /\ overtaken \subseteq overtaken'
  BY DEF HistoryNext, historyVars
<1> USE DEF ApartInv, SocketInv, ForwardingTypeOK
<1> SUFFICES ASSUME NEW s \in Sessions, pc'[s] \in {"creating", "running"}, want'[s] # None,
                    \A t \in Sessions \ {s} : want'[t] # want'[s] /\ <<t, s>> \notin overtaken'
             PROVE  socket'[want'[s]] = s
  BY DEF SessionHasPort
<1>1. \A t \in Sessions : want'[t] = want[t] \/ (pc[t] = "chosen" /\ want[t] = None)
  BY <1>0 DEF CallsSound, Next, vars, callVars, netVars, Allocate, ChoosePort, Live, Created,
     ReleasedByOthers, Delete, EventThrows, Request, Serve, Requesting, Releasing, Probe,
     Listen, ListenFails, StopKnown, PortIsFree, WaitTimesOut, Enter, Release, ReleaseListed,
     ProbeThrows, ReleaseEnds, ForeignListens, ForeignLeaves, Quiet
<1>2. \/ pc[s] \in {"creating", "running"}
      \/ pc[s] = "bound" /\ UNCHANGED socket
      \/ pc[s] = "chosen" /\ want'[s] = None
  <2> USE DEF Goto
  <2>1. ASSUME NEW t \in Sessions, Request(t)
        PROVE  (pc[s] = "chosen" /\ want'[s] = None) \/ pc'[s] = pc[s]
    BY <2>1 DEF Request
  <2>2. ASSUME NEW t \in Sessions, Enter(t)
        PROVE  (pc[s] = "bound" /\ UNCHANGED socket) \/ pc'[s] = pc[s]
    BY <2>2 DEF Enter
  <2>3. ASSUME NEW t \in Sessions, Created(t)
        PROVE  pc[s] = "creating" \/ pc'[s] = pc[s]
    BY <2>3 DEF Created
  <2>4. ASSUME NEW t \in Sessions, Requesting(t) \/ Releasing(t), ~Enter(t)
        PROVE  pc'[s] = pc[s]
    BY <2>4 DEF Requesting, Releasing, Probe, Listen, ListenFails, StopKnown, PortIsFree,
       WaitTimesOut, Release, ReleaseListed, ProbeThrows, ReleaseEnds
  <2>5. ASSUME NEW t \in Sessions,
               \/ ReleasedByOthers(t) \/ Delete(t) \/ EventThrows(t)
               \/ \E d \in Devices : Allocate(t, d)
               \/ \E p \in Ports \cup {None} : ChoosePort(t, p)
        PROVE  pc'[s] = pc[s]
    BY <2>5 DEF ReleasedByOthers, Delete, EventThrows, Allocate, ChoosePort
  <2>6. ASSUME NEW p \in Ports, ForeignListens(p) \/ ForeignLeaves(p) PROVE pc'[s] = pc[s]
    BY <2>6 DEF ForeignListens, ForeignLeaves
  <2> QED
    BY <1>0, <2>1, <2>2, <2>3, <2>4, <2>5, <2>6
       DEF Next, Serve, Requesting, Releasing, Live, Quiet, vars
<1>3. CASE pc[s] = "bound" /\ UNCHANGED socket
  BY <1>1, <1>3 DEF CallsSound
<1>4. CASE pc[s] \in {"creating", "running"}
  <2>1. want'[s] = want[s] /\ \A t \in Sessions \ {s} : want[t] # want[s]
    BY <1>1, <1>4
  <2>2. socket[want[s]] = s
    BY <1>0, <1>4, <2>1 DEF SessionHasPort
  <2> QED
    BY <1>0, <1>4, <2>1, <2>2, StepSpares DEF InUse
<1> QED
  BY <1>2, <1>3, <1>4

\* The invariant holds in every reachable state.
LEMMA ApartAlways == HistorySpec => []ApartInv
<1>1. HistoryInit => ApartInv
  BY InitSockets DEF HistoryInit, Init, ApartInv, DevicesApart, SessionHasPort, Creating, Deleting
<1>2. ApartInv /\ [HistoryNext]_historyVars => ApartInv'
  BY NextSockets, NextApart, NextHasPort DEF ApartInv, HistoryNext, historyVars
<1> QED
  BY <1>1, <1>2, PTL DEF HistorySpec

\* The port of a session in use is closed by nobody but a request for the same
\* port, or the end of the session from which it took its device over too early,
\* for any sessions, devices and ports and every Env.
THEOREM SessionsAreSpared == HistorySpec => SparedUnlessOvertaking
<1>1. ApartInv /\ [HistoryNext]_historyVars =>
        [\A s \in Sessions : InUse(s) /\ socket'[want[s]] # s =>
           \E t \in Sessions \ {s} : \/ pc[t] = "probed" /\ want[t] = want[s]
                                     \/ pc[t] = "finding" /\ <<t, s>> \in overtaken]_historyVars
  BY StepSpares DEF ApartInv, HistoryNext, historyVars
<1> QED
  BY <1>1, ApartAlways, PTL DEF HistorySpec, SparedUnlessOvertaking

\* A session has its port from its creation to its end, unless another one has
\* asked for the same port or was still ending when this one got its device, for
\* every Env.
THEOREM SessionsHavePorts == HistorySpec => []SessionHasPort
<1>1. ApartInv => SessionHasPort
  BY DEF ApartInv
<1> QED
  BY <1>1, ApartAlways, PTL
====
