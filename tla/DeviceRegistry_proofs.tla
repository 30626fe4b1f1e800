------------------------- MODULE DeviceRegistry_proofs -------------------------
(***************************************************************************)
(* Theorems about the tables of the hub and its nodes, for any set of hosts *)
(* and devices.                                                            *)
(***************************************************************************)
EXTENDS RegistryHistory, TLAPS

----------------------------------------------------------------------------
(* Type correctness needs one fact of the control: a process lists and      *)
(* stores only devices of its own.                                         *)

ListsOwn == \A h \in Hosts : sweep[h].devs \subseteq Own(h)

USE RegistryAssumption

\* The parts of a handler's record.
LEMMA HandlerFields ==
  ASSUME NEW x \in Handler
  PROVE  /\ x.kind \in {"add", "remove"} /\ x.dev \in Devices /\ x.nr \in 0 .. MaxPlugs
         /\ x.step \in {"booting", "posting", "storing"}
  BY DEF Handler

\* The records of a tracker event and of a list.
LEMMA RecordTypes ==
  /\ \A kind \in {"add", "remove"}, d \in Devices, nr \in 0 .. MaxPlugs,
        step \in {"booting", "posting", "storing"} :
       Event(kind, d, nr, step) \in Handler
  /\ \A step \in {"idle", "listing", "storing", "posting"}, devs \in SUBSET Devices :
       [step |-> step, devs |-> devs] \in Sweep
  /\ \A y \in Sweep : y.devs \in SUBSET Devices
  /\ NoSweep \in Sweep /\ Listing \in Sweep /\ NoStale \in Stale
  BY DEF Event, Handler, Sweep, Stale, NoSweep, Listing, NoStale

\* What the two tables of rows must satisfy.
TablesTyped ==
  /\ table \in [Hosts -> SUBSET Devices]
  /\ busy \in [Hosts -> SUBSET Devices]
  /\ \A h \in Hosts : busy[h] \subseteq table[h]
  /\ \A n \in Nodes : table[n] \subseteq Own(n)

\* What the other variables must satisfy.
OthersTyped ==
  /\ plugged \subseteq Devices
  /\ tracking \subseteq up /\ up \subseteq Hosts
  /\ sessions \in [Devices -> Nat]
  /\ handlers \subseteq Handler
  /\ sweep \in [Hosts -> Sweep]
  /\ stale \in Stale
  /\ plugs \in [Devices -> 0 .. MaxPlugs]
  /\ crashes \in 0 .. MaxCrashes
  /\ ListsOwn

TypeInv == TablesTyped /\ OthersTyped

\* The two together contain the type invariant that the runs check.
LEMMA TypeInvImplies == TypeInv => RegistryTypeOK
  BY DEF TypeInv, RegistryTypeOK, TablesTyped, OthersTyped

\* The initial state is type correct.
LEMMA InitTyped == Init => TypeInv
<1> SUFFICES ASSUME Init PROVE TypeInv
  OBVIOUS
<1>1. TablesTyped
  BY DEF Init, TablesTyped, Nodes, Own
<1>2. ListsOwn
  BY DEF Init, ListsOwn, Own, NoSweep, Listing
<1>3. OthersTyped
  BY <1>2, RecordTypes DEF Init, OthersTyped
<1> QED
  BY <1>1, <1>3 DEF TypeInv

\* addNewDevice leaves the tables well typed if a node stores devices of its
\* own.
LEMMA InsertTyped ==
  ASSUME TablesTyped, NEW h \in Hosts, NEW devs \in SUBSET Devices,
         h = Hub \/ devs \subseteq Own(h),
         Insert(h, devs)
  PROVE  TablesTyped'
  BY DEF TablesTyped, Insert, Nodes, Own

\* removeDevice leaves them well typed.
LEMMA DeleteTyped ==
  ASSUME TablesTyped, NEW h \in Hosts, NEW devs, Delete(h, devs)
  PROVE  TablesTyped'
  BY DEF TablesTyped, Delete, Nodes, Own

\* So does a tracker event at the process it comes from and at the hub.
LEMMA ApplyTyped ==
  ASSUME TablesTyped, NEW x \in Handler, NEW h \in {Hub, HostOf[x.dev]}, Apply(h, x)
  PROVE  TablesTyped'
<1>1. x.dev \in Devices /\ h \in Hosts
  BY HandlerFields
<1>2. CASE x.kind = "add"
  BY <1>1, <1>2, InsertTyped DEF Apply, Own
<1>3. CASE x.kind # "add"
  BY <1>1, <1>3, DeleteTyped DEF Apply
<1> QED
  BY <1>2, <1>3

\* A handler that goes on to its next await keeps its type.
LEMMA AdvanceTyped ==
  ASSUME handlers \subseteq Handler, NEW x \in handlers,
         NEW step \in {"booting", "posting", "storing"}, Advance(x, step)
  PROVE  handlers' \subseteq Handler
<1>1. Event(x.kind, x.dev, x.nr, step) \in Handler
  BY HandlerFields, RecordTypes
<1> QED
  BY <1>1 DEF Advance

\* A step that leaves the tables alone leaves them well typed.
LEMMA TablesSame == TablesTyped /\ UNCHANGED tableVars => TablesTyped'
  BY DEF TablesTyped, tableVars, Own

----------------------------------------------------------------------------
(* Each kind of step keeps the type invariant.                             *)

\* Devices come and go, sessions begin and end.
LEMMA DeviceTyped ==
  ASSUME TypeInv, NEW d \in Devices,
         Plug(d) \/ Unplug(d) \/ Begin(d) \/ End(d)
  PROVE  TypeInv'
<1>0. TablesTyped /\ OthersTyped
  BY DEF TypeInv
<1>1. CASE Plug(d)
  <2>1. plugs[d] + 1 \in 0 .. MaxPlugs
    BY <1>0, <1>1 DEF OthersTyped, Plug
  <2>2. handlers' \subseteq Handler
    BY <1>0, <1>1, <2>1, RecordTypes DEF OthersTyped, Plug
  <2>3. OthersTyped'
    BY <1>0, <1>1, <2>1, <2>2 DEF OthersTyped, Plug, ListsOwn, Own
  <2> QED
    BY <1>0, <1>1, <2>3, TablesSame DEF Plug, TypeInv
<1>2. CASE Unplug(d)
  <2>1. handlers' \subseteq Handler
    BY <1>0, <1>2, RecordTypes DEF OthersTyped, Unplug, AfterEvent
  <2>2. OthersTyped'
    BY <1>0, <1>2, <2>1 DEF OthersTyped, Unplug, ListsOwn, Own
  <2> QED
    BY <1>0, <1>2, <2>2, TablesSame DEF Unplug, TypeInv
<1>3. CASE Begin(d)
  <2>1. TablesTyped'
    BY <1>0, <1>3 DEF TablesTyped, Begin, Own
  <2>2. OthersTyped'
    BY <1>0, <1>3 DEF OthersTyped, Begin, ListsOwn, Own
  <2> QED
    BY <2>1, <2>2 DEF TypeInv
<1>4. CASE End(d)
  <2>1. OthersTyped'
    BY <1>0, <1>4 DEF OthersTyped, End, ListsOwn, Own
  <2> QED
    BY <1>0, <1>4, <2>1, TablesSame DEF End, TypeInv
<1> QED
  BY <1>1, <1>2, <1>3, <1>4

\* A tracker event is handled.
LEMMA HandleTyped ==
  ASSUME TypeInv, NEW x \in handlers, Handle(x)
  PROVE  TypeInv'
<1>0. TablesTyped /\ OthersTyped /\ x \in Handler /\ handlers \subseteq Handler
  BY DEF TypeInv, OthersTyped
<1>1. x.dev \in Devices /\ HostOf[x.dev] \in Hosts
  BY <1>0, HandlerFields
<1>2. handlers' \subseteq Handler
  BY <1>0, AdvanceTyped DEF Handle, Booted, BootFails, PostArrives, PostFails, Store, AfterEvent
<1>3. OthersTyped'
  BY <1>0, <1>2 DEF Handle, Booted, BootFails, PostArrives, PostFails, Store, OthersTyped,
                    ListsOwn, Own
<1>4. TablesTyped'
  BY <1>0, <1>1, ApplyTyped, TablesSame
     DEF Handle, Booted, BootFails, PostArrives, PostFails, Store
<1> QED
  BY <1>3, <1>4 DEF TypeInv

\* updateDeviceList takes a step.
LEMMA SweepTyped ==
  ASSUME TypeInv, NEW h \in Hosts, SweepOn(h)
  PROVE  TypeInv'
<1>0. TablesTyped /\ OthersTyped
  BY DEF TypeInv
<1>1. sweep[h].devs \in SUBSET Devices /\ sweep[h].devs \subseteq Own(h)
  BY <1>0, RecordTypes DEF OthersTyped, ListsOwn
<1>2. ASSUME NEW step \in {"idle", "listing", "storing", "posting"},
             NEW devs \in SUBSET Own(h), SetSweep(h, step, devs)
      PROVE  sweep' \in [Hosts -> Sweep] /\ ListsOwn'
  <2>1. devs \in SUBSET Devices /\ [step |-> step, devs |-> devs] \in Sweep
    BY RecordTypes DEF Own
  <2> QED
    BY <1>0, <1>2, <2>1 DEF SetSweep, OthersTyped, ListsOwn, Own
<1>3. ASSUME NEW devs \in SUBSET Devices, SweepLists(h, devs) PROVE TypeInv'
  <2>1. devs \in SUBSET Own(h)
    BY <1>3 DEF SweepLists, Listings
  <2>2. sweep' \in [Hosts -> Sweep] /\ ListsOwn'
    BY <1>2, <1>3, <2>1 DEF SweepLists
  <2>3. \A d \in plugged \cap Own(h) : Event("add", d, plugs[d], "booting") \in Handler
    BY <1>0, RecordTypes DEF OthersTyped
  <2>4. handlers' \subseteq Handler
    BY <1>0, <1>3, <2>3 DEF SweepLists, OthersTyped
  <2>5. OthersTyped'
    BY <1>0, <1>3, <2>2, <2>4 DEF SweepLists, OthersTyped
  <2> QED
    BY <1>0, <1>3, <2>5, TablesSame DEF SweepLists, TypeInv
<1>4. CASE SweepStores(h)
  <2>1. sweep' \in [Hosts -> Sweep] /\ ListsOwn'
    BY <1>1, <1>2, <1>4 DEF SweepStores
  <2>2. TablesTyped'
    BY <1>0, <1>1, <1>4, InsertTyped DEF SweepStores
  <2>3. OthersTyped'
    BY <1>0, <1>4, <2>1 DEF SweepStores, OthersTyped
  <2> QED
    BY <2>2, <2>3 DEF TypeInv
<1>5. CASE SweepArrives(h)
  <2>1. sweep' \in [Hosts -> Sweep] /\ ListsOwn'
    BY <1>2, <1>5 DEF SweepArrives
  <2>2. TablesTyped'
    BY <1>0, <1>1, <1>5, InsertTyped DEF SweepArrives
  <2>3. OthersTyped'
    BY <1>0, <1>5, <2>1 DEF SweepArrives, OthersTyped
  <2> QED
    BY <2>2, <2>3 DEF TypeInv
<1>6. CASE SweepFails(h)
  <2>1. sweep' \in [Hosts -> Sweep] /\ ListsOwn'
    BY <1>2, <1>6 DEF SweepFails
  <2>2. OthersTyped'
    BY <1>0, <1>6, <2>1 DEF SweepFails, OthersTyped
  <2> QED
    BY <1>0, <1>6, <2>2, TablesSame DEF SweepFails, TypeInv
<1> QED
  BY <1>3, <1>4, <1>5, <1>6 DEF SweepOn

\* A node asks whether the hub is there.
LEMMA HubAskedTyped ==
  ASSUME TypeInv, NEW n \in Nodes, HubAnswers(n) \/ HubSilent(n)
  PROVE  TypeInv'
<1>0. TablesTyped /\ OthersTyped /\ n \in Hosts
  BY DEF TypeInv, Nodes
<1>1. CASE HubAnswers(n)
  <2>1. [step |-> "listing", devs |-> {}] \in Sweep
    BY RecordTypes
  <2>2. OthersTyped'
    BY <1>0, <1>1, <2>1 DEF HubAnswers, SetSweep, OthersTyped, ListsOwn, Own
  <2> QED
    BY <1>0, <1>1, <2>2, TablesSame DEF HubAnswers, TypeInv
<1>2. CASE HubSilent(n)
  <2>1. TablesTyped'
    BY <1>0, <1>2, DeleteTyped DEF HubSilent
  <2>2. OthersTyped'
    BY <1>0, <1>2 DEF HubSilent, OthersTyped, ListsOwn, Own
  <2> QED
    BY <2>1, <2>2 DEF TypeInv
<1> QED
  BY <1>1, <1>2

\* removeStaleDevices takes a step.
LEMMA StaleTyped == ASSUME TypeInv, StaleCheck PROVE TypeInv'
<1>0. TablesTyped /\ OthersTyped
  BY DEF TypeInv
<1>1. CASE StaleStart
  <2>1. ForeignRows \subseteq Devices
    BY <1>0 DEF TablesTyped, ForeignRows
  <2>2. stale' \in Stale
    BY <1>1, <2>1 DEF StaleStart, Stale
  <2>3. OthersTyped'
    BY <1>0, <1>1, <2>2 DEF StaleStart, OthersTyped, ListsOwn, Own
  <2> QED
    BY <1>0, <1>1, <2>3, TablesSame DEF StaleStart, TypeInv
<1>2. ASSUME NEW n \in Nodes, StalePing(n) PROVE TypeInv'
  <2>1. stale \in Stale
    BY <1>0 DEF OthersTyped
  <2>2. stale' \in Stale
    BY <1>2, <2>1 DEF StalePing, Asked, Stale
  <2>3. OthersTyped'
    BY <1>0, <1>2, <2>2 DEF StalePing, OthersTyped, ListsOwn, Own
  <2> QED
    BY <1>0, <1>2, <2>3, TablesSame DEF StalePing, TypeInv
<1>3. CASE StaleFinish
  <2>1. TablesTyped'
    BY <1>0, <1>3, DeleteTyped DEF StaleFinish
  <2>2. OthersTyped'
    BY <1>0, <1>3, RecordTypes DEF StaleFinish, OthersTyped, ListsOwn, Own
  <2> QED
    BY <2>1, <2>2 DEF TypeInv
<1> QED
  BY <1>1, <1>2, <1>3 DEF StaleCheck

\* A process goes down or is started again.
LEMMA ProcessTyped ==
  ASSUME TypeInv, NEW h \in Hosts, Crash(h) \/ Restart(h)
  PROVE  TypeInv'
<1>0. TablesTyped /\ OthersTyped
  BY DEF TypeInv
<1>1. CASE Crash(h)
  <2>1. [step |-> "idle", devs |-> {}] \in Sweep
    BY RecordTypes
  <2>2. sweep' \in [Hosts -> Sweep] /\ ListsOwn'
    BY <1>0, <1>1, <2>1 DEF Crash, SetSweep, OthersTyped, ListsOwn, Own
  <2>3. crashes' \in 0 .. MaxCrashes
    BY <1>0, <1>1 DEF Crash, OthersTyped
  <2>4. OthersTyped'
    BY <1>0, <1>1, <2>2, <2>3, RecordTypes DEF Crash, OthersTyped
  <2>5. TablesTyped'
    BY <1>0, <1>1, DeleteTyped DEF Crash
  <2> QED
    BY <2>4, <2>5 DEF TypeInv
<1>2. CASE Restart(h)
  <2>1. sweep' \in [Hosts -> Sweep] /\ ListsOwn'
    BY <1>0, <1>2, RecordTypes DEF Restart, OthersTyped, ListsOwn, Own, Listing, NoSweep
  <2>2. OthersTyped'
    BY <1>0, <1>2, <2>1 DEF Restart, OthersTyped
  <2> QED
    BY <1>0, <1>2, <2>2, TablesSame DEF Restart, TypeInv
<1> QED
  BY <1>1, <1>2

\* A process frees a row.
LEMMA ReleaseTyped ==
  ASSUME TypeInv, NEW h \in Hosts, NEW d \in Devices, Release(h, d)
  PROVE  TypeInv'
<1>1. TablesTyped'
  BY DEF TypeInv, TablesTyped, Release, Own
<1>2. OthersTyped'
  BY DEF TypeInv, OthersTyped, Release, ListsOwn, Own
<1> QED
  BY <1>1, <1>2 DEF TypeInv

\* Every step keeps the type invariant.
LEMMA NextTyped == ASSUME TypeInv, [Next]_vars PROVE TypeInv'
<1>1. CASE Next
  BY <1>1, DeviceTyped, HandleTyped, SweepTyped, HubAskedTyped, StaleTyped, ProcessTyped,
     ReleaseTyped DEF Next
<1>2. CASE UNCHANGED vars
  <2>1. TablesTyped'
    BY <1>2, TablesSame DEF vars, tableVars, TypeInv
  <2>2. OthersTyped'
    BY <1>2 DEF vars, tableVars, TypeInv, OthersTyped, ListsOwn, Own
  <2> QED
    BY <2>1, <2>2 DEF TypeInv
<1> QED
  BY <1>1, <1>2

\* Every reachable state is well typed; a busy row is a row, and a node's
\* table holds its own devices only.
THEOREM RegistryTyped == Spec => []RegistryTypeOK
<1>1. Spec => []TypeInv
  BY InitTyped, NextTyped, PTL DEF Spec
<1> QED
  BY <1>1, TypeInvImplies, PTL

----------------------------------------------------------------------------
(* When a second session begins.  The process a device is attached to       *)
(* refuses it as long as the device in use keeps its busy row there.  The    *)
(* history variables of RegistryHistory name what takes the row away; the    *)
(* invariant says of every other device in use that its row is there and     *)
(* busy.  Nothing is assumed of Env.                                        *)

\* A device in use is attached; if nothing has happened to its row, the row is
\* busy, and the session is the only one.
UseIsSound ==
  \A d \in Devices : sessions[d] # 0 =>
    /\ d \in plugged
    /\ d \notin released \cup lost => sessions[d] = 1 /\ d \in busy[HostOf[d]]

\* What a step must do for that, before the history variables are known.
StepIsSound ==
  \A d \in Devices : sessions'[d] # 0 =>
    /\ d \in plugged'
    /\ d \notin released \cup lost /\ ~FreedInUse(d) /\ ~TakenInUse(d) =>
         sessions'[d] = 1 /\ d \in busy'[HostOf[d]]

\* A removal for the last plug of a device is handled only while it is away.
RemovalsAreDue ==
  \A x \in handlers :
    /\ x.nr <= plugs[x.dev]
    /\ x.kind = "remove" /\ x.nr = plugs[x.dev] => x.dev \notin plugged

\* The hub takes no row of its own for one of a node that died.
StaleIsForeign == stale.rows \cap Own(Hub) = {}

UseInv == TypeInv /\ UseIsSound /\ RemovalsAreDue /\ StaleIsForeign

StepUse == StepIsSound /\ RemovalsAreDue' /\ StaleIsForeign'

\* Initially nobody uses a device.
LEMMA InitUse == HistoryInit => UseInv
<1> SUFFICES ASSUME HistoryInit PROVE UseInv
  OBVIOUS
<1>1. TypeInv
  BY InitTyped DEF HistoryInit
<1>2. UseIsSound /\ RemovalsAreDue /\ StaleIsForeign
  BY DEF HistoryInit, Init, UseIsSound, RemovalsAreDue, StaleIsForeign, NoStale
<1> QED
  BY <1>1, <1>2 DEF UseInv

\* The facts of the invariant that the steps need.
LEMMA UseFacts ==
  ASSUME UseInv
  PROVE  /\ \A e \in Devices : HostOf[e] \in Hosts
         /\ sessions \in [Devices -> Nat] /\ plugs \in [Devices -> Nat]
         /\ busy \in [Hosts -> SUBSET Devices] /\ table \in [Hosts -> SUBSET Devices]
         /\ handlers \subseteq Handler
         /\ \A x \in handlers : x.dev \in Devices /\ x.nr \in Nat
  BY DEF UseInv, TypeInv, OthersTyped, TablesTyped, Handler

\* A step that disturbs neither the rows nor the sessions.
LEMMA NothingHappens ==
  ASSUME UseInv, UNCHANGED <<sessions, busy>>, plugged \subseteq plugged'
  PROVE  StepIsSound
  BY DEF UseInv, UseIsSound, StepIsSound

\* A list that is stored makes no busy row free.
LEMMA InsertUse ==
  ASSUME UseInv, NEW h, NEW devs, Insert(h, devs), UNCHANGED <<sessions, plugged>>
  PROVE  StepIsSound
  BY NothingHappens DEF Insert

\* Devices come and go, sessions begin and end.
LEMMA DeviceUse ==
  ASSUME UseInv, NEW d \in Devices, Plug(d) \/ Unplug(d) \/ Begin(d) \/ End(d)
  PROVE  StepUse
<1>1. CASE Plug(d)
  <2>1. StepIsSound
    BY <1>1, NothingHappens DEF Plug, tableVars
  <2>2. RemovalsAreDue'
    BY <1>1, UseFacts DEF Plug, UseInv, RemovalsAreDue, Event
  <2> QED
    BY <1>1, <2>1, <2>2 DEF Plug, UseInv, StaleIsForeign, StepUse, Own
<1>2. CASE Unplug(d)
  <2>1. RemovalsAreDue'
    BY <1>2, UseFacts DEF Unplug, UseInv, RemovalsAreDue, Event
  <2>2. StepIsSound
    BY <1>2, UseFacts DEF Unplug, UseInv, UseIsSound, StepIsSound, tableVars
  <2> QED
    BY <1>2, <2>1, <2>2 DEF Unplug, UseInv, StaleIsForeign, StepUse, Own
<1>3. CASE Begin(d)
  <2>1. d \notin released \cup lost => sessions[d] = 0
    BY <1>3 DEF Begin, Path, UseInv, UseIsSound
  <2>2. StepIsSound
    BY <1>3, <2>1, UseFacts DEF Begin, Path, UseInv, UseIsSound, StepIsSound
  <2> QED
    BY <1>3, <2>2 DEF Begin, UseInv, RemovalsAreDue, StaleIsForeign, StepUse, Own
<1>4. CASE End(d)
  <2>1. d \notin released \cup lost => sessions[d] = 1
    BY <1>4, UseFacts DEF End, UseInv, UseIsSound
  <2>2. StepIsSound
    BY <1>4, <2>1, UseFacts DEF End, UseInv, UseIsSound, StepIsSound, tableVars
  <2> QED
    BY <1>4, <2>2 DEF End, UseInv, RemovalsAreDue, StaleIsForeign, StepUse, Own
<1> QED
  BY <1>1, <1>2, <1>3, <1>4

\* A removal takes the row of a device in use only if it misses, and that is
\* one of the events of TakenInUse.
LEMMA RemovalUse ==
  ASSUME UseInv, NEW x \in handlers, NEW h \in Hosts,
         \/ h = Hub /\ PostArrives(x)
         \/ h = HostOf[x.dev] /\ Store(x)
  PROVE  StepIsSound
<1>0. Apply(h, x) /\ UNCHANGED <<sessions, plugged>>
  BY DEF PostArrives, Store
<1>1. CASE x.kind = "add"
  BY <1>0, <1>1, InsertUse DEF Apply
<1>2. CASE x.kind # "add"
  <2>0. x.kind = "remove" /\ x.dev \in Devices /\ x.nr \in Nat
    BY <1>2, UseFacts, HandlerFields
  <2>1. Delete(h, RowsFor(x.dev))
    BY <1>0, <1>2 DEF Apply
  <2> SUFFICES ASSUME NEW d \in Devices, sessions'[d] # 0, d \notin released \cup lost,
                      ~TakenInUse(d)
               PROVE  sessions'[d] = 1 /\ d \in busy'[HostOf[d]]
    BY <1>0 DEF StepIsSound, UseInv, UseIsSound
  <2>2. sessions[d] = 1 /\ d \in busy[HostOf[d]] /\ d \in plugged
    BY <1>0 DEF UseInv, UseIsSound
  <2>3. CASE HostOf[d] = h /\ d \in RowsFor(x.dev)
    <3>1. x.dev = d => x.nr # plugs[d]
      BY <2>0, <2>2 DEF UseInv, RemovalsAreDue
    <3>2. Misses(x, d)
      BY <2>0, <2>3, <3>1 DEF Misses
    <3> QED
      BY <2>2, <2>3, <3>2 DEF TakenInUse
  <2>4. CASE ~(HostOf[d] = h /\ d \in RowsFor(x.dev))
    BY <1>0, <2>1, <2>2, <2>4, UseFacts DEF Delete
  <2> QED
    BY <2>3, <2>4
<1> QED
  BY <1>1, <1>2

\* A tracker event is handled.
LEMMA HandleUse ==
  ASSUME UseInv, NEW x \in handlers, Handle(x)
  PROVE  StepUse
<1>1. x.dev \in Devices /\ HostOf[x.dev] \in Hosts
  BY UseFacts
<1>2. RemovalsAreDue'
  BY DEF Handle, Booted, BootFails, PostArrives, PostFails, Store, Advance, Event,
         UseInv, RemovalsAreDue
<1>3. StaleIsForeign'
  BY DEF Handle, Booted, BootFails, PostArrives, PostFails, Store, UseInv, StaleIsForeign, Own
<1>4. CASE Booted(x) \/ BootFails(x) \/ PostFails(x)
  <2>1. StepIsSound
    BY <1>4, NothingHappens DEF Booted, BootFails, PostFails, tableVars
  <2> QED
    BY <1>2, <1>3, <2>1 DEF StepUse
<1>5. CASE PostArrives(x) \/ Store(x)
  <2>1. StepIsSound
    BY <1>1, <1>5, RemovalUse
  <2> QED
    BY <1>2, <1>3, <2>1 DEF StepUse
<1> QED
  BY <1>4, <1>5 DEF Handle

\* updateDeviceList takes a step.
LEMMA SweepUse ==
  ASSUME UseInv, NEW h \in Hosts, SweepOn(h)
  PROVE  StepUse
<1>1. ASSUME NEW devs \in SUBSET Devices, SweepLists(h, devs) PROVE StepUse
  <2>1. StepIsSound
    BY <1>1, NothingHappens DEF SweepLists, tableVars
  <2>2. RemovalsAreDue'
    BY <1>1, UseFacts DEF SweepLists, Event, UseInv, RemovalsAreDue, Own
  <2> QED
    BY <1>1, <2>1, <2>2 DEF SweepLists, UseInv, StaleIsForeign, StepUse, Own
<1>2. CASE SweepStores(h) \/ SweepArrives(h) \/ SweepFails(h)
  <2>1. StepIsSound
    BY <1>2, InsertUse, NothingHappens DEF SweepStores, SweepArrives, SweepFails, tableVars
  <2> QED
    BY <1>2, <2>1 DEF SweepStores, SweepArrives, SweepFails, UseInv, RemovalsAreDue,
                      StaleIsForeign, StepUse, Own
<1> QED
  BY <1>1, <1>2 DEF SweepOn

\* A node asks whether the hub is there; if not, it clears its own table.
LEMMA HubAskedUse ==
  ASSUME UseInv, NEW n \in Nodes, HubAnswers(n) \/ HubSilent(n)
  PROVE  StepUse
<1>1. CASE HubAnswers(n)
  BY <1>1, NothingHappens DEF HubAnswers, tableVars, UseInv, RemovalsAreDue, StaleIsForeign,
                              StepUse, Own
<1>2. CASE HubSilent(n)
  <2>1. \A d \in Devices : HostOf[d] = n /\ sessions[d] # 0 => TakenInUse(d)
    BY <1>2, UseFacts DEF TakenInUse
  <2>2. StepIsSound
    BY <1>2, <2>1, UseFacts DEF HubSilent, Delete, UseInv, UseIsSound, StepIsSound
  <2> QED
    BY <1>2, <2>2 DEF HubSilent, UseInv, RemovalsAreDue, StaleIsForeign, StepUse, Own
<1> QED
  BY <1>1, <1>2

\* removeStaleDevices touches the rows of nodes in the hub's table only.
LEMMA StaleUse == ASSUME UseInv, StaleCheck PROVE StepUse
<1>1. CASE StaleStart \/ \E n \in Nodes : StalePing(n)
  <2>1. StepIsSound
    BY <1>1, NothingHappens DEF StaleStart, StalePing, tableVars
  <2>2. StaleIsForeign'
    BY <1>1 DEF StaleStart, StalePing, Asked, ForeignRows, UseInv, StaleIsForeign, Own
  <2> QED
    BY <1>1, <2>1, <2>2 DEF StaleStart, StalePing, UseInv, RemovalsAreDue, StepUse
<1>2. CASE StaleFinish
  <2>1. StepIsSound
    BY <1>2, UseFacts DEF StaleFinish, Delete, UseInv, UseIsSound, StaleIsForeign, Own,
                          StepIsSound
  <2> QED
    BY <1>2, <2>1 DEF StaleFinish, NoStale, UseInv, RemovalsAreDue, StaleIsForeign, StepUse
<1> QED
  BY <1>1, <1>2 DEF StaleCheck

\* A process that goes down takes the sessions on its devices with it.
LEMMA ProcessUse ==
  ASSUME UseInv, NEW h \in Hosts, Crash(h) \/ Restart(h)
  PROVE  StepUse
<1>1. CASE Crash(h)
  <2>1. StepIsSound
    BY <1>1, UseFacts DEF Crash, Delete, UseInv, UseIsSound, StepIsSound
  <2> QED
    BY <1>1, <2>1 DEF Crash, NoStale, UseInv, RemovalsAreDue, StaleIsForeign, StepUse, Own
<1>2. CASE Restart(h)
  BY <1>2, NothingHappens DEF Restart, tableVars, UseInv, RemovalsAreDue, StaleIsForeign,
                              StepUse, Own
<1> QED
  BY <1>1, <1>2

\* A process frees a row; at the device's own process, while it is in use, that
\* is the event of FreedInUse.
LEMMA ReleaseUse ==
  ASSUME UseInv, NEW h \in Hosts, NEW d \in Devices, Release(h, d)
  PROVE  StepUse
<1>1. h = HostOf[d] /\ sessions[d] # 0 => FreedInUse(d)
  BY UseFacts DEF FreedInUse
<1>2. StepIsSound
  BY <1>1, UseFacts DEF Release, UseInv, UseIsSound, StepIsSound
<1> QED
  BY <1>2 DEF Release, UseInv, RemovalsAreDue, StaleIsForeign, StepUse, Own

\* Every step keeps the inductive invariant.
LEMMA NextUse == ASSUME UseInv, [HistoryNext]_historyVars PROVE UseInv'
<1>0. TypeInv'
  BY NextTyped DEF UseInv, HistoryNext, historyVars
<1>1. CASE HistoryNext
  <2>1. StepUse
    BY <1>1, DeviceUse, HandleUse, SweepUse, HubAskedUse, StaleUse, ProcessUse, ReleaseUse
       DEF HistoryNext, Next
  <2>2. sessions' \in [Devices -> Nat]
    BY <1>0 DEF TypeInv, OthersTyped
  <2>3. UseIsSound'
    BY <1>1, <2>1, <2>2 DEF StepUse, StepIsSound, UseIsSound, HistoryNext
  <2> QED
    BY <1>0, <2>1, <2>3 DEF StepUse, UseInv
<1>2. CASE UNCHANGED historyVars
  BY <1>0, <1>2 DEF historyVars, vars, tableVars, UseInv, UseIsSound, RemovalsAreDue,
                    StaleIsForeign, Own
<1> QED
  BY <1>1, <1>2

\* A second driver session begins on a device in use only if the device's own
\* process has released its row or lost it by a removal that was not meant for
\* it: for any hosts, addresses, devices, plugs, crashes and failures, and for
\* releases at any time.
THEOREM DevicesAreUsedOnce == HistorySpec => []SecondHasCause
<1>1. UseInv => SecondHasCause
  <2> SUFFICES ASSUME UseInv, NEW d \in Devices, sessions[d] > 1
               PROVE  d \in released \cup lost
    BY DEF SecondHasCause
  <2> QED
    BY UseFacts DEF UseInv, UseIsSound
<1>2. UseInv /\ [HistoryNext]_historyVars => UseInv'
  BY NextUse
<1> QED
  BY InitUse, <1>1, <1>2, PTL DEF HistorySpec
====
