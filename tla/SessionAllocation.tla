-------------------------- MODULE SessionAllocation --------------------------
(***************************************************************************)
(* How the hub gives devices to session requests and takes them back:      *)
(* DevicePlugin.createSession, deleteSession and onUnexpectedShutdown      *)
(* (src/src/plugin.ts), allocateDeviceForSession and the cron jobs         *)
(* (src/src/device-utils.ts), the device table (src/src/data-service) and  *)
(* the WebDriver middleware (src/src/proxy/wd-command-proxy.ts).           *)
(*                                                                         *)
(* The code is one Node.js process: a handler runs until it awaits.  Every *)
(* await of createSession that can let another handler in ends an action   *)
(* here, and so do the awaits of allocateDeviceForSession that separate    *)
(* looking a device up from blocking it.                                   *)
(***************************************************************************)
EXTENDS Naturals, Sequences, FiniteSets

CONSTANTS
  Requests,     \* POST /session calls; a session is named by its request
  Devices,      \* rows of the device table, by udid and host
  Locks,        \* names getLockName can give
  NoRequest,    \* session_id undefined, lock free
  NoDevice,     \* no device chosen yet
  LockOf,       \* the lock name of each request's capabilities
  Match,        \* the devices the static filters of each request accept
  ByUdid,       \* requests whose capabilities name a udid
  Remote,       \* devices registered by a node; the others are the hub's own
  MaxSessions,  \* maxSessions; undefined is any number above |Devices|
  MaxDeletes,   \* bound: DELETEs a client sends for one session
  Env           \* what the environment may do, see EnvEvents

(***************************************************************************)
(* "throw":   a step after blockDevice may reject (getPort, an event       *)
(*            listener, requestConnection)                                 *)
(* "overlap": a release may start while another release of the same device *)
(*            is still writing its utilisation time                        *)
(* "crash":   a driver session may die by itself                           *)
(* "report":  the node of a dead session posts /unblock to the hub         *)
(* "block":   the dashboard's user blocks a device, or unblocks one that   *)
(*            is blocked and not in use                                    *)
(* "unblock": the dashboard's user unblocks any device                     *)
(* "idle":    a client stays silent for longer than the command timeout     *)
(* "quit":    a client closes its connection and sends nothing more        *)
(* "stale":   a pending row outlives its timeout                           *)
(* "disk":    the write of a utilisation time may fail                     *)
(***************************************************************************)
EnvEvents ==
  {"throw", "overlap", "crash", "report", "block", "unblock", "idle", "quit", "stale",
   "disk"}

ASSUME AllocationAssumption ==
  /\ NoRequest \notin Requests
  /\ NoDevice \notin Devices
  /\ LockOf \in [Requests -> Locks]
  /\ Match \in [Requests -> SUBSET Devices]
  /\ ByUdid \subseteq Requests
  /\ \A r \in ByUdid : \A d, e \in Match[r] : d = e
  /\ Remote \subseteq Devices
  /\ MaxSessions \in Nat
  /\ MaxDeletes \in Nat
  /\ Env \subseteq EnvEvents

VARIABLES
  busy,         \* device.busy
  userBlocked,  \* device.userBlocked
  session,      \* device.session_id
  lastCmd,      \* device.lastCmdExecutedAt: undefined, within or past the timeout
  pc,           \* where createSession is, for each request
  dev,          \* the device allocateDeviceForSession chose
  holder,       \* commandsQueueGuard: who runs under each lock name
  waiters,      \* commandsQueueGuard: who waits for each lock name, in order
  pending,      \* the pending-sessions collection
  online,       \* clients still there: keys of sessionRequestMap
  deletes,      \* DELETE /session calls sent so far
  driver,       \* live Appium driver sessions
  jobs          \* releases that have been started and not finished

rowVars  == <<busy, userBlocked, session, lastCmd>>
lockVars == <<holder, waiters>>
vars     == <<busy, userBlocked, session, lastCmd, pc, dev, holder, waiters,
              pending, online, deletes, driver, jobs>>

----------------------------------------------------------------------------
(* States of a request. *)

InAllocation == {"polling", "selecting", "blocking", "preparing"}
Owning       == {"preparing", "starting", "recording", "undoing", "leaked"}
Recorded     == {"announcing", "open", "lost"}
Answered     == {"open", "lost", "leaked", "refused"}
PC           == {"idle", "queued"} \cup InAllocation \cup Owning \cup Recorded
                  \cup {"refused"}

JobKinds == {"failed", "delete", "idle", "shutdown", "report"}
Job      == [kind : JobKinds, dev : Devices, req : Requests, nr : 0 .. MaxDeletes]

TypeOK ==
  /\ busy \in [Devices -> BOOLEAN]
  /\ userBlocked \in [Devices -> BOOLEAN]
  /\ session \in [Devices -> Requests \cup {NoRequest}]
  /\ lastCmd \in [Devices -> {"none", "recent", "idle"}]
  /\ pc \in [Requests -> PC]
  /\ dev \in [Requests -> Devices \cup {NoDevice}]
  /\ holder \in [Locks -> Requests \cup {NoRequest}]
  /\ waiters \in [Locks -> Seq(Requests)]
  /\ pending \subseteq Requests
  /\ online \subseteq Requests
  /\ deletes \in [Requests -> 0 .. MaxDeletes]
  /\ driver \subseteq Requests
  /\ jobs \subseteq Job

Init ==
  /\ busy = [d \in Devices |-> FALSE]
  /\ userBlocked = [d \in Devices |-> FALSE]
  /\ session = [d \in Devices |-> NoRequest]
  /\ lastCmd = [d \in Devices |-> "none"]
  /\ pc = [r \in Requests |-> "idle"]
  /\ dev = [r \in Requests |-> NoDevice]
  /\ holder = [l \in Locks |-> NoRequest]
  /\ waiters = [l \in Locks |-> <<>>]
  /\ pending = {}
  /\ online = {}
  /\ deletes = [r \in Requests |-> 0]
  /\ driver = {}
  /\ jobs = {}

Go(r, state) == pc' = [pc EXCEPT ![r] = state]

----------------------------------------------------------------------------
(* createSession up to the allocation. *)

\* The middleware gives the request its id and remembers the connection;
\* createSession stores the pending row and asks for the lock.
Arrive(r) ==
  /\ pc[r] = "idle"
  /\ online' = online \cup {r}
  /\ pending' = pending \cup {r}
  /\ waiters' = [waiters EXCEPT ![LockOf[r]] = Append(@, r)]
  /\ Go(r, "queued")
  /\ UNCHANGED <<rowVars, dev, holder, deletes, driver, jobs>>

First(r) == waiters[LockOf[r]] # <<>> /\ Head(waiters[LockOf[r]]) = r

FirstEvenLocked(r) == First(r)

MayEnter(r) == First(r) /\ holder[LockOf[r]] = NoRequest

\* The lock library starts the oldest waiter when the lock is free.
EnterAllocation(r) ==
  /\ pc[r] = "queued"
  /\ MayEnter(r)
  /\ holder' = [holder EXCEPT ![LockOf[r]] = r]
  /\ waiters' = [waiters EXCEPT ![LockOf[r]] = Tail(@)]
  /\ Go(r, "polling")
  /\ UNCHANGED <<rowVars, dev, pending, online, deletes, driver, jobs>>

ReleaseLockOnlyOnSuccess(r) ==
  holder' = [holder EXCEPT ![LockOf[r]] = IF pc[r] = "preparing" THEN NoRequest ELSE @]

\* The promise given to acquire settles, either way.
ReleaseLock(r) ==
  holder' = [holder EXCEPT ![LockOf[r]] = NoRequest]

KeepPending(r) == pending' = pending

DropPending(r) == pending' = pending \ {r}

\* allocateDeviceForSession rejects: the pending row goes, the error goes to
\* the client, the lock is released.
Refuse(r) ==
  /\ DropPending(r)
  /\ ReleaseLock(r)
  /\ Go(r, "refused")
  /\ UNCHANGED <<rowVars, dev, waiters, online, deletes, driver, jobs>>

----------------------------------------------------------------------------
(* allocateDeviceForSession. *)

CandidatesEvenBusy(r) == {d \in Match[r] : ~userBlocked[d]}

\* getDevice(filters): busy and userBlocked must be false, unless the device
\* named by udid is blocked by the user: then neither is asked for.
Candidates(r) ==
  {d \in Match[r] : \/ ~busy[d] /\ ~userBlocked[d]
                    \/ r \in ByUdid /\ userBlocked[d]}

BusyDevices == {d \in Devices : busy[d]}

OverLimitOnly == Cardinality(BusyDevices) = MaxSessions + 1

AtLimit == Cardinality(BusyDevices) = MaxSessions

\* The predicate of waitUntil holds.
PollReady(r) ==
  /\ pc[r] = "polling"
  /\ r \in online
  /\ ~AtLimit
  /\ Candidates(r) # {}
  /\ Go(r, "selecting")
  /\ UNCHANGED <<rowVars, lockVars, dev, pending, online, deletes, driver, jobs>>

\* The predicate throws because the client is gone, or the wait times out.
PollGivesUp(r) ==
  /\ pc[r] = "polling"
  /\ Refuse(r)

\* getDevice asked again after the wait.
Select(r) ==
  /\ pc[r] = "selecting"
  /\ \E d \in Candidates(r) : dev' = [dev EXCEPT ![r] = d]
  /\ Go(r, "blocking")
  /\ UNCHANGED <<rowVars, lockVars, pending, online, deletes, driver, jobs>>

SelectFindsNone(r) ==
  /\ pc[r] = "selecting"
  /\ Candidates(r) = {}
  /\ Refuse(r)

BlockDevice(r) ==
  /\ pc[r] = "blocking"
  /\ busy' = [busy EXCEPT ![dev[r]] = TRUE]
  /\ lastCmd' = [lastCmd EXCEPT ![dev[r]] = "none"]
  /\ Go(r, "preparing")
  /\ UNCHANGED <<userBlocked, session, lockVars, dev, pending, online, deletes,
                 driver, jobs>>

\* updateCapabilityForDevice has its ports; the device is returned.
Prepared(r) ==
  /\ pc[r] = "preparing"
  /\ ReleaseLock(r)
  /\ Go(r, "starting")
  /\ UNCHANGED <<rowVars, waiters, dev, pending, online, deletes, driver, jobs>>

\* updateCapabilityForDevice rejects: the device is not unblocked.
PrepareThrows(r) ==
  /\ "throw" \in Env
  /\ pc[r] = "preparing"
  /\ DropPending(r)
  /\ ReleaseLock(r)
  /\ Go(r, "leaked")
  /\ UNCHANGED <<rowVars, waiters, dev, online, deletes, driver, jobs>>

----------------------------------------------------------------------------
(* createSession after the allocation. *)

\* next() or the forwarded request answers with a session.
SessionStarts(r) ==
  /\ pc[r] = "starting"
  /\ driver' = driver \cup {r}
  /\ Go(r, "recording")
  /\ UNCHANGED <<rowVars, lockVars, dev, pending, online, deletes, jobs>>

\* It answers with an error, or the forwarded request times out and the node
\* may still create its session.  unblockDevice is called.
SessionFails(r) ==
  /\ pc[r] = "starting"
  /\ \/ driver' = driver
     \/ dev[r] \in Remote /\ driver' = driver \cup {r}
  /\ DropPending(r)
  /\ jobs' = jobs \cup {[kind |-> "failed", dev |-> dev[r], req |-> r, nr |-> 0]}
  /\ Go(r, "undoing")
  /\ UNCHANGED <<rowVars, lockVars, dev, online, deletes>>

\* A listener of BeforeSessionCreatedEvent or requestConnection rejects.
StartThrows(r) ==
  /\ "throw" \in Env
  /\ pc[r] = "starting"
  /\ dev[r] \notin Remote
  /\ Go(r, "leaked")
  /\ UNCHANGED <<rowVars, lockVars, dev, pending, online, deletes, driver, jobs>>

AllRows(d) == Devices

\* updatedAllocatedDevice looks the row up by udid and host.
UpdatedRows(d) == {d}

\* The pending row goes and updatedAllocatedDevice writes the session.
RecordSession(r) ==
  /\ pc[r] = "recording"
  /\ DropPending(r)
  /\ LET rows == UpdatedRows(dev[r]) IN
     /\ busy' = [d \in Devices |-> d \in rows \/ busy[d]]
     /\ session' = [d \in Devices |-> IF d \in rows THEN r ELSE session[d]]
     /\ lastCmd' = [d \in Devices |-> IF d \in rows THEN "recent" ELSE lastCmd[d]]
  /\ Go(r, "announcing")
  /\ UNCHANGED <<userBlocked, lockVars, dev, online, deletes, driver, jobs>>

\* SessionCreatedEvent is handled and the client gets its session, or a
\* listener rejects and the client gets an error for a session that lives.
AnswerClient(r) ==
  /\ pc[r] = "announcing"
  /\ \/ Go(r, "open")
     \/ "throw" \in Env /\ Go(r, "lost")
  /\ UNCHANGED <<rowVars, lockVars, dev, pending, online, deletes, driver, jobs>>

----------------------------------------------------------------------------
(* Releasing devices: unblockDeviceMatchingFilter finds the rows, waits for *)
(* setUtilizationTime, a file write, then clears the rows by udid and host. *)

MayRelease(d) == "overlap" \in Env \/ \A j \in jobs : j.dev # d

RowsEverOf(r) == {d \in Devices : dev[r] = d}

\* The filter {session_id: r}.
RowsOf(r) == {d \in Devices : session[d] = r}

ClearSessionToFalse(d) == session' = [session EXCEPT ![d] = FALSE]

ClearSession(d) == session' = [session EXCEPT ![d] = NoRequest]

\* The write is done.  The row is cleared whatever it holds by now.
FinishRelease(j) ==
  /\ j \in jobs
  /\ j.kind # "report"
  /\ jobs' = jobs \ {j}
  /\ busy' = [busy EXCEPT ![j.dev] = FALSE]
  /\ userBlocked' = [userBlocked EXCEPT ![j.dev] = FALSE]
  /\ lastCmd' = [lastCmd EXCEPT ![j.dev] = "none"]
  /\ ClearSession(j.dev)
  /\ pc' = IF j.kind = "failed" THEN [pc EXCEPT ![j.req] = "refused"] ELSE pc
  /\ UNCHANGED <<lockVars, dev, pending, online, deletes, driver>>

\* The write fails: the error is logged and the row stays as it is.
ReleaseFails(j) ==
  /\ "disk" \in Env
  /\ j \in jobs
  /\ j.kind # "report"
  /\ jobs' = jobs \ {j}
  /\ pc' = IF j.kind = "failed" THEN [pc EXCEPT ![j.req] = "leaked"] ELSE pc
  /\ UNCHANGED <<rowVars, lockVars, dev, pending, online, deletes, driver>>

Touch(r) ==
  lastCmd' = [d \in Devices |-> IF session[d] = r THEN "recent" ELSE lastCmd[d]]

\* A command of the client reaches the middleware: updateCmdExecutedTime.
Command(r) ==
  /\ pc[r] = "open" /\ r \in online
  /\ Touch(r)
  /\ UNCHANGED <<busy, userBlocked, session, lockVars, pc, dev, pending, online,
                 deletes, driver, jobs>>

\* DELETE /session: the middleware touches the row, then deleteSession (the
\* middleware itself for a forwarded session) starts the release.
Delete(r) ==
  /\ pc[r] = "open" /\ r \in online
  /\ deletes[r] < MaxDeletes
  /\ \A d \in RowsOf(r) : MayRelease(d)
  /\ deletes' = [deletes EXCEPT ![r] = @ + 1]
  /\ Touch(r)
  /\ jobs' = jobs \cup
       [kind : {"delete"}, dev : RowsOf(r), req : {r}, nr : {deletes[r]}]
  /\ UNCHANGED <<busy, userBlocked, session, lockVars, pc, dev, pending, online,
                 driver>>

\* next() of deleteSession, after the release; for a forwarded session the
\* proxied DELETE runs beside the release.
EndDriver(r) ==
  /\ r \in driver
  /\ \/ dev[r] \in Remote /\ deletes[r] > 0
     \/ Cardinality({j \in jobs : j.kind = "delete" /\ j.req = r}) < deletes[r]
  /\ driver' = driver \ {r}
  /\ UNCHANGED <<rowVars, lockVars, pc, dev, pending, online, deletes, jobs>>

AnyBusyRow(d) == busy[d] /\ ~userBlocked[d]

IdleWithoutDriver(d) == AnyBusyRow(d) /\ lastCmd[d] = "idle" /\ session[d] \notin driver

\* unblockCandidateDevices, and idle for longer than the timeout.  A row whose
\* lastCmdExecutedAt is undefined is never idle.
Releasable(d) == busy[d] /\ ~userBlocked[d] /\ lastCmd[d] = "idle"

\* releaseBlockedDevices of the cron job, for one device.
ReapIdle(d) ==
  LET j == [kind |-> "idle", dev |-> d, req |-> session[d], nr |-> 0] IN
  /\ Releasable(d)
  /\ MayRelease(d)
  /\ j \notin jobs
  /\ jobs' = jobs \cup {j}
  /\ UNCHANGED <<rowVars, lockVars, pc, dev, pending, online, deletes, driver>>

\* Time: the command timeout of the row passes.  It is seconds long, and no
\* write of a utilisation time is.
GrowIdle(d) ==
  /\ "idle" \in Env
  /\ \A j \in jobs : j.dev = d => j.kind = "report"
  /\ lastCmd[d] = "recent"
  /\ lastCmd' = [lastCmd EXCEPT ![d] = "idle"]
  /\ UNCHANGED <<busy, userBlocked, session, lockVars, pc, dev, pending, online,
                 deletes, driver, jobs>>

\* onUnexpectedShutdown, with the filter {session_id, udid}; a node that has
\* a hub posts the filter to the hub instead, and the post may not arrive.
DriverDies(r) ==
  LET report == [kind |-> "report", dev |-> dev[r], req |-> r, nr |-> 0]
      down   == [kind |-> "shutdown", dev |-> dev[r], req |-> r, nr |-> 0]
  IN
  /\ "crash" \in Env
  /\ r \in driver
  /\ MayRelease(dev[r])
  /\ driver' = driver \ {r}
  /\ jobs' = CASE dev[r] \in Remote /\ "report" \in Env -> jobs \cup {report}
               [] dev[r] \notin Remote /\ session[dev[r]] = r -> jobs \cup {down}
               [] OTHER -> jobs
  /\ UNCHANGED <<rowVars, lockVars, pc, dev, pending, online, deletes>>

\* The hub's /unblock: userUnblockDevice on the row getDevice finds, if any.
ReportArrives(j) ==
  /\ j \in jobs
  /\ j.kind = "report"
  /\ jobs' = jobs \ {j}
  /\ IF session[j.dev] = j.req
       THEN /\ userBlocked' = [userBlocked EXCEPT ![j.dev] = FALSE]
            /\ busy' = [busy EXCEPT ![j.dev] = FALSE]
       ELSE UNCHANGED <<busy, userBlocked>>
  /\ UNCHANGED <<session, lastCmd, lockVars, pc, dev, pending, online, deletes,
                 driver>>

----------------------------------------------------------------------------
(* The client's end, the dashboard and the pending-sessions cron job. *)

\* The socket of the client closes: sessionRequestMap forgets the request.
Disconnect(r) ==
  /\ "quit" \in Env
  /\ r \in online
  /\ online' = online \ {r}
  /\ UNCHANGED <<rowVars, lockVars, pc, dev, pending, deletes, driver, jobs>>

UserBlock(d) ==
  /\ "block" \in Env
  /\ ~userBlocked[d]
  /\ userBlocked' = [userBlocked EXCEPT ![d] = TRUE]
  /\ UNCHANGED <<busy, session, lastCmd, lockVars, pc, dev, pending, online,
                 deletes, driver, jobs>>

\* userUnblockDevice keeps session_id and lastCmdExecutedAt.
UserUnblock(d) ==
  /\ \/ "block" \in Env /\ userBlocked[d] /\ ~busy[d]
     \/ "unblock" \in Env /\ (busy[d] \/ userBlocked[d])
  /\ userBlocked' = [userBlocked EXCEPT ![d] = FALSE]
  /\ busy' = [busy EXCEPT ![d] = FALSE]
  /\ UNCHANGED <<session, lastCmd, lockVars, pc, dev, pending, online, deletes,
                 driver, jobs>>

QueuedPending(r) == r \in pending /\ pc[r] \in {"queued", "polling"}

HasPending(r) == r \in pending

\* cleanPendingSessions: a pending row that is too old, whatever its request
\* is doing.
CleanPending(r) ==
  /\ "stale" \in Env
  /\ HasPending(r)
  /\ DropPending(r)
  /\ UNCHANGED <<rowVars, lockVars, pc, dev, online, deletes, driver, jobs>>

----------------------------------------------------------------------------

\* Every request is answered and every release is done.
Quiet ==
  /\ \A r \in Requests : pc[r] \in Answered
  /\ jobs = {}
  /\ UNCHANGED vars

Serve(r) ==
  \/ EnterAllocation(r) \/ PollReady(r) \/ PollGivesUp(r)
  \/ Select(r) \/ SelectFindsNone(r) \/ BlockDevice(r)
  \/ Prepared(r) \/ PrepareThrows(r)
  \/ SessionStarts(r) \/ SessionFails(r) \/ StartThrows(r)
  \/ RecordSession(r) \/ AnswerClient(r)

Next ==
  \/ \E r \in Requests :
       \/ Arrive(r) \/ Serve(r) \/ Command(r) \/ Delete(r) \/ EndDriver(r)
       \/ DriverDies(r) \/ Disconnect(r) \/ CleanPending(r)
  \/ \E d \in Devices : ReapIdle(d) \/ GrowIdle(d) \/ UserBlock(d) \/ UserUnblock(d)
  \/ \E j \in jobs : FinishRelease(j) \/ ReleaseFails(j) \/ ReportArrives(j)
  \/ Quiet

Spec == Init /\ [][Next]_vars

(***************************************************************************)
(* What Node's event loop guarantees: promises settle, timers fire (the    *)
(* wait's timeout, the cron jobs), time passes.  The disk does not fail    *)
(* for ever.  Nothing is assumed of the clients, the dashboard or the      *)
(* drivers.                                                                *)
(***************************************************************************)
ServerFairness ==
  /\ \A r \in Requests : WF_vars(Serve(r)) /\ WF_vars(CleanPending(r))
  /\ \A d \in Devices : WF_vars(ReapIdle(d)) /\ WF_vars(GrowIdle(d))
  /\ \A d \in Devices : SF_vars(\E j \in jobs : j.dev = d /\ FinishRelease(j))
  /\ WF_vars(\E j \in jobs : ReportArrives(j))

FairSpec == Spec /\ ServerFairness

\* In addition every client process ends at some time.
ClientFairness == \A r \in Requests : WF_vars(Disconnect(r))

FairClientsSpec == FairSpec /\ ClientFairness

----------------------------------------------------------------------------
(* Properties. *)

\* The request has the device: it is between blockDevice and its answer, or
\* has failed there without unblocking, or the row names its session.
Holds(r, d) ==
  dev[r] = d /\ (pc[r] \in Owning \/ (busy[d] /\ session[d] = r))

\* "This will prevent subsequent request from getting the same device": while
\* a session is created on a device, nothing another session does unblocks it.
CreationKeepsDevice ==
  \A r \in Requests : pc[r] \in {"preparing", "starting", "recording"} => busy[dev[r]]

\* "Limit how many sessions can be active at a time": in the rows of the hub,
\* whose number of busy devices is read before a device is blocked.
BusyWithinLimit == Cardinality(BusyDevices) <= MaxSessions

\* Only one request at a time allocates under a lock name.
OneAllocatorPerLock ==
  \A r \in Requests : pc[r] \in InAllocation => holder[LockOf[r]] = r

\* A row names a session only of a request whose session was created on that
\* very device, whatever releases, late commands and unblocks come between.
SessionRowSound ==
  \A d \in Devices : session[d] # NoRequest =>
    dev[session[d]] = d /\ pc[session[d]] \in Recorded

\* The dashboard's queue shows no request that has its final answer, other
\* than one that failed between the allocation and the session.
PendingIsUnanswered ==
  \A r \in pending : pc[r] \notin {"idle", "undoing", "refused"} \cup Recorded

\* Every request gets the lock and an answer, whatever the others do.
EveryRequestAnswered ==
  \A r \in Requests : pc[r] = "queued" ~> pc[r] \in Answered

\* A pending row does not stay, even when createSession failed half way.
PendingCleared == \A r \in Requests : r \in pending ~> r \notin pending

\* A device in use becomes free again once its client has ended, by DELETE,
\* shutdown or the cron job, unless the dashboard's user has blocked it
\* meanwhile or createSession failed before it wrote the session.
EveryLeaseEnds ==
  \A d \in Devices :
    busy[d] ~> \/ ~busy[d]
               \/ userBlocked[d]
               \/ \E r \in Requests : dev[r] = d /\ pc[r] = "leaked"
====
