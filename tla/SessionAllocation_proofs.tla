------------------------ MODULE SessionAllocation_proofs ------------------------
(***************************************************************************)
(* Theorems about SessionAllocation, for every set of requests, devices    *)
(* and locks and for every environment.                                    *)
(***************************************************************************)
EXTENDS SessionAllocation, TLAPS

----------------------------------------------------------------------------
(* Type correctness needs two facts of the control: a request that is past *)
(* Select has a device, and a touched row names a session.                 *)

Chosen == {"blocking", "preparing", "starting", "recording", "undoing"} \cup Recorded

DeviceChosen ==
  /\ \A r \in Requests : pc[r] \in Chosen => dev[r] \in Devices
  /\ \A r \in driver : dev[r] \in Devices

TouchedHasSession ==
  \A d \in Devices : lastCmd[d] # "none" => session[d] # NoRequest

TypeInv == TypeOK /\ DeviceChosen /\ TouchedHasSession

USE AllocationAssumption

\* Initially the type invariant holds: an empty farm with every device free.
LEMMA InitTypeInv == Init => TypeInv
  BY DEF Init, TypeInv, TypeOK, DeviceChosen, TouchedHasSession, PC, Chosen,
         InAllocation, Owning, Recorded, Job

\* Each step of createSession keeps the type invariant.
LEMMA ServeTypeInv ==
  ASSUME TypeInv, NEW r \in Requests, Arrive(r) \/ Serve(r)
  PROVE  TypeInv'
<1> USE DEF TypeInv, TypeOK, DeviceChosen, TouchedHasSession, PC, Chosen,
            InAllocation, Owning, Recorded, Go, rowVars, lockVars
<1>1. CASE Arrive(r)
  BY <1>1 DEF Arrive
<1>2. CASE EnterAllocation(r)
  BY <1>2 DEF EnterAllocation, MayEnter, First
<1>3. CASE PollReady(r)
  BY <1>3 DEF PollReady
<1>4. ASSUME Refuse(r) PROVE TypeInv'
  BY <1>4 DEF Refuse, DropPending, ReleaseLock
<1>5. CASE PollGivesUp(r) \/ SelectFindsNone(r)
  BY <1>5, <1>4 DEF PollGivesUp, SelectFindsNone
<1>6. CASE Select(r)
  BY <1>6 DEF Select, Candidates
<1>7. CASE BlockDevice(r)
  BY <1>7 DEF BlockDevice
<1>8. CASE Prepared(r)
  BY <1>8 DEF Prepared, ReleaseLock
<1>9. CASE PrepareThrows(r)
  BY <1>9 DEF PrepareThrows, DropPending, ReleaseLock
<1>10. CASE SessionStarts(r)
  BY <1>10 DEF SessionStarts
<1>11. CASE SessionFails(r)
  BY <1>11 DEF SessionFails, DropPending, Job, JobKinds
<1>12. CASE StartThrows(r)
  BY <1>12 DEF StartThrows
<1>13. CASE RecordSession(r)
  BY <1>13 DEF RecordSession, DropPending, UpdatedRows
<1>14. CASE AnswerClient(r)
  <2>1. PICK answer \in {"open", "lost"} : pc' = [pc EXCEPT ![r] = answer]
    BY <1>14 DEF AnswerClient
  <2> QED
    BY <1>14, <2>1 DEF AnswerClient
<1> QED
  BY <1>1, <1>2, <1>3, <1>5, <1>6, <1>7, <1>8, <1>9, <1>10, <1>11, <1>12,
     <1>13, <1>14 DEF Serve

\* Each step of a client, of a driver and of the pending-sessions cron job
\* keeps it.
LEMMA ClientTypeInv ==
  ASSUME TypeInv, NEW r \in Requests,
         Command(r) \/ Delete(r) \/ EndDriver(r) \/ DriverDies(r)
           \/ Disconnect(r) \/ CleanPending(r)
  PROVE  TypeInv'
<1> USE DEF TypeInv, TypeOK, DeviceChosen, TouchedHasSession, rowVars, lockVars
<1>1. CASE Command(r)
  BY <1>1 DEF Command, Touch
<1>2. CASE Delete(r)
  <2>1. deletes[r] \in 0 .. MaxDeletes /\ deletes[r] + 1 \in 0 .. MaxDeletes
    BY <1>2 DEF Delete
  <2>2. RowsOf(r) \subseteq Devices
    BY DEF RowsOf
  <2>3. jobs' \subseteq Job
    BY <1>2, <2>1, <2>2 DEF Delete, Job, JobKinds
  <2> QED
    BY <1>2, <2>1, <2>3 DEF Delete, Touch
<1>3. CASE EndDriver(r)
  BY <1>3 DEF EndDriver
<1>4. CASE DriverDies(r)
  <2>1. dev[r] \in Devices
    BY <1>4 DEF DriverDies
  <2>2. jobs' \subseteq Job
    BY <1>4, <2>1 DEF DriverDies, Job, JobKinds
  <2> QED
    BY <1>4, <2>2 DEF DriverDies
<1>5. CASE Disconnect(r)
  BY <1>5 DEF Disconnect
<1>6. CASE CleanPending(r)
  BY <1>6 DEF CleanPending, HasPending, DropPending
<1> QED
  BY <1>1, <1>2, <1>3, <1>4, <1>5, <1>6

\* So does each step on a device: the idle-session cron job, time, the
\* dashboard.
LEMMA DeviceTypeInv ==
  ASSUME TypeInv, NEW d \in Devices,
         ReapIdle(d) \/ GrowIdle(d) \/ UserBlock(d) \/ UserUnblock(d)
  PROVE  TypeInv'
<1> USE DEF TypeInv, TypeOK, DeviceChosen, TouchedHasSession, rowVars, lockVars
<1>1. CASE ReapIdle(d)
  <2>1. session[d] \in Requests
    BY <1>1 DEF ReapIdle, Releasable
  <2>2. jobs' \subseteq Job
    BY <1>1, <2>1 DEF ReapIdle, Job, JobKinds
  <2> QED
    BY <1>1, <2>2 DEF ReapIdle
<1>2. CASE GrowIdle(d)
  BY <1>2 DEF GrowIdle
<1>3. CASE UserBlock(d)
  BY <1>3 DEF UserBlock
<1>4. CASE UserUnblock(d)
  BY <1>4 DEF UserUnblock
<1> QED
  BY <1>1, <1>2, <1>3, <1>4

\* And so does the end of a release.
LEMMA JobTypeInv ==
  ASSUME TypeInv, NEW j \in jobs,
         FinishRelease(j) \/ ReleaseFails(j) \/ ReportArrives(j)
  PROVE  TypeInv'
<1> USE DEF TypeInv, TypeOK, DeviceChosen, TouchedHasSession, rowVars, lockVars
<1>1. j.dev \in Devices /\ j.req \in Requests
  BY DEF Job
<1>2. CASE FinishRelease(j)
  <2>1. pc' \in [Requests -> PC]
    BY <1>1, <1>2 DEF FinishRelease, PC
  <2>2. \A r \in Requests : pc'[r] \in Chosen => pc[r] \in Chosen
    BY <1>1, <1>2 DEF FinishRelease, Chosen, Recorded
  <2> QED
    BY <1>1, <1>2, <2>1, <2>2 DEF FinishRelease, ClearSession
<1>3. CASE ReportArrives(j)
  BY <1>1, <1>3 DEF ReportArrives
<1>4. CASE ReleaseFails(j)
  <2>1. pc' \in [Requests -> PC]
    BY <1>1, <1>4 DEF ReleaseFails, PC, Owning
  <2>2. \A r \in Requests : pc'[r] \in Chosen => pc[r] \in Chosen
    BY <1>1, <1>4 DEF ReleaseFails, Chosen, Recorded
  <2> QED
    BY <1>4, <2>1, <2>2 DEF ReleaseFails
<1> QED
  BY <1>2, <1>3, <1>4

\* Every step keeps the type invariant.
LEMMA NextTypeInv == TypeInv /\ [Next]_vars => TypeInv'
<1> SUFFICES ASSUME TypeInv, [Next]_vars PROVE TypeInv'
  OBVIOUS
<1>1. CASE UNCHANGED vars
  BY <1>1 DEF vars, TypeInv, TypeOK, DeviceChosen, TouchedHasSession
<1>2. CASE Next
  BY <1>1, <1>2, ServeTypeInv, ClientTypeInv, DeviceTypeInv, JobTypeInv
     DEF Next, Quiet
<1> QED
  BY <1>1, <1>2

\* Every variable keeps its type, whatever the environment does.
THEOREM TypeCorrect == Spec => []TypeOK
<1>1. Spec => []TypeInv
  BY InitTypeInv, NextTypeInv, PTL DEF Spec
<1>2. TypeInv => TypeOK
  BY DEF TypeInv
<1> QED
  BY <1>1, <1>2, PTL

\* TypeInv itself, for the theorems below.
LEMMA TypeInvHolds == Spec => []TypeInv
  BY InitTypeInv, NextTypeInv, PTL DEF Spec

----------------------------------------------------------------------------
(* The lock. *)

\* A lock has one holder, and whoever allocates under it is that holder.
LEMMA NextOneAllocator ==
  TypeInv /\ OneAllocatorPerLock /\ [Next]_vars => OneAllocatorPerLock'
<1> SUFFICES ASSUME TypeInv, OneAllocatorPerLock, [Next]_vars
             PROVE  OneAllocatorPerLock'
  OBVIOUS
<1> USE DEF TypeInv, TypeOK, OneAllocatorPerLock, InAllocation, rowVars, lockVars
<1>1. CASE UNCHANGED vars
  BY <1>1 DEF vars
<1>2. ASSUME NEW r \in Requests, Arrive(r) \/ Serve(r)
      PROVE  OneAllocatorPerLock'
  <2> USE DEF Go
  <2>1. CASE Arrive(r)
    BY <2>1 DEF Arrive
  <2>2. CASE EnterAllocation(r)
    BY <2>2 DEF EnterAllocation, MayEnter
  <2>3. ASSUME Refuse(r), pc[r] \in InAllocation PROVE OneAllocatorPerLock'
    BY <2>3 DEF Refuse, ReleaseLock
  <2>4. CASE PollGivesUp(r) \/ SelectFindsNone(r)
    BY <2>3, <2>4 DEF PollGivesUp, SelectFindsNone
  <2>5. CASE PollReady(r) \/ Select(r) \/ BlockDevice(r)
    BY <2>5 DEF PollReady, Select, BlockDevice
  <2>6. CASE Prepared(r) \/ PrepareThrows(r)
    BY <2>6 DEF Prepared, PrepareThrows, ReleaseLock
  <2>7. CASE SessionStarts(r) \/ SessionFails(r) \/ StartThrows(r)
    BY <2>7 DEF SessionStarts, SessionFails, StartThrows
  <2>8. CASE RecordSession(r)
    BY <2>8 DEF RecordSession
  <2>9. CASE AnswerClient(r)
    BY <2>9 DEF AnswerClient
  <2> QED
    BY <1>2, <2>1, <2>2, <2>4, <2>5, <2>6, <2>7, <2>8, <2>9 DEF Serve
<1>3. ASSUME NEW r \in Requests,
             Command(r) \/ Delete(r) \/ EndDriver(r) \/ DriverDies(r)
               \/ Disconnect(r) \/ CleanPending(r)
      PROVE  OneAllocatorPerLock'
  BY <1>3 DEF Command, Delete, EndDriver, DriverDies, Disconnect, CleanPending
<1>4. ASSUME NEW d \in Devices,
             ReapIdle(d) \/ GrowIdle(d) \/ UserBlock(d) \/ UserUnblock(d)
      PROVE  OneAllocatorPerLock'
  BY <1>4 DEF ReapIdle, GrowIdle, UserBlock, UserUnblock
<1>5. ASSUME NEW j \in jobs, FinishRelease(j) \/ ReleaseFails(j) \/ ReportArrives(j)
      PROVE  OneAllocatorPerLock'
  BY <1>5 DEF FinishRelease, ReleaseFails, ReportArrives
<1> QED
  BY <1>1, <1>2, <1>3, <1>4, <1>5 DEF Next, Quiet

\* Two requests never allocate at the same time under one lock name.
THEOREM LockIsExclusive == Spec => []OneAllocatorPerLock
<1>1. Init => OneAllocatorPerLock
  BY DEF Init, OneAllocatorPerLock, InAllocation
<1> QED
  BY <1>1, NextOneAllocator, TypeInvHolds, PTL DEF Spec

----------------------------------------------------------------------------
(* Rows and the sessions they name.  The releases of failed requests need a *)
(* fact of their own: there is one per request, and it is not yet answered. *)

FailedJobs ==
  \A j \in jobs : j.kind = "failed" =>
    pc[j.req] = "undoing" /\ j.dev = dev[j.req] /\ j.nr = 0

\* A request that has failed and keeps its device had one.
LeakedChosen == \A r \in Requests : pc[r] = "leaked" => dev[r] \in Devices

SoundInv == FailedJobs /\ LeakedChosen /\ SessionRowSound /\ PendingIsUnanswered

\* A request has at most one release of the kind "failed".
LEMMA OneFailedJob ==
  ASSUME TypeOK, FailedJobs,
         NEW j \in jobs, NEW k \in jobs,
         j.kind = "failed", k.kind = "failed", j.req = k.req
  PROVE  j = k
<1>1. j \in Job /\ k \in Job
  BY DEF TypeOK
<1>2. j.dev = k.dev /\ j.nr = k.nr
  BY DEF FailedJobs
<1> QED
  BY <1>1, <1>2 DEF Job

\* Rows, failed releases and pending rows stay consistent at every step.
LEMMA NextSound == TypeInv /\ SoundInv /\ [Next]_vars => SoundInv'
<1> SUFFICES ASSUME TypeInv, SoundInv, [Next]_vars
             PROVE  SoundInv'
  OBVIOUS
<1> USE DEF TypeInv, TypeOK, DeviceChosen, Chosen, SoundInv, FailedJobs,
            LeakedChosen, SessionRowSound,
            PendingIsUnanswered, Recorded, rowVars, lockVars
<1>1. CASE UNCHANGED vars
  BY <1>1 DEF vars
<1>2. ASSUME NEW r \in Requests, Arrive(r) \/ Serve(r)
      PROVE  SoundInv'
  <2> USE DEF Go, Job
  <2>0. ASSUME NEW state \in PC, Go(r, state),
               pc[r] \notin {"undoing"} \cup Recorded,
               jobs' = jobs, session' = session,
               dev' \in [Requests -> Devices \cup {NoDevice}],
               \A q \in Requests \ {r} : dev'[q] = dev[q],
               \A q \in Requests \ {r} : q \in pending' => q \in pending,
               state = "leaked" => dev'[r] \in Devices,
               r \notin pending' \/ state \notin {"idle", "undoing", "refused"} \cup Recorded,
               pending' \subseteq Requests
        PROVE  SoundInv'
    <3>1. FailedJobs'
      BY <2>0
    <3>2. SessionRowSound'
      BY <2>0
    <3>3. PendingIsUnanswered'
      BY <2>0
    <3>4. LeakedChosen'
      BY <2>0
    <3> QED
      BY <3>1, <3>2, <3>3, <3>4
  <2>1. CASE Arrive(r)
    BY <2>0, <2>1 DEF Arrive, PC
  <2>2. CASE EnterAllocation(r)
    BY <2>0, <2>2 DEF EnterAllocation, PC, InAllocation
  <2>3. ASSUME Refuse(r), pc[r] \in {"polling", "selecting"} PROVE SoundInv'
    BY <2>0, <2>3 DEF Refuse, DropPending, PC
  <2>4. CASE PollGivesUp(r) \/ SelectFindsNone(r)
    BY <2>3, <2>4 DEF PollGivesUp, SelectFindsNone
  <2>5. CASE PollReady(r)
    BY <2>0, <2>5 DEF PollReady, PC, InAllocation
  <2>12. CASE BlockDevice(r)
    BY <2>0, <2>12 DEF BlockDevice, PC, InAllocation
  <2>6. CASE Select(r)
    <3>1. dev' \in [Requests -> Devices \cup {NoDevice}]
      BY <2>6 DEF Select, Candidates
    <3> QED
      BY <2>0, <2>6, <3>1 DEF Select, PC, InAllocation
  <2>7. CASE Prepared(r)
    BY <2>0, <2>7 DEF Prepared, PC, Owning
  <2>13. CASE PrepareThrows(r)
    BY <2>0, <2>13 DEF PrepareThrows, DropPending, PC, Owning
  <2>8. CASE SessionStarts(r)
    BY <2>0, <2>8 DEF SessionStarts, PC, Owning
  <2>14. CASE StartThrows(r)
    BY <2>0, <2>14 DEF StartThrows, PC, Owning
  <2>9. CASE SessionFails(r)
    BY <2>9 DEF SessionFails, DropPending
  <2>10. CASE RecordSession(r)
    BY <2>10 DEF RecordSession, DropPending, UpdatedRows
  <2>11. CASE AnswerClient(r)
    <3>1. PICK answer \in {"open", "lost"} : pc' = [pc EXCEPT ![r] = answer]
      BY <2>11 DEF AnswerClient
    <3> QED
      BY <2>11, <3>1 DEF AnswerClient
  <2> QED
    BY <1>2, <2>1, <2>2, <2>4, <2>5, <2>6, <2>7, <2>8, <2>9, <2>10, <2>11,
       <2>12, <2>13, <2>14 DEF Serve
<1>3. ASSUME NEW r \in Requests,
             Command(r) \/ Delete(r) \/ EndDriver(r) \/ DriverDies(r)
               \/ Disconnect(r) \/ CleanPending(r)
      PROVE  SoundInv'
  <2>1. \A j \in jobs' : j \in jobs \/ j.kind # "failed"
    BY <1>3 DEF Command, Delete, EndDriver, DriverDies, Disconnect, CleanPending
  <2> QED
    BY <1>3, <2>1 DEF Command, Delete, EndDriver, DriverDies, Disconnect,
                      CleanPending, DropPending
<1>4. ASSUME NEW d \in Devices,
             ReapIdle(d) \/ GrowIdle(d) \/ UserBlock(d) \/ UserUnblock(d)
      PROVE  SoundInv'
  BY <1>4 DEF ReapIdle, GrowIdle, UserBlock, UserUnblock
<1>5. ASSUME NEW j \in jobs, ReportArrives(j) PROVE SoundInv'
  BY <1>5 DEF ReportArrives
<1>6. ASSUME NEW j \in jobs, FinishRelease(j) PROVE SoundInv'
  <2>1. j.req \in Requests /\ j.dev \in Devices
    BY DEF Job
  <2>2. CASE j.kind = "failed"
    <3>1. pc[j.req] = "undoing" /\ pc' = [pc EXCEPT ![j.req] = "refused"]
      BY <1>6, <2>2 DEF FinishRelease
    <3>2. \A k \in jobs' : k.kind = "failed" => k.req # j.req /\ k.req \in Requests
      BY <1>6, <2>2, OneFailedJob DEF FinishRelease, Job
    <3>3. FailedJobs'
      BY <1>6, <3>1, <3>2 DEF FinishRelease
    <3> QED
      BY <1>6, <2>1, <3>1, <3>3 DEF FinishRelease, ClearSession
  <2>3. CASE j.kind # "failed"
    BY <1>6, <2>1, <2>3 DEF FinishRelease, ClearSession
  <2> QED
    BY <2>2, <2>3
<1>7. ASSUME NEW j \in jobs, ReleaseFails(j) PROVE SoundInv'
  <2>1. j.req \in Requests
    BY DEF Job
  <2>2. CASE j.kind = "failed"
    <3>1. pc[j.req] = "undoing" /\ pc' = [pc EXCEPT ![j.req] = "leaked"]
      BY <1>7, <2>2 DEF ReleaseFails
    <3>2. \A k \in jobs' : k.kind = "failed" => k.req # j.req /\ k.req \in Requests
      BY <1>7, <2>2, OneFailedJob DEF ReleaseFails, Job
    <3>3. FailedJobs'
      BY <1>7, <3>1, <3>2 DEF ReleaseFails
    <3> QED
      BY <1>7, <2>1, <3>1, <3>3 DEF ReleaseFails
  <2>3. CASE j.kind # "failed"
    BY <1>7, <2>3 DEF ReleaseFails
  <2> QED
    BY <2>2, <2>3
<1> QED
  BY <1>1, <1>2, <1>3, <1>4, <1>5, <1>6, <1>7 DEF Next, Quiet

\* They are consistent in the beginning: there are none.
LEMMA InitSound == Init => SoundInv
  BY DEF Init, SoundInv, FailedJobs, LeakedChosen, SessionRowSound, PendingIsUnanswered

\* SoundInv holds in every reachable state.
LEMMA SoundInvHolds == Spec => []SoundInv
  BY InitSound, NextSound, TypeInvHolds, PTL DEF Spec

\* A row names only a session that was created on that device.
THEOREM SessionsAreSound == Spec => []SessionRowSound
<1>1. SoundInv => SessionRowSound
  BY DEF SoundInv
<1> QED
  BY <1>1, SoundInvHolds, PTL

\* The queue the dashboard shows holds no answered request, other than one
\* that failed half way.
THEOREM PendingIsSound == Spec => []PendingIsUnanswered
<1>1. SoundInv => PendingIsUnanswered
  BY DEF SoundInv
<1> QED
  BY <1>1, SoundInvHolds, PTL
====
