------------------------ MODULE SessionExclusion_proofs ------------------------
(***************************************************************************)
(* When a device is allocated to one request at a time, for every number   *)
(* of requests, devices and lock names and every environment: as long as   *)
(* nothing recorded by SessionHistory has happened to the device.          *)
(***************************************************************************)
EXTENDS SessionLease, SessionAllocation_proofs, FiniteSetTheorems

USE AllocationAssumption

----------------------------------------------------------------------------
(* The inductive invariant, of one device that was never disturbed. *)

\* One request is about to block the device, and finds it free.
ChosenIsFree(d) ==
  \A r \in Requests : pc[r] = "blocking" /\ dev[r] = d => ~busy[d]

ChosenByOne(d) ==
  \A r, s \in Requests :
    pc[r] = "blocking" /\ pc[s] = "blocking" /\ dev[r] = d /\ dev[s] = d => r = s

FreeHasNoSession(d) == ~busy[d] => session[d] = NoRequest

\* Between blocking a device and recording its session, the row is blocked
\* and names nobody.
OwnedRow(d) ==
  \A r \in Requests : pc[r] \in Owning /\ dev[r] = d => busy[d] /\ session[d] = NoRequest

OwnerIsUnique(d) ==
  \A r, s \in Requests :
    pc[r] \in Owning /\ pc[s] \in Owning /\ dev[r] = d /\ dev[s] = d => r = s

\* The releases of d that clear its row.
Clearing(d, j) == j.dev = d /\ j.kind # "report"

\* A release under way is the only one of its device, and for its session.
JobForItsSession(d) ==
  \A j \in jobs : Clearing(d, j) /\ j.kind # "failed" => session[d] = j.req

OneJob(d) == \A j, k \in jobs : Clearing(d, j) /\ Clearing(d, k) => j = k

RowInv(d) ==
  /\ ChosenIsFree(d) /\ ChosenByOne(d) /\ FreeHasNoSession(d) /\ OwnedRow(d)
  /\ OwnerIsUnique(d) /\ JobForItsSession(d) /\ OneJob(d)

RowsInv == \A d \in Devices : d \notin spoiled => RowInv(d)

BaseInv == TypeInv /\ OneAllocatorPerLock /\ SoundInv

\* No release of a device clears its row before its session is recorded, other
\* than the one of a failed request.
LEMMA NoReleaseYet ==
  ASSUME BaseInv, NEW r \in Requests, dev[r] \in Devices, RowInv(dev[r]),
         pc[r] \in Owning, pc[r] # "undoing", NEW j \in jobs
  PROVE  ~Clearing(dev[r], j)
<1> SUFFICES ASSUME Clearing(dev[r], j) PROVE FALSE
  OBVIOUS
<1>1. j \in Job /\ j.dev = dev[r] /\ j.kind # "report"
  BY DEF BaseInv, TypeInv, TypeOK, Clearing
<1>2. CASE j.kind = "failed"
  <2>1. j.req \in Requests /\ pc[j.req] = "undoing" /\ dev[j.req] = dev[r]
    BY <1>1, <1>2 DEF BaseInv, SoundInv, FailedJobs, Job
  <2> QED
    BY <2>1 DEF RowInv, OwnerIsUnique, Owning
<1>3. CASE j.kind # "failed"
  <2>1. session[dev[r]] = NoRequest /\ session[dev[r]] = j.req /\ j.req \in Requests
    BY <1>1, <1>3 DEF RowInv, OwnedRow, JobForItsSession, Job, Clearing
  <2> QED
    BY <2>1, AllocationAssumption DEF AllocationAssumption
<1> QED
  BY <1>2, <1>3

\* Initially every device is free and nothing is under way.
LEMMA InitRows == Init => \A d \in Devices : RowInv(d)
  BY DEF Init, RowInv, ChosenIsFree, ChosenByOne, FreeHasNoSession, OwnedRow,
         OwnerIsUnique, JobForItsSession, OneJob, Owning

\* A step of createSession keeps the row of a device it does not disturb.
LEMMA ServeRow ==
  ASSUME BaseInv, NEW d \in Devices, RowInv(d), ~Disturbed(d),
         NEW r \in Requests, Arrive(r) \/ Serve(r)
  PROVE  RowInv(d)'
<1>0. ASSUME pc[r] \in {"starting", "recording"}, dev[r] = d, NEW j \in jobs
      PROVE  ~Clearing(d, j)
  <2>1. RowInv(dev[r]) /\ dev[r] \in Devices /\ pc[r] \in Owning /\ pc[r] # "undoing"
    BY <1>0 DEF Owning
  <2>2. ~Clearing(dev[r], j)
    BY <2>1, NoReleaseYet
  <2> QED
    BY <1>0, <2>2
<1> USE DEF BaseInv, TypeInv, TypeOK, DeviceChosen, Chosen, SoundInv, FailedJobs,
            LeakedChosen, SessionRowSound, RowInv, ChosenIsFree, ChosenByOne,
            FreeHasNoSession, OwnedRow, OwnerIsUnique, JobForItsSession, OneJob,
            Owning, Recorded, Go, rowVars, lockVars
<1> USE DEF Clearing
<1>1. CASE Arrive(r)
  BY <1>1 DEF Arrive
<1>2. CASE EnterAllocation(r)
  BY <1>2 DEF EnterAllocation
<1>3. CASE PollReady(r)
  BY <1>3 DEF PollReady
<1>4. CASE PollGivesUp(r)
  BY <1>4 DEF PollGivesUp, Refuse
<1>5. CASE SelectFindsNone(r)
  BY <1>5 DEF SelectFindsNone, Refuse
<1>6. CASE Select(r)
  <2>1. PICK e \in Candidates(r) : dev' = [dev EXCEPT ![r] = e]
    BY <1>6 DEF Select
  <2>2. /\ pc[r] = "selecting" /\ pc' = [pc EXCEPT ![r] = "blocking"]
        /\ UNCHANGED <<rowVars, jobs>> /\ dev'[r] = e
    BY <1>6, <2>1 DEF Select
  <2>3. e = d => /\ ~busy[d]
                 /\ \A s \in Requests : pc[s] = "blocking" /\ dev[s] = d => LockOf[s] = LockOf[r]
    <3>1. busy[e] => userBlocked[e]
      BY <2>1 DEF Candidates
    <3> QED
      BY <2>2, <3>1 DEF Disturbed, ChosenTwice
  <2>4. \A s \in Requests : pc[s] = "blocking" /\ LockOf[s] = LockOf[r] => s = r
    BY <2>2 DEF OneAllocatorPerLock, InAllocation
  <2>5. \A s \in Requests : pc'[s] = "blocking" /\ dev'[s] = d =>
          \/ s = r /\ e = d
          \/ s # r /\ pc[s] = "blocking" /\ dev[s] = d
    BY <2>1, <2>2
  <2>6. ChosenIsFree(d)'
    BY <2>2, <2>3, <2>5
  <2>7. ChosenByOne(d)'
    BY <2>2, <2>3, <2>4, <2>5
  <2>8. \A s \in Requests : pc'[s] \in Owning => pc[s] \in Owning /\ dev'[s] = dev[s]
    BY <2>1, <2>2
  <2> QED
    BY <2>2, <2>6, <2>7, <2>8
<1>7. CASE BlockDevice(r)
  <2>1. /\ pc[r] = "blocking" /\ pc' = [pc EXCEPT ![r] = "preparing"]
        /\ busy' = [busy EXCEPT ![dev[r]] = TRUE] /\ UNCHANGED <<session, dev, jobs>>
    BY <1>7 DEF BlockDevice
  <2>2. dev[r] = d => \A s \in Requests : dev[s] = d => pc[s] \notin Owning
    BY <2>1
  <2> QED
    BY <2>1, <2>2
<1>8. ASSUME pc[r] \in {"preparing", "starting"}, NEW state \in Owning, Go(r, state),
             UNCHANGED <<rowVars, dev, jobs>>
      PROVE  RowInv(d)'
  BY <1>8
<1>9. CASE Prepared(r)
  BY <1>8, <1>9 DEF Prepared
<1>13. CASE PrepareThrows(r)
  BY <1>8, <1>13 DEF PrepareThrows
<1>14. CASE SessionStarts(r)
  BY <1>8, <1>14 DEF SessionStarts
<1>15. CASE StartThrows(r)
  BY <1>8, <1>15 DEF StartThrows
<1>10. CASE SessionFails(r)
  <2> DEFINE new == [kind |-> "failed", dev |-> dev[r], req |-> r, nr |-> 0]
  <2>1. /\ jobs' = jobs \cup {new} /\ pc[r] = "starting"
        /\ pc' = [pc EXCEPT ![r] = "undoing"] /\ UNCHANGED <<rowVars, dev>>
    BY <1>10 DEF SessionFails
  <2>2. dev[r] = d => \A j \in jobs : ~Clearing(d, j)
    BY <2>1, <1>0
  <2>3. JobForItsSession(d)'
    BY <2>1
  <2>4. OneJob(d)'
    BY <2>1, <2>2
  <2>5. OwnedRow(d)' /\ OwnerIsUnique(d)'
    BY <2>1
  <2>6. ChosenIsFree(d)' /\ ChosenByOne(d)' /\ FreeHasNoSession(d)'
    BY <2>1
  <2> QED
    BY <2>3, <2>4, <2>5, <2>6
<1>11. CASE RecordSession(r)
  <2>1. pc[r] = "recording" /\ dev[r] \in Devices /\ UNCHANGED <<userBlocked, dev, jobs>>
    BY <1>11 DEF RecordSession
  <2>2. pc' = [pc EXCEPT ![r] = "announcing"]
    BY <1>11 DEF RecordSession
  <2>3. /\ session'[d] = IF d = dev[r] THEN r ELSE session[d]
        /\ busy'[d] <=> (d = dev[r] \/ busy[d])
    BY <1>11 DEF RecordSession, UpdatedRows
  <2>4. dev[r] = d => \A j \in jobs : ~Clearing(d, j)
    BY <2>1, <1>0
  <2>5. JobForItsSession(d)' /\ OneJob(d)'
    BY <2>1, <2>3, <2>4
  <2>6. OwnerIsUnique(d)'
    BY <2>1, <2>2
  <2>7. \A s \in Requests : pc'[s] \in Owning /\ dev'[s] = d =>
          pc[s] \in Owning /\ dev[r] # d
    BY <2>1, <2>2
  <2>8. OwnedRow(d)'
    BY <2>1, <2>3, <2>7
  <2>9. \A s \in Requests : pc'[s] = "blocking" /\ dev'[s] = d =>
          pc[s] = "blocking" /\ dev[r] # d
    BY <2>1, <2>2
  <2>10. ChosenIsFree(d)' /\ ChosenByOne(d)'
    BY <2>1, <2>3, <2>9
  <2>11. FreeHasNoSession(d)'
    BY <2>3
  <2> QED
    BY <2>5, <2>6, <2>8, <2>10, <2>11
<1>12. CASE AnswerClient(r)
  <2>1. PICK answer \in {"open", "lost"} : pc' = [pc EXCEPT ![r] = answer]
    BY <1>12 DEF AnswerClient
  <2> QED
    BY <1>12, <2>1 DEF AnswerClient
<1> QED
  BY <1>1, <1>2, <1>3, <1>4, <1>5, <1>6, <1>7, <1>9, <1>10, <1>11, <1>12,
     <1>13, <1>14, <1>15 DEF Serve

\* So does a step of the clients, the drivers, the dashboard and the cron jobs:
\* they start a release only for the session in the row.
LEMMA OthersRow ==
  ASSUME BaseInv, NEW d \in Devices, RowInv(d), ~Disturbed(d),
         \/ \E r \in Requests : \/ Command(r) \/ Delete(r) \/ EndDriver(r)
                                \/ DriverDies(r) \/ Disconnect(r) \/ CleanPending(r)
         \/ \E e \in Devices :
              ReapIdle(e) \/ GrowIdle(e) \/ UserBlock(e) \/ UserUnblock(e)
  PROVE  RowInv(d)'
<1> USE DEF BaseInv, TypeInv, TypeOK, rowVars, lockVars
<1> DEFINE Rest == UNCHANGED <<busy, session, pc, dev>>
<1> HIDE DEF Rest
<1>1. ASSUME Rest, jobs' = jobs PROVE RowInv(d)'
  BY <1>1 DEF Rest, RowInv, ChosenIsFree, ChosenByOne, FreeHasNoSession, OwnedRow,
              OwnerIsUnique, JobForItsSession, OneJob, Clearing
<1> DEFINE Starts(j) == j.kind # "failed" /\ (Clearing(d, j) => session[d] = j.req)
<1>2. ASSUME Rest, \A j \in jobs' : j \in jobs \/ Starts(j),
             \A j, k \in jobs' : Clearing(d, j) /\ Clearing(d, k) /\ j \notin jobs => j = k
      PROVE  RowInv(d)'
  <2>1. JobForItsSession(d)' /\ OneJob(d)'
    BY <1>2 DEF Rest, RowInv, JobForItsSession, OneJob, Clearing
  <2> QED
    BY <1>2, <2>1 DEF Rest, RowInv, ChosenIsFree, ChosenByOne, FreeHasNoSession,
                      OwnedRow, OwnerIsUnique
<1>3. ASSUME NEW r \in Requests,
             Command(r) \/ EndDriver(r) \/ Disconnect(r) \/ CleanPending(r)
      PROVE  RowInv(d)'
  BY <1>3, <1>1 DEF Rest, Command, EndDriver, Disconnect, CleanPending
<1>4. ASSUME NEW e \in Devices, GrowIdle(e) \/ UserBlock(e) PROVE RowInv(d)'
  BY <1>4, <1>1 DEF Rest, GrowIdle, UserBlock
<1>5. ASSUME NEW e \in Devices, UserUnblock(e) PROVE RowInv(d)'
  <2>1. /\ busy' = [busy EXCEPT ![e] = FALSE] /\ UNCHANGED <<session, pc, dev, jobs>>
    BY <1>5 DEF UserUnblock
  <2>2. e = d => ~busy[d]
    BY <2>1 DEF Disturbed, FreedByHand
  <2>3. busy'[d] = busy[d]
    BY <2>1, <2>2
  <2> QED
    BY <2>1, <2>3 DEF RowInv, ChosenIsFree, ChosenByOne, FreeHasNoSession, OwnedRow,
                      OwnerIsUnique, JobForItsSession, OneJob, Clearing
\* A step that starts one release, of a device that had none.
<1>6. ASSUME NEW new, Rest, jobs' = jobs \cup {new}, Starts(new) PROVE RowInv(d)'
  <2>1. \A k \in jobs : new \notin jobs /\ Clearing(d, new) => ~Clearing(d, k)
    BY <1>6 DEF Disturbed, ReleaseOverlaps, Clearing
  <2> HIDE DEF Starts
  <2> QED
    BY <1>2, <1>6, <2>1
<1>7. ASSUME NEW r \in Requests, Delete(r) PROVE RowInv(d)'
  <2> DEFINE new == [kind : {"delete"}, dev : RowsOf(r), req : {r}, nr : {deletes[r]}]
  <2>1. Rest /\ jobs' = jobs \cup new
    BY <1>7 DEF Rest, Delete
  <2>2. \A j \in new : Starts(j)
    BY DEF RowsOf, Clearing
  <2>3. \A j, k \in new : Clearing(d, j) /\ Clearing(d, k) => j = k
    <3>1. \A j \in new :
            j = [kind |-> "delete", dev |-> j.dev, req |-> r, nr |-> deletes[r]]
      OBVIOUS
    <3> QED
      BY <3>1 DEF Clearing
  <2>4. \A j \in new, k \in jobs : j \notin jobs /\ Clearing(d, j) => ~Clearing(d, k)
    BY <2>1 DEF Disturbed, ReleaseOverlaps, Clearing
  <2> HIDE DEF new, Starts
  <2> QED
    BY <1>2, <2>1, <2>2, <2>3, <2>4
<1>8. ASSUME NEW r \in Requests, DriverDies(r) PROVE RowInv(d)'
  <2> DEFINE down   == [kind |-> "shutdown", dev |-> dev[r], req |-> r, nr |-> 0]
             report == [kind |-> "report", dev |-> dev[r], req |-> r, nr |-> 0]
  <2>1. \/ Rest /\ jobs' = jobs
        \/ Rest /\ jobs' = jobs \cup {report}
        \/ Rest /\ jobs' = jobs \cup {down} /\ session[dev[r]] = r
    BY <1>8 DEF Rest, DriverDies
  <2>2. Starts(report) /\ (session[dev[r]] = r => Starts(down))
    BY DEF Clearing
  <2> HIDE DEF down, report, Starts
  <2> QED
    BY <1>1, <1>6, <2>1, <2>2
<1>9. ASSUME NEW e \in Devices, ReapIdle(e) PROVE RowInv(d)'
  <2> DEFINE idle == [kind |-> "idle", dev |-> e, req |-> session[e], nr |-> 0]
  <2>1. Rest /\ jobs' = jobs \cup {idle}
    BY <1>9 DEF Rest, ReapIdle
  <2>2. Starts(idle)
    BY DEF Clearing
  <2> HIDE DEF idle, Starts
  <2> QED
    BY <1>6, <2>1, <2>2
<1> QED
  BY <1>3, <1>4, <1>5, <1>7, <1>8, <1>9

\* The end of a release clears the row for the only request it was started for.
LEMMA ReleaseRow ==
  ASSUME BaseInv, NEW d \in Devices, RowInv(d), NEW j \in jobs, FinishRelease(j)
  PROVE  RowInv(d)'
<1> USE DEF BaseInv, TypeInv, TypeOK
<1>1. j \in Job /\ j.dev \in Devices /\ j.req \in Requests /\ j.kind # "report"
  BY DEF FinishRelease, Job
<1>2. /\ busy' = [busy EXCEPT ![j.dev] = FALSE]
      /\ session' = [session EXCEPT ![j.dev] = NoRequest]
      /\ jobs' = jobs \ {j} /\ UNCHANGED dev
      /\ \A r \in Requests : pc'[r] = pc[r] \/ pc'[r] = "refused"
  BY <1>1 DEF FinishRelease, ClearSession
<1>3. j.kind = "failed" =>
        pc[j.req] = "undoing" /\ dev[j.req] = j.dev /\ pc'[j.req] = "refused"
  BY <1>1 DEF FinishRelease, SoundInv, FailedJobs
<1>4. j.dev = d => \A r \in Requests : ~(pc'[r] \in Owning /\ dev[r] = d)
  <2> SUFFICES ASSUME j.dev = d, NEW r \in Requests, pc'[r] \in Owning, dev[r] = d
               PROVE  FALSE
    OBVIOUS
  <2>1. pc[r] \in Owning /\ pc[r] = pc'[r]
    BY <1>2 DEF Owning
  <2>2. session[d] = NoRequest
    BY <2>1 DEF RowInv, OwnedRow
  <2>3. j.kind = "failed"
    BY <1>1, <2>2, AllocationAssumption
       DEF RowInv, JobForItsSession, Clearing, AllocationAssumption
  <2>4. r = j.req
    BY <1>1, <1>3, <2>1, <2>3 DEF RowInv, OwnerIsUnique, Owning
  <2> QED
    BY <1>3, <2>3, <2>4 DEF Owning
<1>5. JobForItsSession(d)' /\ OneJob(d)'
  <2>1. \A k \in jobs' : Clearing(d, k) => k \in jobs /\ j.dev # d
    BY <1>1, <1>2 DEF RowInv, OneJob, Clearing
  <2> QED
    BY <1>2, <2>1 DEF RowInv, JobForItsSession, OneJob, Clearing
<1>6. FreeHasNoSession(d)' /\ ChosenIsFree(d)' /\ ChosenByOne(d)'
  BY <1>1, <1>2 DEF RowInv, FreeHasNoSession, ChosenIsFree, ChosenByOne
<1>7. \A r \in Requests : pc'[r] \in Owning => pc[r] \in Owning
  BY <1>2 DEF Owning
<1>8. OwnedRow(d)' /\ OwnerIsUnique(d)'
  BY <1>1, <1>2, <1>4, <1>7 DEF RowInv, OwnedRow, OwnerIsUnique
<1> QED
  BY <1>5, <1>6, <1>8 DEF RowInv

\* A release that fails, and a node's report that comes without freeing d.
LEMMA NoReleaseRow ==
  ASSUME BaseInv, NEW d \in Devices, RowInv(d), ~Disturbed(d),
         NEW j \in jobs, ReleaseFails(j) \/ ReportArrives(j)
  PROVE  RowInv(d)'
<1> USE DEF BaseInv, TypeInv, TypeOK
<1>1. j \in Job /\ j.req \in Requests /\ j.dev \in Devices
  BY DEF Job
<1>2. jobs' = jobs \ {j} /\ UNCHANGED <<session, dev>>
  BY DEF ReleaseFails, ReportArrives, rowVars
<1>3. busy'[d] = busy[d]
  <2>1. CASE ReleaseFails(j)
    BY <2>1 DEF ReleaseFails, rowVars
  <2>2. CASE ReportArrives(j)
    <3>1. busy'[d] = busy[d] \/ (busy'[d] = FALSE /\ j.kind = "report")
      BY <1>1, <2>2 DEF ReportArrives
    <3>2. ~ (busy[d] /\ ~busy'[d])
      <4>1. \A k \in jobs \ jobs' : k = j
        BY <1>2
      <4> QED
        BY <2>2, <4>1 DEF Disturbed, FreedByHand, ReportArrives
    <3> QED
      BY <3>1, <3>2
  <2> QED
    BY <2>1, <2>2
<1>4. \A r \in Requests : /\ pc'[r] \in Owning => pc[r] \in Owning
                          /\ pc'[r] = "blocking" => pc[r] = "blocking"
  <2>1. j.kind = "failed" => pc[j.req] = "undoing"
    BY DEF SoundInv, FailedJobs
  <2> QED
    BY <1>1, <2>1 DEF ReleaseFails, ReportArrives, Owning
<1> QED
  BY <1>2, <1>3, <1>4 DEF RowInv, ChosenIsFree, ChosenByOne, FreeHasNoSession, OwnedRow,
                          OwnerIsUnique, JobForItsSession, OneJob, Clearing

\* RowsInv is inductive, together with the invariants proved before.
LEMMA NextRows ==
  ASSUME BaseInv, RowsInv, [HistoryNext]_historyVars
  PROVE  RowsInv'
<1> SUFFICES ASSUME NEW d \in Devices, d \notin spoiled' PROVE RowInv(d)'
  BY DEF RowsInv
<1>1. CASE UNCHANGED historyVars
  BY <1>1 DEF historyVars, vars, RowsInv, RowInv, ChosenIsFree, ChosenByOne,
              FreeHasNoSession, OwnedRow, OwnerIsUnique, JobForItsSession, OneJob, Clearing
<1>2. CASE HistoryNext
  <2>1. d \notin spoiled /\ ~Disturbed(d) /\ Next
    BY <1>2 DEF HistoryNext
  <2>2. RowInv(d)
    BY <2>1 DEF RowsInv
  <2>3. CASE Quiet
    BY <2>2, <2>3 DEF Quiet, vars, RowInv, ChosenIsFree, ChosenByOne, FreeHasNoSession,
                      OwnedRow, OwnerIsUnique, JobForItsSession, OneJob, Clearing
  <2> QED
    BY <2>1, <2>2, <2>3, ServeRow, OthersRow, ReleaseRow, NoReleaseRow DEF Next
<1> QED
  BY <1>1, <1>2

----------------------------------------------------------------------------
(* The history variables change nothing. *)

\* A behaviour with the history variables is one of the system.
LEMMA HistoryIsSpec == HistorySpec => Spec
<1>1. HistoryInit => Init
  BY DEF HistoryInit
<1>2. [HistoryNext]_historyVars => [Next]_vars
  BY DEF HistoryNext, historyVars
<1> QED
  BY <1>1, <1>2, PTL DEF HistorySpec, Spec

LEMMA BaseInvHolds == HistorySpec => []BaseInv
<1>1. Spec => []BaseInv
  <2>1. Init => OneAllocatorPerLock
    BY DEF Init, OneAllocatorPerLock, InAllocation
  <2>2. Init => BaseInv
    BY <2>1, InitTypeInv, InitSound DEF BaseInv
  <2>3. BaseInv /\ [Next]_vars => BaseInv'
    BY NextTypeInv, NextOneAllocator, NextSound DEF BaseInv
  <2> QED
    BY <2>2, <2>3, PTL DEF Spec
<1> QED
  BY <1>1, HistoryIsSpec, PTL

LEMMA RowsInvHolds == HistorySpec => [](BaseInv /\ RowsInv)
<1>1. HistoryInit => RowsInv
  BY InitRows DEF HistoryInit, RowsInv
<1>2. BaseInv /\ RowsInv /\ [HistoryNext]_historyVars => RowsInv'
  BY NextRows
<1> QED
  BY <1>1, <1>2, BaseInvHolds, PTL DEF HistorySpec

----------------------------------------------------------------------------
(* The theorems about the owners of a device. *)

\* The invariant of a row implies that its device is allocated to one request.
LEMMA RowSuffices ==
  ASSUME NEW d \in Devices, RowInv(d), NEW r \in Requests, Holds(r, d)
  PROVE  busy[d] /\ \A s \in Requests : Holds(s, d) => r = s
<1>1. CASE pc[r] \in Owning
  BY <1>1, AllocationAssumption DEF Holds, RowInv, OwnedRow, OwnerIsUnique, AllocationAssumption
<1>2. CASE busy[d] /\ session[d] = r
  BY <1>2, AllocationAssumption DEF Holds, RowInv, OwnedRow, AllocationAssumption
<1> QED
  BY <1>1, <1>2 DEF Holds

LEMMA RowsSuffice == RowsInv => ExclusiveAllocation
  BY RowSuffices DEF RowsInv, ExclusiveAllocation, Sound

\* "This will prevent subsequent request from getting the same device": a
\* blocked device that was never disturbed belongs to one request until it is
\* released, whatever happens to other devices and under other lock names.
THEOREM DevicesAreExclusive == HistorySpec => []ExclusiveAllocation
  BY RowsInvHolds, RowsSuffice, PTL

\* In a step that does not disturb d, the holder of d loses it only by the end
\* of a release started for the holder.
LEMMA LosesByOwnRelease ==
  ASSUME BaseInv, NEW d \in Devices, RowInv(d), ~Disturbed(d), Next,
         NEW r \in Requests, Holds(r, d), ~Holds(r, d)'
  PROVE  \E j \in jobs : j.dev = d /\ j.req = r
<1> USE DEF BaseInv, TypeInv, TypeOK, Holds, Owning, Go, rowVars, lockVars
<1>1. ASSUME NEW s \in Requests, Arrive(s) \/ Serve(s) PROVE FALSE
  <2> USE DEF RowInv, OwnedRow, SoundInv, SessionRowSound, Recorded
  <2>1. CASE Arrive(s) \/ EnterAllocation(s) \/ PollReady(s)
    BY <2>1 DEF Arrive, EnterAllocation, PollReady
  <2>2. CASE PollGivesUp(s) \/ SelectFindsNone(s)
    BY <2>2 DEF PollGivesUp, SelectFindsNone, Refuse
  <2>3. CASE Select(s)
    <3>1. pc[s] = "selecting" /\ UNCHANGED <<busy, session>>
      BY <2>3 DEF Select
    <3>2. r # s
      <4>1. pc[r] \in Owning \cup Recorded
        BY AllocationAssumption DEF AllocationAssumption
      <4> QED
        BY <3>1, <4>1
    <3>3. dev[r] = dev'[r] /\ pc[r] = pc'[r]
      BY <2>3, <3>2 DEF Select
    <3> QED
      BY <3>1, <3>3
  <2>4. CASE BlockDevice(s)
    BY <2>4 DEF BlockDevice
  <2>5. CASE Prepared(s) \/ PrepareThrows(s)
    BY <2>5 DEF Prepared, PrepareThrows
  <2>6. CASE SessionStarts(s) \/ StartThrows(s)
    BY <2>6 DEF SessionStarts, StartThrows
  <2>7. CASE SessionFails(s)
    BY <2>7 DEF SessionFails
  <2>8. CASE RecordSession(s)
    BY <2>8, AllocationAssumption
       DEF RecordSession, UpdatedRows, OwnerIsUnique, AllocationAssumption
  <2>9. CASE AnswerClient(s)
    BY <2>9 DEF AnswerClient
  <2> QED
    BY <1>1, <2>1, <2>2, <2>3, <2>4, <2>5, <2>6, <2>7, <2>8, <2>9 DEF Serve
<1>2. ASSUME NEW s \in Requests,
             Command(s) \/ Delete(s) \/ EndDriver(s) \/ DriverDies(s)
               \/ Disconnect(s) \/ CleanPending(s)
      PROVE  FALSE
  BY <1>2 DEF Command, Delete, EndDriver, DriverDies, Disconnect, CleanPending
<1>3. ASSUME NEW e \in Devices, ReapIdle(e) \/ GrowIdle(e) \/ UserBlock(e)
      PROVE  FALSE
  BY <1>3 DEF ReapIdle, GrowIdle, UserBlock
<1>4. busy[d]
  BY RowSuffices
<1>5. ASSUME ~busy'[d], jobs' = jobs PROVE FALSE
  BY <1>4, <1>5 DEF Disturbed, FreedByHand
<1>6. ASSUME NEW e \in Devices, UserUnblock(e) PROVE FALSE
  <2>1. UNCHANGED <<session, pc, dev, jobs>>
    BY <1>6 DEF UserUnblock
  <2>2. ~busy'[d]
    BY <1>4, <2>1
  <2> QED
    BY <1>5, <2>1, <2>2
<1>7. ASSUME NEW j \in jobs, FinishRelease(j) PROVE j.dev = d /\ j.req = r
  <2>1. j.dev \in Devices /\ j.req \in Requests /\ j.kind # "report"
    BY <1>7 DEF FinishRelease, Job
  <2>2. /\ \A e \in Devices : e # j.dev => busy'[e] = busy[e] /\ session'[e] = session[e]
        /\ \A s \in Requests : pc'[s] = pc[s] \/ (j.kind = "failed" /\ s = j.req)
        /\ UNCHANGED dev
    BY <1>7, <2>1 DEF FinishRelease, ClearSession
  <2>3. CASE j.kind = "failed"
    <3>1. pc[j.req] = "undoing" /\ dev[j.req] = j.dev
      BY <2>3 DEF SoundInv, FailedJobs
    <3>2. j.dev = d
      BY <2>1, <2>2, <3>1
    <3>3. Holds(j.req, d)
      BY <3>1, <3>2
    <3> QED
      BY <2>1, <3>2, <3>3, RowSuffices
  <2>4. CASE j.kind # "failed"
    <3>1. pc'[r] = pc[r] /\ dev[r] = d
      BY <2>2, <2>4
    <3>2. pc[r] \notin Owning /\ busy[d] /\ session[d] = r
      BY <2>2, <3>1
    <3>3. j.dev = d
      BY <2>2, <3>1, <3>2
    <3>4. session[d] = j.req
      BY <2>1, <2>4, <3>3 DEF RowInv, JobForItsSession, Clearing
    <3> QED
      BY <3>2, <3>3, <3>4
  <2> QED
    BY <2>3, <2>4
<1>8. ASSUME NEW j \in jobs, ReportArrives(j) PROVE FALSE
  <2>1. UNCHANGED <<session, pc, dev>> /\ jobs' = jobs \ {j} /\ j.kind = "report"
    BY <1>8 DEF ReportArrives
  <2>2. ~busy'[d]
    BY <1>4, <2>1
  <2> QED
    BY <1>4, <2>1, <2>2 DEF Disturbed, FreedByHand
<1>9. ASSUME NEW j \in jobs, ReleaseFails(j) PROVE FALSE
  <2>1. j.req \in Requests /\ (j.kind = "failed" => pc[j.req] = "undoing")
    BY DEF Job, SoundInv, FailedJobs
  <2> QED
    BY <1>9, <2>1 DEF ReleaseFails
<1>10. CASE Quiet
  BY <1>10 DEF Quiet, vars
<1> QED
  BY <1>1, <1>2, <1>3, <1>6, <1>7, <1>8, <1>9, <1>10 DEF Next

\* A device that was never disturbed is taken from a request only by a release
\* started for it: neither a late DELETE nor the cron job of another session
\* does it.
THEOREM ReleasesAreOwn == HistorySpec => OnlyOwnRelease
<1> DEFINE Own == \A d \in Sound', r \in Requests :
                    Holds(r, d) /\ ~Holds(r, d)' => \E j \in jobs : j.dev = d /\ j.req = r
<1>1. ASSUME BaseInv, RowsInv, HistoryNext PROVE Own
  <2> SUFFICES ASSUME NEW d \in Sound', NEW r \in Requests, Holds(r, d), ~Holds(r, d)'
               PROVE  \E j \in jobs : j.dev = d /\ j.req = r
    OBVIOUS
  <2>1. d \in Devices /\ d \notin spoiled /\ ~Disturbed(d) /\ Next
    BY <1>1 DEF HistoryNext, Sound
  <2>2. RowInv(d)
    BY <1>1, <2>1 DEF RowsInv
  <2> QED
    BY <1>1, <2>1, <2>2, LosesByOwnRelease
<1>2. BaseInv /\ RowsInv /\ [HistoryNext]_historyVars => [Own]_historyVars
  BY <1>1
<1> QED
  BY <1>2, RowsInvHolds, PTL DEF HistorySpec, OnlyOwnRelease

----------------------------------------------------------------------------
(* The session limit.  The number of busy devices is read while the request *)
(* waits, the device is blocked later.                                      *)

\* Who has passed the check of the limit still finds room, and is alone.
RoomForPassed ==
  \A r \in Requests : Passed(r) => Cardinality(BusyDevices) < MaxSessions

OnePassed == \A r, s \in Requests : Passed(r) /\ Passed(s) => r = s

LimitInv == ~crowded => BusyWithinLimit /\ RoomForPassed /\ OnePassed

\* A step that blocks no device and lets nobody past the check keeps the limit.
LEMMA FewerKeepsLimit ==
  ASSUME LimitInv, ~crowded' => ~crowded, BusyDevices' \subseteq BusyDevices,
         \A r \in Requests : Passed(r)' => Passed(r)
  PROVE  LimitInv'
<1>1. IsFiniteSet(BusyDevices)
  BY FS_Subset, FarmAssumption DEF FarmAssumption, BusyDevices
<1>2. /\ Cardinality(BusyDevices') <= Cardinality(BusyDevices)
      /\ Cardinality(BusyDevices) \in Nat
      /\ Cardinality(BusyDevices') \in Nat
  BY <1>1, FS_Subset, FS_CardinalityType
<1>3. MaxSessions \in Nat
  BY DEF AllocationAssumption
<1> QED
  BY <1>2, <1>3 DEF LimitInv, BusyWithinLimit, RoomForPassed, OnePassed

\* The limit is kept by every step.
LEMMA NextLimit ==
  ASSUME BaseInv, LimitInv, [HistoryNext]_historyVars
  PROVE  LimitInv'
<1> USE DEF BaseInv, TypeInv, TypeOK, Go, rowVars, lockVars
<1>0. ~crowded' => ~crowded
  BY DEF HistoryNext, historyVars
<1>1. ASSUME busy' = busy, \A q \in Requests : Passed(q)' => Passed(q)
      PROVE  LimitInv'
  BY <1>0, <1>1, FewerKeepsLimit DEF BusyDevices
<1>2. CASE UNCHANGED historyVars
  BY <1>1, <1>2 DEF historyVars, vars, Passed
<1>3. ASSUME HistoryNext, NEW r \in Requests, Arrive(r) \/ Serve(r) PROVE LimitInv'
  <2>1. CASE PollReady(r)
    <3> SUFFICES ASSUME ~crowded' PROVE BusyWithinLimit' /\ RoomForPassed' /\ OnePassed'
      BY DEF LimitInv
    <3>1. Cardinality(BusyDevices) # MaxSessions
      BY <2>1 DEF PollReady, AtLimit
    <3>2. IsFiniteSet(BusyDevices)
      BY FS_Subset, FarmAssumption DEF FarmAssumption, BusyDevices
    <3>3. Cardinality(BusyDevices) \in Nat /\ MaxSessions \in Nat
      BY <3>2, FS_CardinalityType DEF AllocationAssumption
    <3>4. BusyDevices' = BusyDevices
      BY <2>1 DEF PollReady, BusyDevices
    <3>5. pc[r] = "polling" /\ pc' = [pc EXCEPT ![r] = "selecting"]
      BY <2>1 DEF PollReady
    <3>6. ~PassesBeside(r)
      BY <1>3 DEF HistoryNext
    <3>7. \A s \in Requests : Passed(s) => LockOf[s] = LockOf[r]
      BY <3>5, <3>6 DEF PassesBeside
    <3>8. \A s \in Requests : Passed(s) => s = r
      BY <3>5, <3>7 DEF OneAllocatorPerLock, InAllocation, Passed
    <3>9. OnePassed'
      BY <3>5, <3>8 DEF OnePassed, Passed
    <3> QED
      BY <1>0, <3>1, <3>3, <3>4, <3>9 DEF LimitInv, BusyWithinLimit, RoomForPassed
  <2>2. CASE BlockDevice(r)
    <3> SUFFICES ASSUME ~crowded PROVE BusyWithinLimit' /\ RoomForPassed' /\ OnePassed'
      BY <1>0 DEF LimitInv
    <3>0. pc[r] = "blocking" /\ pc' = [pc EXCEPT ![r] = "preparing"]
      BY <2>2 DEF BlockDevice
    <3>1. Cardinality(BusyDevices) < MaxSessions
      BY <3>0 DEF LimitInv, RoomForPassed, Passed
    <3>2. BusyDevices' = BusyDevices \cup {dev[r]}
      BY <2>2 DEF BlockDevice, BusyDevices, DeviceChosen, Chosen
    <3>3. IsFiniteSet(BusyDevices)
      BY FS_Subset, FarmAssumption DEF FarmAssumption, BusyDevices
    <3>4. /\ Cardinality(BusyDevices) \in Nat /\ MaxSessions \in Nat
          /\ \/ Cardinality(BusyDevices') = Cardinality(BusyDevices)
             \/ Cardinality(BusyDevices') = Cardinality(BusyDevices) + 1
      BY <3>2, <3>3, FS_CardinalityType, FS_AddElement DEF AllocationAssumption
    <3>5. BusyWithinLimit'
      BY <3>1, <3>4 DEF BusyWithinLimit
    <3>6. \A q \in Requests : ~Passed(q)'
      BY <3>0 DEF LimitInv, OnePassed, Passed
    <3> QED
      BY <3>5, <3>6 DEF RoomForPassed, OnePassed
  <2>3. CASE RecordSession(r)
    <3>0. /\ pc[r] = "recording" /\ pc' = [pc EXCEPT ![r] = "announcing"]
          /\ \A d \in Devices : busy'[d] <=> (d = dev[r] \/ busy[d])
      BY <2>3 DEF RecordSession, UpdatedRows
    <3>1. \A q \in Requests : Passed(q)' => Passed(q)
      BY <3>0 DEF Passed
    <3>2. CASE crowded'
      BY <3>2 DEF LimitInv
    <3>3. CASE ~crowded'
      <4>1. busy[dev[r]]
        BY <1>3, <3>0, <3>3 DEF HistoryNext, RecordedOnFree
      <4>2. BusyDevices' = BusyDevices
        BY <3>0, <4>1 DEF BusyDevices
      <4> QED
        BY <1>0, <3>1, <4>2, FewerKeepsLimit
    <3> QED
      BY <3>2, <3>3
  <2>4. CASE Arrive(r) \/ EnterAllocation(r)
    BY <1>1, <2>4 DEF Arrive, EnterAllocation, Passed
  <2>5. CASE PollGivesUp(r) \/ SelectFindsNone(r)
    BY <1>1, <2>5 DEF PollGivesUp, SelectFindsNone, Refuse, Passed
  <2>6. CASE Select(r)
    BY <1>1, <2>6 DEF Select, Passed
  <2>7. CASE Prepared(r) \/ PrepareThrows(r)
    BY <1>1, <2>7 DEF Prepared, PrepareThrows, Passed
  <2>8. CASE SessionStarts(r) \/ StartThrows(r)
    BY <1>1, <2>8 DEF SessionStarts, StartThrows, Passed
  <2>9. CASE SessionFails(r)
    BY <1>1, <2>9 DEF SessionFails, Passed
  <2>10. CASE AnswerClient(r)
    BY <1>1, <2>10 DEF AnswerClient, Passed
  <2> QED
    BY <1>3, <2>1, <2>2, <2>3, <2>4, <2>5, <2>6, <2>7, <2>8, <2>9, <2>10 DEF Serve
<1>4. ASSUME NEW r \in Requests,
             Command(r) \/ Delete(r) \/ EndDriver(r) \/ DriverDies(r)
               \/ Disconnect(r) \/ CleanPending(r)
      PROVE  LimitInv'
  BY <1>1, <1>4 DEF Command, Delete, EndDriver, DriverDies, Disconnect, CleanPending, Passed
<1>5. ASSUME NEW d \in Devices, ReapIdle(d) \/ GrowIdle(d) \/ UserBlock(d)
      PROVE  LimitInv'
  BY <1>1, <1>5 DEF ReapIdle, GrowIdle, UserBlock, Passed
<1>6. ASSUME BusyDevices' \subseteq BusyDevices, pc' = pc \/ \E s \in Requests :
               pc' = [pc EXCEPT ![s] = "refused"] \/ pc' = [pc EXCEPT ![s] = "leaked"]
      PROVE  LimitInv'
  <2>1. \A q \in Requests : Passed(q)' => Passed(q)
    BY <1>6 DEF Passed
  <2> QED
    BY <1>0, <1>6, <2>1, FewerKeepsLimit
<1>7. ASSUME NEW j \in jobs, FinishRelease(j) \/ ReportArrives(j) \/ ReleaseFails(j)
      PROVE  LimitInv'
  <2>1. j.req \in Requests
    BY DEF Job
  <2>2. BusyDevices' \subseteq BusyDevices
    BY <1>7 DEF FinishRelease, ReportArrives, ReleaseFails, BusyDevices, Job
  <2> QED
    BY <1>6, <1>7, <2>1, <2>2 DEF FinishRelease, ReportArrives, ReleaseFails
<1>8. ASSUME NEW d \in Devices, UserUnblock(d) PROVE LimitInv'
  <2>1. BusyDevices' \subseteq BusyDevices
    BY <1>8 DEF UserUnblock, BusyDevices
  <2> QED
    BY <1>6, <1>8, <2>1 DEF UserUnblock
<1> QED
  BY <1>2, <1>3, <1>4, <1>5, <1>7, <1>8, <1>1 DEF HistoryNext, Next, Quiet, vars, Passed

\* maxSessions bounds the devices in use although the count is read before the
\* wait for a device and the device is blocked after it: as long as nobody
\* passes the check beside a request of another lock name, and no session is
\* recorded on a row that was freed while the session was created.
THEOREM LimitIsKept == HistorySpec => []LimitUnlessCrowded
<1>1. HistoryInit => LimitInv
  <2> SUFFICES ASSUME HistoryInit PROVE LimitInv
    OBVIOUS
  <2>1. BusyDevices = {} /\ \A r \in Requests : ~Passed(r)
    BY DEF HistoryInit, Init, BusyDevices, Passed
  <2> QED
    BY <2>1, FS_EmptySet DEF LimitInv, BusyWithinLimit, RoomForPassed, OnePassed,
                             AllocationAssumption
<1>2. BaseInv /\ LimitInv /\ [HistoryNext]_historyVars => LimitInv'
  BY NextLimit
<1>3. LimitInv => LimitUnlessCrowded
  BY DEF LimitInv, LimitUnlessCrowded
<1> QED
  BY <1>1, <1>2, <1>3, BaseInvHolds, PTL DEF HistorySpec

----------------------------------------------------------------------------
(* The hub implements DeviceLease: the step simulation. *)

\* A request has no device before it selects one.
NotYetChosen ==
  \A r \in Requests : pc[r] \in {"idle", "queued", "polling", "selecting"} => dev[r] = NoDevice

LeaseInv == BaseInv /\ RowsInv /\ NotYetChosen /\ spoiled \subseteq Devices

\* Every step keeps NotYetChosen.
LEMMA NextNotYet ==
  ASSUME TypeInv, SoundInv, NotYetChosen, [Next]_vars PROVE NotYetChosen'
<1> USE DEF TypeInv, TypeOK, NotYetChosen, Go
<1>1. CASE UNCHANGED vars
  BY <1>1 DEF vars
<1>2. ASSUME NEW r \in Requests, Arrive(r) \/ Serve(r) PROVE NotYetChosen'
  BY <1>2 DEF Arrive, Serve, EnterAllocation, PollReady, PollGivesUp, Refuse, Select,
     SelectFindsNone, BlockDevice, Prepared, PrepareThrows, SessionStarts, SessionFails,
     StartThrows, RecordSession, AnswerClient
<1>3. ASSUME NEW j \in jobs, FinishRelease(j) \/ ReleaseFails(j) \/ ReportArrives(j)
      PROVE  NotYetChosen'
  BY <1>3 DEF FinishRelease, ReleaseFails, ReportArrives
<1>4. CASE \/ \E r \in Requests : \/ Command(r) \/ Delete(r) \/ EndDriver(r)
                                  \/ DriverDies(r) \/ Disconnect(r) \/ CleanPending(r)
           \/ \E d \in Devices : ReapIdle(d) \/ GrowIdle(d) \/ UserBlock(d) \/ UserUnblock(d)
           \/ Quiet
  BY <1>4 DEF Command, Delete, EndDriver, DriverDies, Disconnect, CleanPending, ReapIdle,
     GrowIdle, UserBlock, UserUnblock, Quiet, vars
<1> QED BY <1>1, <1>2, <1>3, <1>4 DEF Next

\* At most one device is disturbed in a step.
LEMMA OneDisturbed ==
  ASSUME LeaseInv, Next, NEW d \in Devices, Disturbed(d), NEW e \in Devices, Disturbed(e)
  PROVE  d = e
<1> USE DEF LeaseInv, BaseInv, TypeInv, TypeOK, Go, rowVars, lockVars
\* A step that frees no device, chooses none and starts releases of one only.
<1>1. ASSUME NEW one, \A c \in Devices : busy[c] => busy'[c],
             \A j \in jobs' \ jobs : j.dev = one,
             \A r \in Requests : ~(pc[r] = "selecting" /\ pc'[r] = "blocking")
      PROVE  d = e
  <2>1. d = one /\ e = one
    BY <1>1 DEF Disturbed, ReleaseOverlaps, FreedByHand, ChosenTwice
  <2> QED
    BY <2>1
\* One that starts no release, frees one device at most and chooses none.
<1>2. ASSUME NEW one, \A c \in Devices : c # one /\ busy[c] => busy'[c],
             jobs' \subseteq jobs,
             \A r \in Requests : ~(pc[r] = "selecting" /\ pc'[r] = "blocking")
      PROVE  d = e
  <2>1. d = one /\ e = one
    BY <1>2 DEF Disturbed, ReleaseOverlaps, FreedByHand, ChosenTwice
  <2> QED
    BY <2>1
<1>3. ASSUME NEW r \in Requests, Select(r) PROVE d = e
  <2>1. /\ UNCHANGED <<busy, jobs>> /\ pc' = [pc EXCEPT ![r] = "blocking"]
    BY <1>3 DEF Select
  <2>2. ASSUME NEW c \in Devices, Disturbed(c) PROVE dev'[r] = c
    BY <2>1, <2>2 DEF Disturbed, ReleaseOverlaps, FreedByHand, ChosenTwice
  <2> QED
    BY <2>2
<1>4. ASSUME NEW r \in Requests,
             \/ Arrive(r) \/ EnterAllocation(r) \/ PollReady(r) \/ PollGivesUp(r)
             \/ SelectFindsNone(r) \/ BlockDevice(r) \/ Prepared(r) \/ PrepareThrows(r)
             \/ SessionStarts(r) \/ StartThrows(r) \/ RecordSession(r) \/ AnswerClient(r)
      PROVE  d = e
  BY <1>1, <1>4 DEF Arrive, EnterAllocation, PollReady, PollGivesUp, Refuse,
     SelectFindsNone, BlockDevice, Prepared, PrepareThrows, SessionStarts, StartThrows,
     RecordSession, AnswerClient
<1>5. ASSUME NEW r \in Requests, SessionFails(r) PROVE d = e
  BY <1>1, <1>5 DEF SessionFails
<1>6. ASSUME NEW r \in Requests,
             Command(r) \/ EndDriver(r) \/ Disconnect(r) \/ CleanPending(r)
      PROVE  d = e
  BY <1>1, <1>6 DEF Command, EndDriver, Disconnect, CleanPending
<1>7. ASSUME NEW r \in Requests, Delete(r) PROVE d = e
  <2>1. \A c \in RowsOf(r) : c = dev[r]
    BY AllocationAssumption DEF RowsOf, SoundInv, SessionRowSound, AllocationAssumption
  <2>2. \A j \in jobs' \ jobs : j.dev = dev[r]
    BY <1>7, <2>1 DEF Delete
  <2> QED
    BY <1>1, <1>7, <2>2 DEF Delete
<1>8. ASSUME NEW r \in Requests, DriverDies(r) PROVE d = e
  <2>1. \A j \in jobs' \ jobs : j.dev = dev[r]
    BY <1>8 DEF DriverDies
  <2> QED
    BY <1>1, <1>8, <2>1 DEF DriverDies
<1>9. ASSUME NEW c \in Devices, ReapIdle(c) \/ GrowIdle(c) \/ UserBlock(c)
      PROVE  d = e
  BY <1>1, <1>9 DEF ReapIdle, GrowIdle, UserBlock
<1>10. ASSUME NEW c \in Devices, UserUnblock(c) PROVE d = e
  BY <1>2, <1>10 DEF UserUnblock
<1>11. ASSUME NEW j \in jobs, FinishRelease(j) \/ ReleaseFails(j) \/ ReportArrives(j)
       PROVE  d = e
  <2>1. j.dev \in Devices /\ j.req \in Requests
    BY DEF Job
  <2>5. \A r \in Requests : pc'[r] = pc[r] \/ pc'[r] \in {"refused", "leaked"}
    BY <1>11, <2>1 DEF FinishRelease, ReleaseFails, ReportArrives
  <2>2. \A r \in Requests : ~(pc[r] = "selecting" /\ pc'[r] = "blocking")
    BY <2>5
  <2>3. \A c \in Devices : c # j.dev /\ busy[c] => busy'[c]
    BY <1>11, <2>1 DEF FinishRelease, ReleaseFails, ReportArrives
  <2>4. jobs' \subseteq jobs
    BY <1>11 DEF FinishRelease, ReleaseFails, ReportArrives
  <2> QED
    BY <1>2, <2>2, <2>3, <2>4
<1>12. CASE Quiet
  BY <1>1, <1>12 DEF Quiet, vars
<1> QED
  BY <1>3, <1>4, <1>5, <1>6, <1>7, <1>8, <1>9, <1>10, <1>11, <1>12 DEF Next, Serve

\* The lessee of a device that was never disturbed is the one who holds it.
LesseeSound ==
  \A d \in Devices :
    /\ d \in spoiled => Lessee[d] = NoRequest
    /\ d \notin spoiled => \A r \in Requests : Holds(r, d) <=> Lessee[d] = r
    /\ Lessee[d] \in Requests \cup {NoRequest}

LEMMA LesseeIsSound == LeaseInv => LesseeSound
<1> SUFFICES ASSUME LeaseInv, NEW d \in Devices
             PROVE  /\ d \in spoiled => Lessee[d] = NoRequest
                    /\ d \notin spoiled => \A r \in Requests : Holds(r, d) <=> Lessee[d] = r
                    /\ Lessee[d] \in Requests \cup {NoRequest}
  BY DEF LesseeSound
<1>1. CASE d \notin spoiled /\ \E r \in Requests : Holds(r, d)
  <2>1. Lessee[d] = CHOOSE r \in Requests : Holds(r, d)
    BY <1>1 DEF Lessee
  <2>2. Lessee[d] \in Requests /\ Holds(Lessee[d], d)
    BY <1>1, <2>1
  <2>3. RowInv(d)
    BY <1>1 DEF LeaseInv, RowsInv
  <2> QED
    BY <1>1, <2>2, <2>3, RowSuffices
<1>2. CASE ~(d \notin spoiled /\ \E r \in Requests : Holds(r, d))
  BY <1>2, AllocationAssumption DEF Lessee, AllocationAssumption
<1> QED
  BY <1>1, <1>2

LEMMA LesseeIsSoundNext == LeaseInv' => LesseeSound'
<1>1. LeaseInv => LesseeSound
  BY LesseeIsSound
<1> QED
  BY <1>1, PTL

\* Recording the session hands the lease on from createSession to the row.
LEMMA RecordKeeps ==
  ASSUME LeaseInv, NEW r \in Requests, RecordSession(r),
         NEW d \in Devices, RowInv(d), NEW s \in Requests
  PROVE  Holds(s, d)' <=> Holds(s, d)
<1> USE DEF LeaseInv, BaseInv, TypeInv, TypeOK
<1>1. /\ pc[r] = "recording" /\ dev[r] \in Devices
      /\ pc' = [pc EXCEPT ![r] = "announcing"] /\ UNCHANGED dev
  BY DEF RecordSession, Go, DeviceChosen, Chosen
<1>2. /\ session'[d] = IF d = dev[r] THEN r ELSE session[d]
      /\ busy'[d] <=> (d = dev[r] \/ busy[d])
  BY DEF RecordSession, UpdatedRows
<1>3. d = dev[r] => busy[d] /\ session[d] = NoRequest
  BY <1>1 DEF RowInv, OwnedRow, Owning
<1>4. CASE s = r
  <2>1. d = dev[r] => Holds(r, d) /\ Holds(r, d)'
    BY <1>1, <1>2 DEF Holds, Owning
  <2>2. d # dev[r] => ~Holds(r, d) /\ ~Holds(r, d)'
    BY <1>1 DEF Holds
  <2> QED
    BY <1>4, <2>1, <2>2
<1>5. CASE s # r
  <2>1. pc'[s] = pc[s] /\ dev'[s] = dev[s]
    BY <1>1, <1>5
  <2>2. (busy'[d] /\ session'[d] = s) <=> (busy[d] /\ session[d] = s)
    BY <1>2, <1>3, <1>5, AllocationAssumption DEF AllocationAssumption
  <2> QED
    BY <2>1, <2>2 DEF Holds
<1> QED
  BY <1>4, <1>5

\* A step of createSession other than blockDevice changes neither the holders
\* of a device that was never disturbed nor who has been served.
LEMMA ServeKeeps ==
  ASSUME LeaseInv, NEW r \in Requests, Arrive(r) \/ Serve(r), ~BlockDevice(r)
  PROVE  /\ \A d \in Devices, s \in Requests : RowInv(d) => (Holds(s, d)' <=> Holds(s, d))
         /\ Served' = Served
<1> USE DEF LeaseInv, BaseInv, TypeInv, TypeOK, Go, rowVars, Owning
<1> DEFINE Kept == /\ \A d \in Devices, s \in Requests :
                        RowInv(d) => (Holds(s, d)' <=> Holds(s, d))
                   /\ Served' = Served
<1>1. CASE RecordSession(r)
  <2>1. Served' = Served
    BY <1>1 DEF RecordSession, Served
  <2> QED
    BY <1>1, <2>1, RecordKeeps
<1>2. ASSUME NEW step \in PC, pc' = [pc EXCEPT ![r] = step], UNCHANGED <<busy, session, dev>>,
             pc[r] \in Owning <=> step \in Owning,
             dev[r] = NoDevice \/ (pc[r] # "blocking" /\ step # "blocking")
      PROVE  Kept
  BY <1>2 DEF Holds, Served
<1>3. ASSUME Arrive(r) \/ EnterAllocation(r) \/ PollReady(r) PROVE Kept
  BY <1>2, <1>3 DEF Arrive, EnterAllocation, PollReady, NotYetChosen, PC, InAllocation, lockVars
<1>4. ASSUME PollGivesUp(r) \/ SelectFindsNone(r) PROVE Kept
  BY <1>2, <1>4 DEF PollGivesUp, SelectFindsNone, Refuse, NotYetChosen, PC
<1>5. CASE Prepared(r) \/ PrepareThrows(r)
  BY <1>2, <1>5 DEF Prepared, PrepareThrows, PC
<1>6. CASE SessionStarts(r) \/ StartThrows(r)
  BY <1>2, <1>6 DEF SessionStarts, StartThrows, PC
<1>7. CASE SessionFails(r)
  BY <1>2, <1>7 DEF SessionFails, PC
<1>8. CASE AnswerClient(r)
  BY <1>2, <1>8 DEF AnswerClient, PC, Recorded
<1>9. CASE Select(r)
  <2>1. /\ pc[r] = "selecting" /\ pc' = [pc EXCEPT ![r] = "blocking"]
        /\ dev[r] = NoDevice /\ \A s \in Requests : s # r => dev'[s] = dev[s]
        /\ UNCHANGED <<busy, session>>
    BY <1>9 DEF Select, NotYetChosen
  <2>2. ASSUME NEW d \in Devices PROVE ~Holds(r, d) /\ ~Holds(r, d)'
    <3>1. dev[r] # d
      BY <2>1, AllocationAssumption DEF AllocationAssumption
    <3>2. ASSUME session[d] = r PROVE FALSE
      <4>1. r # NoRequest
        BY AllocationAssumption DEF AllocationAssumption
      <4>2. pc[r] \in Recorded
        BY <3>2, <4>1 DEF SoundInv, SessionRowSound
      <4> QED BY <2>1, <4>2 DEF Recorded
    <3> QED BY <2>1, <3>1, <3>2 DEF Holds
  <2>3. ASSUME NEW d \in Devices, NEW s \in Requests, s # r PROVE Holds(s, d)' <=> Holds(s, d)
    BY <2>1, <2>3 DEF Holds
  <2>4. Served' = Served
    BY <2>1 DEF Served
  <2> QED BY <2>2, <2>3, <2>4
<1> QED BY <1>1, <1>3, <1>4, <1>5, <1>6, <1>7, <1>8, <1>9 DEF Serve

\* So do the steps of the clients, the drivers, the dashboard and the cron jobs,
\* a release that fails and a node's report, for a device they do not disturb.
LEMMA OthersKeep ==
  ASSUME LeaseInv,
         \/ \E r \in Requests : \/ Command(r) \/ Delete(r) \/ EndDriver(r)
                                \/ DriverDies(r) \/ Disconnect(r) \/ CleanPending(r)
         \/ \E d \in Devices : ReapIdle(d) \/ GrowIdle(d) \/ UserBlock(d) \/ UserUnblock(d)
         \/ \E j \in jobs : ReleaseFails(j) \/ ReportArrives(j)
         \/ UNCHANGED vars
  PROVE  /\ \A d \in Devices, s \in Requests :
              ~Disturbed(d) => (Holds(s, d)' <=> Holds(s, d))
         /\ Served' = Served
<1> USE DEF LeaseInv, BaseInv, TypeInv, TypeOK, rowVars
<1> DEFINE Kept == /\ \A d \in Devices, s \in Requests :
                        ~Disturbed(d) => (Holds(s, d)' <=> Holds(s, d))
                   /\ Served' = Served
<1>1. ASSUME UNCHANGED <<busy, session, pc, dev>> PROVE Kept
  BY <1>1 DEF Holds, Served
<1>2. ASSUME NEW r \in Requests,
             \/ Command(r) \/ Delete(r) \/ EndDriver(r)
             \/ DriverDies(r) \/ Disconnect(r) \/ CleanPending(r)
      PROVE  Kept
  BY <1>1, <1>2 DEF Command, Delete, EndDriver, DriverDies, Disconnect, CleanPending
<1>3. ASSUME NEW d \in Devices, ReapIdle(d) \/ GrowIdle(d) \/ UserBlock(d)
      PROVE  Kept
  BY <1>1, <1>3 DEF ReapIdle, GrowIdle, UserBlock
\* A step that frees devices, and only disturbed ones.
<1>4. ASSUME UNCHANGED <<session, pc, dev>>, \A d \in Devices : busy'[d] => busy[d],
             \A j \in jobs \ jobs' : j.kind = "report"
      PROVE  Kept
  <2>1. \A d \in Devices : ~Disturbed(d) => (busy'[d] <=> busy[d])
    BY <1>4 DEF Disturbed, FreedByHand
  <2> QED
    BY <1>4, <2>1 DEF Holds, Served
<1>5. ASSUME NEW d \in Devices, UserUnblock(d) PROVE Kept
  BY <1>4, <1>5 DEF UserUnblock
<1>6. ASSUME NEW j \in jobs, ReportArrives(j) PROVE Kept
  <2>1. \A d \in Devices : busy'[d] => busy[d]
    BY <1>6 DEF ReportArrives
  <2>2. \A k \in jobs \ jobs' : k.kind = "report"
    BY <1>6 DEF ReportArrives
  <2> QED
    BY <1>4, <1>6, <2>1, <2>2 DEF ReportArrives
<1>7. ASSUME NEW j \in jobs, ReleaseFails(j) PROVE Kept
  <2>1. j.req \in Requests /\ (j.kind = "failed" => pc[j.req] = "undoing")
    BY DEF Job, SoundInv, FailedJobs
  <2>2. /\ UNCHANGED <<busy, session, dev>>
        /\ \A s \in Requests : pc'[s] = pc[s] \/ (pc[s] = "undoing" /\ pc'[s] = "leaked")
    BY <1>7, <2>1 DEF ReleaseFails
  <2> QED BY <2>2 DEF Holds, Served, Owning
<1>8. CASE UNCHANGED vars
  BY <1>1, <1>8 DEF vars
<1> QED BY <1>2, <1>3, <1>5, <1>6, <1>7, <1>8

\* Blocking a device and ending a release disturb nothing.
LEMMA BlockDisturbsNone ==
  ASSUME LeaseInv, NEW r \in Requests, BlockDevice(r), NEW d \in Devices
  PROVE  ~Disturbed(d)
<1> USE DEF LeaseInv, BaseInv, TypeInv, TypeOK, Go
<1>1. jobs' = jobs /\ pc' = [pc EXCEPT ![r] = "preparing"]
      /\ busy' = [busy EXCEPT ![dev[r]] = TRUE]
  BY DEF BlockDevice
<1> QED
  BY <1>1 DEF Disturbed, ReleaseOverlaps, FreedByHand, ChosenTwice

LEMMA ReleaseDisturbsNone ==
  ASSUME LeaseInv, NEW j \in jobs, FinishRelease(j), NEW d \in Devices
  PROVE  ~Disturbed(d)
<1> USE DEF LeaseInv, BaseInv, TypeInv, TypeOK
<1>1. /\ jobs' = jobs \ {j} /\ busy' = [busy EXCEPT ![j.dev] = FALSE] /\ j.kind # "report"
      /\ \A r \in Requests : pc'[r] = pc[r] \/ pc'[r] = "refused"
  BY DEF FinishRelease, Job
<1>2. ~ReleaseOverlaps(d) /\ ~ChosenTwice(d)
  BY <1>1 DEF ReleaseOverlaps, ChosenTwice
<1>3. ~FreedByHand(d)
  BY <1>1 DEF FreedByHand
<1> QED
  BY <1>2, <1>3 DEF Disturbed

\* Blocking the chosen device takes the lease, or serves the request with a
\* device that was withdrawn.
LEMMA BlockTakes ==
  ASSUME LeaseInv, LeaseInv', NEW r \in Requests, BlockDevice(r), spoiled' = spoiled
  PROVE  Lease!Next
<1> USE DEF LeaseInv, BaseInv, TypeInv, TypeOK
<1>1. LesseeSound /\ LesseeSound'
  BY LesseeIsSound, LesseeIsSoundNext
<1>2. /\ pc[r] = "blocking" /\ dev[r] \in Devices
      /\ pc' = [pc EXCEPT ![r] = "preparing"] /\ UNCHANGED <<dev, session>>
      /\ busy' = [busy EXCEPT ![dev[r]] = TRUE]
  BY DEF BlockDevice, Go, DeviceChosen, Chosen
<1>3. r \notin Served /\ Served' = Served \cup {r}
  BY <1>2, AllocationAssumption DEF Served, AllocationAssumption
<1>4. ASSUME NEW d \in Devices, d # dev[r], NEW s \in Requests PROVE Holds(s, d)' <=> Holds(s, d)
  BY <1>2, <1>4 DEF Holds
<1>5. ASSUME NEW d \in Devices, d # dev[r] \/ d \in spoiled PROVE Lessee'[d] = Lessee[d]
  <2>1. CASE d \in spoiled
    BY <1>1, <2>1 DEF LesseeSound
  <2>2. CASE d \notin spoiled
    <3>1. \A s \in Requests : Lessee'[d] = s <=> Lessee[d] = s
      BY <1>1, <1>4, <1>5, <2>2 DEF LesseeSound
    <3> QED
      BY <1>1, <3>1 DEF LesseeSound
  <2> QED
    BY <2>1, <2>2
<1>6. CASE dev[r] \notin spoiled
  <2>1. RowInv(dev[r])
    BY <1>2, <1>6 DEF RowsInv
  <2>2. ~busy[dev[r]] /\ \A s \in Requests : ~Holds(s, dev[r])
    BY <1>2, <2>1, RowSuffices DEF RowInv, ChosenIsFree
  <2>3. Lessee[dev[r]] = NoRequest
    BY <1>1, <1>2, <1>6, <2>2 DEF LesseeSound
  <2>4. Lessee'[dev[r]] = r
    <3>1. Holds(r, dev[r])'
      BY <1>2 DEF Holds, Owning
    <3> QED
      BY <1>1, <1>2, <1>6, <3>1 DEF LesseeSound
  <2>5. Lessee' = [Lessee EXCEPT ![dev[r]] = r]
    BY <1>5, <2>4 DEF Lessee
  <2> QED
    BY <1>2, <1>3, <1>6, <2>3, <2>5 DEF Lease!Next, Lease!Take
<1>7. CASE dev[r] \in spoiled
  <2>1. \A d \in Devices : Lessee'[d] = Lessee[d]
    BY <1>5, <1>7
  <2>2. Lessee' = Lessee
    BY <2>1 DEF Lessee
  <2> QED
    BY <1>3, <1>7, <2>2 DEF Lease!Next, Lease!ServeWithdrawn
<1> QED
  BY <1>6, <1>7

\* The end of a release gives the lease of its device back, if there is one.
LEMMA ReleaseGivesBack ==
  ASSUME LeaseInv, LeaseInv', NEW j \in jobs, FinishRelease(j), spoiled' = spoiled
  PROVE  Lease!Next \/ UNCHANGED <<Lessee, Served, spoiled>>
<1> USE DEF LeaseInv, BaseInv, TypeInv, TypeOK
<1>1. LesseeSound /\ LesseeSound'
  BY LesseeIsSound, LesseeIsSoundNext
<1>2. j.dev \in Devices /\ j.req \in Requests
  BY DEF Job
<1>3. /\ busy' = [busy EXCEPT ![j.dev] = FALSE]
      /\ session' = [session EXCEPT ![j.dev] = NoRequest]
      /\ UNCHANGED dev
      /\ \A r \in Requests :
           pc'[r] = pc[r] \/ (r = j.req /\ j.kind = "failed" /\ pc'[r] = "refused")
  BY <1>2 DEF FinishRelease, ClearSession
<1>4. j.kind = "failed" => pc[j.req] = "undoing" /\ dev[j.req] = j.dev
  BY DEF SoundInv, FailedJobs
<1>5. Served' = Served
  BY <1>3, <1>4 DEF Served
<1>6. j.dev \notin spoiled => \A r \in Requests : ~Holds(r, j.dev)'
  <2>1. RowsInv' => ExclusiveAllocation'
    BY RowsSuffice, PTL
  <2> QED
    BY <1>2, <1>3, <2>1 DEF ExclusiveAllocation, Sound
<1>7. ASSUME NEW d \in Devices, d # j.dev, NEW r \in Requests PROVE Holds(r, d)' <=> Holds(r, d)
  BY <1>2, <1>3, <1>4, <1>7 DEF Holds
<1>8. ASSUME NEW d \in Devices PROVE Lessee'[d] = IF d = j.dev THEN NoRequest ELSE Lessee[d]
  <2>1. CASE d \in spoiled
    BY <1>1, <2>1 DEF LesseeSound
  <2>2. CASE d \notin spoiled /\ d = j.dev
    BY <1>1, <1>6, <2>2 DEF LesseeSound
  <2>3. CASE d \notin spoiled /\ d # j.dev
    <3>1. \A s \in Requests : Lessee'[d] = s <=> Lessee[d] = s
      BY <1>1, <1>7, <2>3 DEF LesseeSound
    <3> QED
      BY <1>1, <2>3, <3>1 DEF LesseeSound
  <2> QED
    BY <2>1, <2>2, <2>3
<1>9. Lessee' = [Lessee EXCEPT ![j.dev] = NoRequest]
  BY <1>8 DEF Lessee
<1>10. CASE Lessee[j.dev] = NoRequest
  <2>1. Lessee' = Lessee
    BY <1>8, <1>10 DEF Lessee
  <2> QED
    BY <1>5, <2>1
<1>11. CASE Lessee[j.dev] # NoRequest
  BY <1>2, <1>5, <1>9, <1>11 DEF Lease!Next, Lease!GiveBack
<1> QED
  BY <1>10, <1>11

\* A step that keeps the holders of the devices it does not disturb withdraws
\* the one it disturbs, or is a stutter.
LEMMA KeepsOrWithdraws ==
  ASSUME LeaseInv, LeaseInv', HistoryNext, Served' = Served,
         \A d \in Devices, s \in Requests :
           RowInv(d) /\ ~Disturbed(d) => (Holds(s, d)' <=> Holds(s, d))
  PROVE  Lease!Next \/ UNCHANGED <<Lessee, Served, spoiled>>
<1>1. LesseeSound /\ LesseeSound'
  BY LesseeIsSound, LesseeIsSoundNext
<1>2. spoiled' = spoiled \cup {d \in Devices : Disturbed(d)} /\ Next
  BY DEF HistoryNext
<1>3. ASSUME NEW d \in Devices, d \in spoiled \/ d \notin spoiled' PROVE Lessee'[d] = Lessee[d]
  <2>1. CASE d \in spoiled
    BY <1>1, <1>2, <2>1 DEF LesseeSound
  <2>2. CASE d \notin spoiled'
    <3>1. d \notin spoiled /\ ~Disturbed(d) /\ RowInv(d)
      BY <1>2, <2>2 DEF LeaseInv, RowsInv
    <3>2. \A s \in Requests : Lessee'[d] = s <=> Lessee[d] = s
      BY <1>1, <2>2, <3>1 DEF LesseeSound
    <3> QED
      BY <1>1, <3>2 DEF LesseeSound
  <2> QED
    BY <1>3, <2>1, <2>2
<1>4. CASE spoiled' = spoiled
  <2>1. \A d \in Devices : Lessee'[d] = Lessee[d]
    BY <1>3, <1>4
  <2>2. Lessee' = Lessee
    BY <2>1 DEF Lessee
  <2> QED
    BY <1>4, <2>2
<1>5. CASE spoiled' # spoiled
  <2>1. PICK d \in Devices : Disturbed(d) /\ d \notin spoiled
    BY <1>2, <1>5
  <2>2. {e \in Devices : Disturbed(e)} = {d}
    BY <1>2, <2>1, OneDisturbed
  <2>3. spoiled' = spoiled \cup {d}
    BY <1>2, <2>2
  <2>4. \A e \in Devices : Lessee'[e] = IF e = d THEN NoRequest ELSE Lessee[e]
    BY <1>1, <1>3, <2>3 DEF LesseeSound
  <2>5. Lessee' = [Lessee EXCEPT ![d] = NoRequest]
    BY <2>4 DEF Lessee
  <2> QED
    BY <2>1, <2>3, <2>5 DEF Lease!Next, Lease!Withdraw
<1> QED
  BY <1>4, <1>5

\* Every step of the hub is one of the lease's, or a stutter.
LEMMA NextImplements ==
  ASSUME LeaseInv, LeaseInv', [HistoryNext]_historyVars
  PROVE  [Lease!Next]_<<Lessee, Served, spoiled>>
<1>1. CASE UNCHANGED historyVars
  BY <1>1 DEF historyVars, vars, Lessee, Served, Holds
<1>2. ASSUME HistoryNext, \A d \in Devices : ~Disturbed(d) PROVE spoiled' = spoiled
  BY <1>2 DEF HistoryNext
<1>3. ASSUME HistoryNext, NEW r \in Requests, BlockDevice(r) PROVE Lease!Next
  BY <1>2, <1>3, BlockTakes, BlockDisturbsNone
<1>4. ASSUME HistoryNext, NEW r \in Requests, Arrive(r) \/ Serve(r), ~BlockDevice(r)
      PROVE  Lease!Next \/ UNCHANGED <<Lessee, Served, spoiled>>
  <2>1. /\ \A d \in Devices, s \in Requests : RowInv(d) => (Holds(s, d)' <=> Holds(s, d))
        /\ Served' = Served
    BY <1>4, ServeKeeps
  <2> QED
    BY <1>4, <2>1, KeepsOrWithdraws
<1>5. ASSUME HistoryNext, NEW j \in jobs, FinishRelease(j)
      PROVE  Lease!Next \/ UNCHANGED <<Lessee, Served, spoiled>>
  BY <1>2, <1>5, ReleaseGivesBack, ReleaseDisturbsNone
<1>6. ASSUME HistoryNext,
             \/ \E r \in Requests : \/ Command(r) \/ Delete(r) \/ EndDriver(r)
                                    \/ DriverDies(r) \/ Disconnect(r) \/ CleanPending(r)
             \/ \E d \in Devices : ReapIdle(d) \/ GrowIdle(d) \/ UserBlock(d) \/ UserUnblock(d)
             \/ \E j \in jobs : ReleaseFails(j) \/ ReportArrives(j)
             \/ UNCHANGED vars
      PROVE  Lease!Next \/ UNCHANGED <<Lessee, Served, spoiled>>
  <2>1. /\ \A d \in Devices, s \in Requests : ~Disturbed(d) => (Holds(s, d)' <=> Holds(s, d))
        /\ Served' = Served
    BY <1>6, OthersKeep
  <2> QED
    BY <1>6, <2>1, KeepsOrWithdraws
<1>7. HistoryNext => Next
  BY DEF HistoryNext
<1> QED
  BY <1>1, <1>3, <1>4, <1>5, <1>6, <1>7 DEF Next, Quiet

\* Nobody has a lease at first.
LEMMA InitImplements == ASSUME HistoryInit PROVE Lease!Init
<1>1. ASSUME NEW d \in Devices, NEW r \in Requests PROVE ~Holds(r, d)
  BY AllocationAssumption DEF HistoryInit, Init, Holds, AllocationAssumption
<1> QED BY <1>1 DEF Lease!Init, Lessee, Served, HistoryInit, Init

\* The hub implements the lease: a device is leased to one request at a time,
\* a request leases once, a lease ends before the next begins, and a device is
\* withdrawn when a step disturbs its allocation, at most one in a step.
THEOREM HubImplementsLease == HistorySpec => ImplementsLease
<1>1. HistoryInit => Lease!Init /\ NotYetChosen /\ spoiled \subseteq Devices
  BY InitImplements DEF HistoryInit, Init, NotYetChosen
<1>2. /\ BaseInv /\ NotYetChosen /\ [HistoryNext]_historyVars => NotYetChosen'
      /\ spoiled \subseteq Devices /\ [HistoryNext]_historyVars => (spoiled \subseteq Devices)'
  <2>1. [HistoryNext]_historyVars => [Next]_vars
    BY DEF HistoryNext, historyVars
  <2>2. [HistoryNext]_historyVars /\ spoiled \subseteq Devices => spoiled' \subseteq Devices
    BY DEF HistoryNext, historyVars
  <2> QED
    BY <2>1, <2>2, NextNotYet DEF BaseInv
<1>3. LeaseInv /\ LeaseInv' /\ [HistoryNext]_historyVars
        => [Lease!Next]_<<Lessee, Served, spoiled>>
  BY NextImplements
<1>4. LeaseInv <=> BaseInv /\ RowsInv /\ NotYetChosen /\ spoiled \subseteq Devices
  BY DEF LeaseInv
<1> QED
  BY <1>1, <1>2, <1>3, <1>4, RowsInvHolds, PTL DEF HistorySpec, ImplementsLease, Lease!Spec
====
