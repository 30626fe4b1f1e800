----------------------------- MODULE SessionHistory -----------------------------
(***************************************************************************)
(* What the allocation of SessionAllocation promises in every environment, *)
(* under any number of lock names: everything, of a device to which none   *)
(* of three things has happened, and of the limit as long as none of two   *)
(* has.  The history variables record these; they change nothing.          *)
(***************************************************************************)
EXTENDS SessionAllocation

ASSUME FarmAssumption == IsFiniteSet(Devices)

VARIABLES
  spoiled,  \* devices whose allocation was disturbed at some time
  crowded   \* the count of busy devices was outdated when it was used

historyVars == <<vars, spoiled, crowded>>

HistoryTypeOK == spoiled \subseteq Devices /\ crowded \in BOOLEAN

----------------------------------------------------------------------------
(* The events. *)

\* A release of the device starts while another is waiting for its file: the
\* later one clears the row of whoever has the device by then.
ReleaseOverlaps(d) ==
  \E j \in jobs' \ jobs, k \in jobs :
    j.dev = d /\ k.dev = d /\ j.kind # "report" /\ k.kind # "report"

\* The device is freed by userUnblockDevice, which keeps its session_id.
FreedByHand(d) ==
  /\ busy[d] /\ ~busy'[d]
  /\ ~ \E j \in jobs \ jobs' : j.dev = d /\ j.kind # "report"

\* A request chooses the device although it is in use (the user has blocked
\* it, and the request names its udid), or although a request under another
\* lock name has chosen it and is about to block it.
ChosenTwice(d) ==
  \E r \in Requests :
    /\ pc[r] = "selecting" /\ pc'[r] = "blocking" /\ dev'[r] = d
    /\ \/ busy[d] /\ userBlocked[d]
       \/ \E s \in Requests : pc[s] = "blocking" /\ dev[s] = d /\ LockOf[s] # LockOf[r]

Disturbed(d) == ReleaseOverlaps(d) \/ FreedByHand(d) \/ ChosenTwice(d)

\* A request has passed the check of the limit and has not blocked its device.
Passed(r) == pc[r] \in {"selecting", "blocking"}

\* A request passes the check while one under another lock name has passed.
PassesBeside(r) ==
  /\ pc[r] = "polling" /\ pc'[r] = "selecting"
  /\ \E s \in Requests : Passed(s) /\ LockOf[s] # LockOf[r]

\* A session is recorded on a row that was freed while it was created, which
\* makes the device busy again without a check.
RecordedOnFree(r) ==
  pc[r] = "recording" /\ pc'[r] = "announcing" /\ ~busy[dev[r]]

HistoryInit == Init /\ spoiled = {} /\ crowded = FALSE

HistoryNext ==
  /\ Next
  /\ spoiled' = spoiled \cup {d \in Devices : Disturbed(d)}
  /\ crowded' = (crowded \/ \E r \in Requests : PassesBeside(r) \/ RecordedOnFree(r))

HistorySpec == HistoryInit /\ [][HistoryNext]_historyVars

----------------------------------------------------------------------------
(* Properties. *)

Sound == Devices \ spoiled

\* "This will prevent subsequent request from getting the same device": a
\* blocked device belongs to one request, from blockDevice to its release.
ExclusiveAllocation ==
  \A d \in Sound :
    /\ \A r, s \in Requests : Holds(r, d) /\ Holds(s, d) => r = s
    /\ \A r \in Requests : Holds(r, d) => busy[d]

\* A device is taken from a request only by a release that was started for
\* that request: not by a late DELETE, nor by the cron job, of another one.
OnlyOwnRelease ==
  [][\A d \in Sound', r \in Requests :
       Holds(r, d) /\ ~Holds(r, d)' => \E j \in jobs : j.dev = d /\ j.req = r]_historyVars

\* maxSessions bounds the devices in use although the count is read before
\* the wait for a device and the device is blocked after it.
LimitUnlessCrowded == ~crowded => BusyWithinLimit
====
