---------------------------- MODULE SessionTraffic ----------------------------
(***************************************************************************)
(* The commands of sessions that are open, as the hub's middleware handles *)
(* them (proxy/wd-command-proxy.ts): a session on a node has a handler in  *)
(* remoteProxyMap that passes its commands on, and the handler goes with   *)
(* the session's DELETE.  And the events that the tests of these sessions  *)
(* post to the hub (wdio-service.ts, test-execution-meta-data.ts).         *)
(***************************************************************************)
EXTENDS Naturals

CONSTANTS
  Sessions, Commands, Events,
  SessionOf,   \* [Commands \cup Events -> Sessions]
  Deletes,     \* the commands that end their session
  Own,         \* sessions on the hub's own devices
  Middlewares, \* how many other middlewares there are
  Apart,       \* bound: a behaviour has commands or events, not both
  Env          \* what may go wrong, see below

(***************************************************************************)
(* "throw":   a middleware throws, or is no function                       *)
(* "down":    the node goes away                                           *)
(* "disk":    the file with the utilisation times cannot be written        *)
(* "reap":    the cron job releases a device in use                        *)
(* "db":      the database refuses a record                                *)
(* "reorder": the posts about an event arrive in another order             *)
(***************************************************************************)
ASSUME TrafficAssumption ==
  /\ SessionOf \in [Commands \cup Events -> Sessions]
  /\ Deletes \subseteq Commands
  /\ Own \subseteq Sessions
  /\ Middlewares \in Nat
  /\ Apart \in BOOLEAN
  /\ Env \subseteq {"throw", "down", "disk", "reap", "db", "reorder"}

None == "none"

VARIABLES
  stage,      \* of each session: its creation, then "open"
  proxies,    \* sessions in remoteProxyMap
  busy,       \* sessions whose device's row is busy
  pc, pos,    \* where each command stands; the middlewares before it
  release,    \* the release that a proxied DELETE starts
  nodeUp,     \* the node answers
  chain,      \* what each middleware does (never changes)
  httpProxy,  \* HTTP_PROXY is set (never changes)
  pending,    \* testEvents: the event under way in each session
  posted,     \* what has been posted about each event
  last,       \* and which of it was handled last (a history variable)
  latest,     \* the event that started last in each session (a history variable)
  writes,     \* what became of the writes of each event's record
  journal     \* the record of each event

commandVars == <<stage, proxies, busy, pc, pos, release, nodeUp, chain, httpProxy>>
eventVars == <<pending, posted, last, latest, writes, journal>>
vars == <<commandVars, eventVars>>

Write == Events \X {"create", "update"}

TrafficTypeOK ==
  /\ stage \in [Sessions -> {"creating", "proxied", "open"}]
  /\ proxies \subseteq Sessions \ Own
  /\ busy \subseteq Sessions
  /\ pc \in [Commands -> {"idle", "touching", "chain", "proxied", "axios", "local",
                          "answered", "lost"}]
  /\ pos \in [Commands -> 0 .. Middlewares]
  /\ release \in [Deletes -> {"none", "running", "done", "failed"}]
  /\ nodeUp \in BOOLEAN /\ httpProxy \in BOOLEAN
  /\ chain \in [1 .. Middlewares -> {"pass", "answer", "throw"}]
  /\ pending \in [Sessions -> Events \cup {None}]
  /\ posted \in [Events -> SUBSET {"start", "finish"}]
  /\ last \in [Events -> {"none", "start", "finish"}]
  /\ latest \in [Sessions -> Events \cup {None}]
  /\ writes \in [Write -> {"none", "running", "saved", "refused", "unknown"}]
  /\ journal \in [Events -> {"none", "started", "finished"}]

Init ==
  /\ stage = [s \in Sessions |-> "creating"]
  /\ proxies = {}
  /\ busy = Sessions
  /\ pc = [c \in Commands |-> "idle"] /\ pos = [c \in Commands |-> 0]
  /\ release = [c \in Deletes |-> "none"]
  /\ nodeUp = TRUE
  /\ chain \in [1 .. Middlewares -> {"pass", "answer"} \cup (Env \cap {"throw"})]
  /\ httpProxy \in BOOLEAN
  /\ pending = [s \in Sessions |-> None]
  /\ posted = [e \in Events |-> {}]
  /\ last = [e \in Events |-> "none"]
  /\ latest = [s \in Sessions |-> None]
  /\ writes = [w \in Write |-> "none"]
  /\ journal = [e \in Events |-> "none"]

Move(c, where) == pc' = [pc EXCEPT ![c] = where]

\* Commands and events share nothing but the sessions.  Apart bounds a behaviour to
\* the ones or the others, and the latter to one state of the former.
MayCommand == Apart => \A e \in Events : posted[e] = {}
MayPost ==
  Apart => /\ \A c \in Commands : pc[c] = "idle"
           /\ \A i \in DOMAIN chain : chain[i] = "pass"
           /\ busy = Sessions /\ nodeUp /\ ~httpProxy

----------------------------------------------------------------------------
(* createSession and its client. *)

\* A mutant: the hub's own sessions get a handler, too.
AddProxyHandlerAlways(s) ==
  /\ stage[s] = "creating"
  /\ stage' = [stage EXCEPT ![s] = "proxied"]
  /\ proxies' = proxies \cup {s}
  /\ UNCHANGED <<busy, pc, pos, release, nodeUp, chain, httpProxy, eventVars>>

\* The session has its handler before the client has its answer.
AddProxyHandler(s) ==
  /\ stage[s] = "creating"
  /\ stage' = [stage EXCEPT ![s] = "proxied"]
  /\ proxies' = IF s \in Own THEN proxies ELSE proxies \cup {s}
  /\ UNCHANGED <<busy, pc, pos, release, nodeUp, chain, httpProxy, eventVars>>

AnswerClient(s) ==
  /\ stage[s] = "proxied"
  /\ stage' = [stage EXCEPT ![s] = "open"]
  /\ UNCHANGED <<proxies, busy, pc, pos, release, nodeUp, chain, httpProxy, eventVars>>

----------------------------------------------------------------------------
(* The middleware. *)

\* A command arrives; the handler awaits updateCmdExecutedTime.
Arrive(c) ==
  /\ pc[c] = "idle" /\ stage[SessionOf[c]] = "open" /\ MayCommand
  /\ Move(c, "touching")
  /\ UNCHANGED <<stage, proxies, busy, pos, release, nodeUp, chain, httpProxy, eventVars>>

\* wrapRequestWithMiddleware: the last one of the list comes first.
Touched(c) ==
  /\ pc[c] = "touching"
  /\ Move(c, "chain")
  /\ pos' = [pos EXCEPT ![c] = Middlewares]
  /\ UNCHANGED <<stage, proxies, busy, release, nodeUp, chain, httpProxy, eventVars>>

\* A middleware calls the next one, answers itself, or throws: then nobody
\* calls the next one.
RunMiddleware(c) ==
  /\ pc[c] = "chain" /\ pos[c] > 0
  /\ \/ chain[pos[c]] = "pass" /\ pos' = [pos EXCEPT ![c] = @ - 1] /\ UNCHANGED pc
     \/ chain[pos[c]] = "answer" /\ Move(c, "answered") /\ UNCHANGED pos
     \/ chain[pos[c]] = "throw" /\ Move(c, "lost") /\ UNCHANGED pos
  /\ UNCHANGED <<stage, proxies, busy, release, nodeUp, chain, httpProxy, eventVars>>

StartRelease(c) == release' = [release EXCEPT ![c] = "running"]

\* defaultHandler.  Without an HTTP proxy the release of a DELETE starts while
\* the node has yet to answer.
DefaultHandler(c) ==
  /\ pc[c] = "chain" /\ pos[c] = 0
  /\ IF SessionOf[c] \notin proxies THEN Move(c, "local") /\ UNCHANGED release
     ELSE IF httpProxy THEN Move(c, "axios") /\ UNCHANGED release
     ELSE /\ Move(c, "proxied")
          /\ IF c \in Deletes THEN StartRelease(c) ELSE UNCHANGED release
  /\ UNCHANGED <<stage, proxies, busy, pos, nodeUp, chain, httpProxy, eventVars>>

\* The node answers the proxy, or the proxy answers for it.
NodeAnswers(c) ==
  /\ pc[c] = "proxied"
  /\ Move(c, "answered")
  /\ UNCHANGED <<stage, proxies, busy, pos, release, nodeUp, chain, httpProxy, eventVars>>

\* The answer by way of the HTTP proxy; the release starts after it.
AxiosAnswers(c) ==
  /\ pc[c] = "axios" /\ nodeUp
  /\ Move(c, "answered")
  /\ IF c \in Deletes THEN StartRelease(c) ELSE UNCHANGED release
  /\ UNCHANGED <<stage, proxies, busy, pos, nodeUp, chain, httpProxy, eventVars>>

\* axios rejects, and nobody catches it.
AxiosRejects(c) ==
  /\ pc[c] = "axios" /\ ~nodeUp
  /\ Move(c, "lost")
  /\ UNCHANGED <<stage, proxies, busy, pos, release, nodeUp, chain, httpProxy, eventVars>>

\* A mutant: a session that is not known gets no answer.
LocalAnswersOwn(c) ==
  /\ pc[c] = "local" /\ SessionOf[c] \in Own
  /\ Move(c, "answered")
  /\ \/ c \in Deletes /\ busy' = busy \ {SessionOf[c]}
     \/ (c \notin Deletes \/ "disk" \in Env) /\ UNCHANGED busy
  /\ UNCHANGED <<stage, proxies, pos, release, nodeUp, chain, httpProxy, eventVars>>

\* Appium's own handling: it knows its own sessions and no others.
LocalAnswers(c) ==
  /\ pc[c] = "local"
  /\ Move(c, "answered")
  /\ \/ c \in Deletes /\ busy' = busy \ ({SessionOf[c]} \cap Own)
     \/ (c \notin Deletes \/ "disk" \in Env) /\ UNCHANGED busy
  /\ UNCHANGED <<stage, proxies, pos, release, nodeUp, chain, httpProxy, eventVars>>

\* A mutant: the handler stays.
ReleasedRow(c) ==
  /\ release[c] = "running"
  /\ release' = [release EXCEPT ![c] = "done"]
  /\ busy' = busy \ {SessionOf[c]}
  /\ UNCHANGED <<stage, proxies, pc, pos, nodeUp, chain, httpProxy, eventVars>>

\* The release has cleared the row; the handler goes after it.
Released(c) ==
  /\ release[c] = "running"
  /\ release' = [release EXCEPT ![c] = "done"]
  /\ busy' = busy \ {SessionOf[c]}
  /\ proxies' = proxies \ {SessionOf[c]}
  /\ UNCHANGED <<stage, pc, pos, nodeUp, chain, httpProxy, eventVars>>

\* The file cannot be written, which is only logged: the row stays busy, and
\* the handler goes all the same.
ReleaseFails(c) ==
  /\ "disk" \in Env
  /\ release[c] = "running"
  /\ release' = [release EXCEPT ![c] = "failed"]
  /\ proxies' = proxies \ {SessionOf[c]}
  /\ UNCHANGED <<stage, busy, pc, pos, nodeUp, chain, httpProxy, eventVars>>

----------------------------------------------------------------------------
(* Others. *)

\* A mutant: the cron job removes the handler, too.
ReapHandler(s) ==
  /\ "reap" \in Env /\ MayCommand
  /\ stage[s] = "open" /\ s \in busy
  /\ busy' = busy \ {s} /\ proxies' = proxies \ {s}
  /\ UNCHANGED <<stage, pc, pos, release, nodeUp, chain, httpProxy, eventVars>>

\* The cron job releases the device and knows nothing of the handler.
Reap(s) ==
  /\ "reap" \in Env /\ MayCommand
  /\ stage[s] = "open" /\ s \in busy
  /\ busy' = busy \ {s}
  /\ UNCHANGED <<stage, proxies, pc, pos, release, nodeUp, chain, httpProxy, eventVars>>

NodeGoesDown ==
  /\ "down" \in Env /\ MayCommand
  /\ nodeUp /\ nodeUp' = FALSE
  /\ UNCHANGED <<stage, proxies, busy, pc, pos, release, chain, httpProxy, eventVars>>

----------------------------------------------------------------------------
(* Test events: tests and hooks alike. *)

\* saveTestExecutionMetaData, "started": one event per session is remembered.
PostStart(e) ==
  /\ stage[SessionOf[e]] = "open" /\ MayPost
  /\ "start" \notin posted[e]
  /\ posted' = [posted EXCEPT ![e] = @ \cup {"start"}]
  /\ last' = [last EXCEPT ![e] = "start"]
  /\ pending' = [pending EXCEPT ![SessionOf[e]] = e]
  /\ latest' = [latest EXCEPT ![SessionOf[e]] = e]
  /\ writes' = [writes EXCEPT ![<<e, "create">>] = "running"]
  /\ UNCHANGED <<commandVars, journal>>

\* A mutant: what the session has is forgotten, whatever it is.
ForgetAny(map, e) == [map EXCEPT ![SessionOf[e]] = None]

\* removeEventIdFromCache: the first key with this value.
Forget(map, e) ==
  IF \E s \in Sessions : map[s] = e
  THEN [map EXCEPT ![CHOOSE s \in Sessions : map[s] = e] = None] ELSE map

\* "finished": the client posts it when its "started" has been answered.
PostFinish(e) ==
  /\ stage[SessionOf[e]] = "open" /\ MayPost
  /\ "finish" \notin posted[e]
  /\ ("start" \in posted[e] /\ writes[<<e, "create">>] # "running") \/ "reorder" \in Env
  /\ posted' = [posted EXCEPT ![e] = @ \cup {"finish"}]
  /\ last' = [last EXCEPT ![e] = "finish"]
  /\ pending' = Forget(pending, e)
  /\ writes' = [writes EXCEPT ![<<e, "update">>] = "running"]
  /\ UNCHANGED <<commandVars, latest, journal>>

Written(e, op, result) ==
  /\ writes[<<e, op>>] = "running"
  /\ writes' = [writes EXCEPT ![<<e, op>>] = result]
  /\ UNCHANGED <<commandVars, pending, posted, last, latest>>

\* createTestEventInDB, createHookEventInDB.
Created(e) ==
  /\ Written(e, "create", "saved")
  /\ journal' = [journal EXCEPT ![e] = "started"]

\* A mutant: only an event that is remembered is updated.
UpdatedIfRemembered(e) ==
  /\ journal[e] # "none"
  /\ Written(e, "update", "saved")
  /\ journal' = IF pending[SessionOf[e]] # e THEN journal ELSE [journal EXCEPT ![e] = "finished"]

\* updateTestEventInDB, updateHookEventInDB.
Updated(e) ==
  /\ journal[e] # "none"
  /\ Written(e, "update", "saved")
  /\ journal' = [journal EXCEPT ![e] = "finished"]

\* Any of the four rejects: the client gets a 500, and nothing is tried again.
WriteRefused(e) ==
  /\ "db" \in Env
  /\ \E op \in {"create", "update"} : Written(e, op, "refused")
  /\ UNCHANGED journal

\* An update rejects, too, when there is no record.
RecordUnknown(e) ==
  /\ journal[e] = "none"
  /\ Written(e, "update", "unknown")
  /\ UNCHANGED journal

----------------------------------------------------------------------------

Steps(c) ==
  \/ Touched(c) \/ RunMiddleware(c) \/ DefaultHandler(c) \/ NodeAnswers(c)
  \/ AxiosAnswers(c) \/ AxiosRejects(c) \/ LocalAnswers(c)

Writes(e) == Created(e) \/ Updated(e) \/ WriteRefused(e) \/ RecordUnknown(e)

Next ==
  \/ \E s \in Sessions : AddProxyHandler(s) \/ AnswerClient(s) \/ Reap(s)
  \/ \E c \in Commands : Arrive(c) \/ Steps(c)
  \/ \E c \in Deletes : Released(c) \/ ReleaseFails(c)
  \/ NodeGoesDown
  \/ \E e \in Events : PostStart(e) \/ PostFinish(e) \/ Writes(e)

Spec == Init /\ [][Next]_vars

\* The event loop: handlers that are under way go on, and the node, axios, the
\* file and the database answer.
FairSpec ==
  /\ Spec
  /\ \A c \in Commands : WF_vars(Steps(c))
  /\ \A c \in Deletes : WF_vars(Released(c) \/ ReleaseFails(c))
  /\ \A e \in Events : WF_vars(Writes(e))

----------------------------------------------------------------------------
(* Properties. *)

\* A command of a session on the node is handed to the hub's own Appium, which
\* does not know the session, only after the session's DELETE has been handled
\* and its release is over: from the client's first command on the handler is
\* there, whatever became of the device's row.  A command of the hub's own
\* session is never sent away.
CommandsReachTheirHost ==
  \A c \in Commands :
    LET s == SessionOf[c]
    IN /\ pc[c] = "local" /\ s \notin Own =>
            \E d \in Deletes : SessionOf[d] = s /\ release[d] \in {"done", "failed"}
       /\ pc[c] \in {"proxied", "axios"} => s \notin Own

\* Every command is answered, unless a middleware throws, or the node is away and
\* an HTTP proxy is set: a rejected axios call is caught by nobody.
EveryCommandAnswered ==
  \A c \in Commands :
    pc[c] = "touching" ~>
      \/ pc[c] = "answered"
      \/ \E i \in DOMAIN chain : chain[i] = "throw"
      \/ httpProxy /\ ~nodeUp

\* A DELETE that gets past the middlewares ends with the device free and the
\* handler gone, even when the node is away - unless the utilisation time cannot
\* be written, or an HTTP proxy keeps the DELETE from being answered.
DeleteFreesDevice ==
  \A c \in Deletes :
    pc[c] \in {"proxied", "axios"} ~>
      \/ SessionOf[c] \notin busy \cup proxies
      \/ release[c] = "failed"
      \/ httpProxy /\ ~nodeUp

\* The event remembered for a session is the one whose start the hub has handled
\* last, until it handles the end of the same event: the end of another event,
\* within which it started or which started before it, does not make the hub
\* forget it.  The start of an event makes it forget the one before, for good.
RememberedIsRunning ==
  \A s \in Sessions :
    pending[s] = IF latest[s] # None /\ last[latest[s]] = "start" THEN latest[s] ELSE None

\* An end that the hub handles when the event's record is there is recorded in the
\* end, whatever the hub remembers of the event by then - unless the database
\* refuses the update.
EndIsRecorded ==
  \A e \in Events :
    writes[<<e, "create">>] = "saved" /\ writes[<<e, "update">>] = "running" ~>
      journal[e] = "finished" \/ writes[<<e, "update">>] = "refused"
====
