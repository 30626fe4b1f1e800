------------------------- MODULE SessionTraffic_proofs -------------------------
(***************************************************************************)
(* The invariants of SessionTraffic, for any sessions, commands, events    *)
(* and middlewares, and for every Env.                                     *)
(***************************************************************************)
EXTENDS SessionTraffic, TLAPS

----------------------------------------------------------------------------
(* Types. *)

\* What Forget does to a map of pending events leaves it one.
LEMMA ForgetTyped ==
  ASSUME NEW map \in [Sessions -> Events \cup {None}], NEW e
  PROVE  Forget(map, e) \in [Sessions -> Events \cup {None}]
BY DEF Forget

\* The initial state is type correct.
LEMMA InitTyped == ASSUME TrafficAssumption, Init PROVE TrafficTypeOK
BY SMT DEF TrafficAssumption, Init, TrafficTypeOK, None

\* The steps of a session and of the node keep the types.
LEMMA OthersTyped ==
  ASSUME TrafficAssumption, TrafficTypeOK,
         NodeGoesDown \/ \E s \in Sessions : AddProxyHandler(s) \/ AnswerClient(s) \/ Reap(s)
  PROVE  TrafficTypeOK'
<1>1. CASE NodeGoesDown
  BY <1>1 DEF TrafficTypeOK, NodeGoesDown, eventVars
<1>2. ASSUME NEW s \in Sessions, AddProxyHandler(s) PROVE TrafficTypeOK'
  BY <1>2 DEF TrafficTypeOK, AddProxyHandler, eventVars
<1>3. ASSUME NEW s \in Sessions, AnswerClient(s) PROVE TrafficTypeOK'
  BY <1>3 DEF TrafficTypeOK, AnswerClient, eventVars
<1>4. ASSUME NEW s \in Sessions, Reap(s) PROVE TrafficTypeOK'
  BY <1>4 DEF TrafficTypeOK, Reap, eventVars
<1> QED BY <1>1, <1>2, <1>3, <1>4

\* The steps of a command keep the types.
LEMMA CommandTyped ==
  ASSUME TrafficAssumption, TrafficTypeOK, NEW c \in Commands, Arrive(c) \/ Steps(c)
  PROVE  TrafficTypeOK'
<1> USE DEF TrafficTypeOK, Move, eventVars
<1>1. CASE Arrive(c)
  BY <1>1 DEF Arrive
<1>2. CASE Touched(c)
  BY <1>2 DEF Touched, TrafficAssumption
<1>3. CASE RunMiddleware(c)
  <2>1. pos' \in [Commands -> 0 .. Middlewares]
    <3>1. Middlewares \in Nat /\ pos[c] \in 0 .. Middlewares /\ pos[c] > 0
      BY <1>3 DEF RunMiddleware, TrafficAssumption
    <3>2. pos[c] - 1 \in 0 .. Middlewares
      BY <3>1
    <3>3. pos' = pos \/ pos' = [pos EXCEPT ![c] = pos[c] - 1]
      BY <1>3 DEF RunMiddleware
    <3> QED BY <3>2, <3>3
  <2>2. pc' \in [Commands -> {"idle", "touching", "chain", "proxied", "axios", "local",
                             "answered", "lost"}]
    <3>1. pc' = pc \/ \E w \in {"answered", "lost"} : pc' = [pc EXCEPT ![c] = w]
      BY <1>3 DEF RunMiddleware
    <3> QED BY <3>1
  <2> QED BY <1>3, <2>1, <2>2 DEF RunMiddleware
<1>4. CASE DefaultHandler(c)
  <2>1. pc' \in [Commands -> {"idle", "touching", "chain", "proxied", "axios", "local",
                             "answered", "lost"}]
    <3>1. \E w \in {"local", "axios", "proxied"} : pc' = [pc EXCEPT ![c] = w]
      BY <1>4 DEF DefaultHandler
    <3> QED BY <3>1
  <2>2. release' \in [Deletes -> {"none", "running", "done", "failed"}]
    <3>1. UNCHANGED release \/ StartRelease(c)
      BY Zenon, <1>4 DEF DefaultHandler
    <3> QED BY ONLY <3>1, TrafficTypeOK DEF TrafficTypeOK, StartRelease
  <2> QED BY <1>4, <2>1, <2>2 DEF DefaultHandler
<1>5. CASE NodeAnswers(c)
  BY <1>5 DEF NodeAnswers
<1>6. CASE AxiosAnswers(c)
  BY <1>6 DEF AxiosAnswers, StartRelease
<1>7. CASE AxiosRejects(c)
  BY <1>7 DEF AxiosRejects
<1>8. CASE LocalAnswers(c)
  BY <1>8 DEF LocalAnswers
<1> QED BY <1>1, <1>2, <1>3, <1>4, <1>5, <1>6, <1>7, <1>8 DEF Steps

\* The steps of a release keep the types.
LEMMA ReleaseTyped ==
  ASSUME TrafficTypeOK, NEW c \in Deletes, Released(c) \/ ReleaseFails(c)
  PROVE  TrafficTypeOK'
<1>1. CASE Released(c)
  BY <1>1 DEF TrafficTypeOK, Released, eventVars
<1>2. CASE ReleaseFails(c)
  BY <1>2 DEF TrafficTypeOK, ReleaseFails, eventVars
<1> QED BY <1>1, <1>2

\* The steps of a test event keep the types.
LEMMA EventTyped ==
  ASSUME TrafficAssumption, TrafficTypeOK, NEW e \in Events,
         PostStart(e) \/ PostFinish(e) \/ Writes(e)
  PROVE  TrafficTypeOK'
<1> USE DEF TrafficTypeOK, commandVars
<1> USE DEF Write, Written
<1>1. CASE PostStart(e)
  BY <1>1 DEF PostStart, TrafficAssumption
<1>2. CASE PostFinish(e)
  BY <1>2, ForgetTyped DEF PostFinish
<1>3. CASE Created(e)
  BY <1>3 DEF Created
<1>4. CASE Updated(e)
  BY <1>4 DEF Updated
<1>5. CASE WriteRefused(e)
  BY <1>5 DEF WriteRefused
<1>6. CASE RecordUnknown(e)
  BY <1>6 DEF RecordUnknown
<1> QED BY <1>1, <1>2, <1>3, <1>4, <1>5, <1>6 DEF Writes

\* Every step keeps the types.
LEMMA NextTyped ==
  ASSUME TrafficAssumption, TrafficTypeOK, [Next]_vars PROVE TrafficTypeOK'
<1>1. CASE UNCHANGED vars
  BY <1>1 DEF TrafficTypeOK, vars, commandVars, eventVars
<1>2. CASE Next
  BY <1>2, OthersTyped, CommandTyped, ReleaseTyped, EventTyped DEF Next
<1> QED BY <1>1, <1>2

\* Every reachable state is type correct: among others no session of the hub's
\* own ever has a handler in remoteProxyMap.
THEOREM TrafficTyped == ASSUME TrafficAssumption PROVE Spec => []TrafficTypeOK
<1>1. Init => TrafficTypeOK
  BY InitTyped
<1>2. TrafficTypeOK /\ [Next]_vars => TrafficTypeOK'
  BY NextTyped
<1> QED BY <1>1, <1>2, PTL DEF Spec

----------------------------------------------------------------------------
(* Commands. *)

\* The DELETE of a session has been handled and its release is over.
Ended(s) == \E d \in Deletes : SessionOf[d] = s /\ release[d] \in {"done", "failed"}

\* A session on a node has its handler from before the client's answer to the
\* end of its release; a client has no session to send commands of before; a
\* command is passed on for a session on a node only, and it starts one release.
RoutesInv ==
  /\ \A s \in Sessions \ Own : s \in proxies \/ stage[s] = "creating" \/ Ended(s)
  /\ \A c \in Commands : pc[c] # "idle" => stage[SessionOf[c]] = "open"
  /\ \A c \in Deletes : pc[c] \in {"idle", "touching", "chain", "axios"} => release[c] = "none"

\* A command handed to the hub's Appium has its reason, and keeps it.
Sound(c) ==
  /\ pc[c] = "local" /\ SessionOf[c] \notin Own => Ended(SessionOf[c])
  /\ pc[c] \in {"proxied", "axios"} => SessionOf[c] \notin Own

TrafficInv == TrafficTypeOK /\ RoutesInv /\ \A c \in Commands : Sound(c)

\* Steps that leave the releases alone leave the reasons alone.
LEMMA EndedStays ==
  ASSUME NEW s, UNCHANGED release PROVE Ended(s)' <=> Ended(s)
BY DEF Ended

\* A release that starts is not the one that has given a reason.
LEMMA EndedStaysAsReleaseStarts ==
  ASSUME TrafficTypeOK, NEW c \in Deletes, release[c] = "none", StartRelease(c), NEW s, Ended(s)
  PROVE  Ended(s)'
<1>1. PICK d \in Deletes : SessionOf[d] = s /\ release[d] \in {"done", "failed"}
  BY DEF Ended
<1>2. d # c
  BY <1>1
<1>3. release'[d] = release[d]
  BY <1>2 DEF StartRelease, TrafficTypeOK
<1> QED BY <1>1, <1>3 DEF Ended

\* The steps of a session and of the node keep the routes.
LEMMA OthersRoute ==
  ASSUME TrafficInv,
         NodeGoesDown \/ \E s \in Sessions : AddProxyHandler(s) \/ AnswerClient(s) \/ Reap(s)
  PROVE  RoutesInv' /\ \A c \in Commands : Sound(c)'
<1> DEFINE Kept == RoutesInv' /\ \A c \in Commands : Sound(c)'
<1> USE DEF TrafficInv, TrafficTypeOK, RoutesInv, Sound, Ended
<1>1. CASE NodeGoesDown
  BY <1>1 DEF NodeGoesDown
<1>2. ASSUME NEW s \in Sessions, AddProxyHandler(s) PROVE Kept
  BY <1>2 DEF AddProxyHandler
<1>3. ASSUME NEW s \in Sessions, AnswerClient(s) PROVE Kept
  BY <1>3 DEF AnswerClient
<1>4. ASSUME NEW s \in Sessions, Reap(s) PROVE Kept
  BY <1>4 DEF Reap
<1> QED BY <1>1, <1>2, <1>3, <1>4

\* The steps of a command keep the routes.
LEMMA CommandRoutes ==
  ASSUME TrafficAssumption, TrafficInv, NEW c \in Commands, Arrive(c) \/ Steps(c)
  PROVE  RoutesInv' /\ \A x \in Commands : Sound(x)'
<1> USE DEF TrafficInv, TrafficTypeOK, RoutesInv, Sound, Move
<1>0. SessionOf[c] \in Sessions /\ Deletes \subseteq Commands
  BY DEF TrafficAssumption
<1>1. CASE Arrive(c)
  BY <1>0, <1>1, EndedStays DEF Arrive
<1>2. CASE Touched(c)
  BY <1>0, <1>2, EndedStays DEF Touched
<1>3. CASE RunMiddleware(c)
  BY <1>0, <1>3, EndedStays DEF RunMiddleware
<1>4. CASE DefaultHandler(c)
  <2>1. \A s : Ended(s) => Ended(s)'
    BY <1>4, EndedStays, EndedStaysAsReleaseStarts DEF DefaultHandler
  <2>2. \A d \in Deletes : d # c => release'[d] = release[d]
    BY <1>4 DEF DefaultHandler, StartRelease
  <2>3. RoutesInv'
    BY <1>0, <1>4, <2>1, <2>2 DEF DefaultHandler
  <2>4. \A x \in Commands : x # c => Sound(x)'
    BY <1>4, <2>1 DEF DefaultHandler
  <2>5. Sound(c)'
    <3>1. CASE SessionOf[c] \notin proxies
      <4>1. stage[SessionOf[c]] = "open" /\ pc' = [pc EXCEPT ![c] = "local"]
        BY <1>4, <3>1 DEF DefaultHandler
      <4>2. SessionOf[c] \notin Own => Ended(SessionOf[c])
        BY <1>0, <3>1, <4>1
      <4> QED BY <2>1, <4>1, <4>2
    <3>2. CASE SessionOf[c] \in proxies
      <4>1. \E w \in {"proxied", "axios"} : pc' = [pc EXCEPT ![c] = w]
        BY <1>4, <3>2 DEF DefaultHandler
      <4> QED BY <3>2, <4>1
    <3> QED BY <3>1, <3>2
  <2> QED BY <2>3, <2>4, <2>5
<1>5. CASE NodeAnswers(c)
  BY <1>0, <1>5, EndedStays DEF NodeAnswers
<1>6. CASE AxiosAnswers(c)
  <2>1. \A s : Ended(s) => Ended(s)'
    BY <1>6, EndedStays, EndedStaysAsReleaseStarts DEF AxiosAnswers
  <2>2. \A d \in Deletes : d # c => release'[d] = release[d]
    BY <1>6 DEF AxiosAnswers, StartRelease
  <2> QED BY <1>0, <1>6, <2>1, <2>2 DEF AxiosAnswers
<1>7. CASE AxiosRejects(c)
  BY <1>0, <1>7, EndedStays DEF AxiosRejects
<1>8. CASE LocalAnswers(c)
  BY <1>0, <1>8, EndedStays DEF LocalAnswers
<1> QED BY <1>1, <1>2, <1>3, <1>4, <1>5, <1>6, <1>7, <1>8 DEF Steps

\* The end of a release gives the reason as it takes the handler.
LEMMA ReleaseRoutes ==
  ASSUME TrafficAssumption, TrafficInv, NEW c \in Deletes, Released(c) \/ ReleaseFails(c)
  PROVE  RoutesInv' /\ \A x \in Commands : Sound(x)'
<1> USE DEF TrafficInv, TrafficTypeOK, RoutesInv, Sound, Ended, TrafficAssumption
<1>1. CASE Released(c)
  BY <1>1 DEF Released
<1>2. CASE ReleaseFails(c)
  BY <1>2 DEF ReleaseFails
<1> QED BY <1>1, <1>2

\* Every step keeps the invariant.
LEMMA NextRoutes == ASSUME TrafficAssumption, TrafficInv, [Next]_vars PROVE TrafficInv'
<1> DEFINE Kept == RoutesInv' /\ \A c \in Commands : Sound(c)'
<1>1. TrafficTypeOK'
  BY NextTyped DEF TrafficInv
<1>2. ASSUME UNCHANGED commandVars PROVE Kept
  BY <1>2 DEF TrafficInv, RoutesInv, Sound, Ended, commandVars
<1>3. CASE \E e \in Events : PostStart(e) \/ PostFinish(e) \/ Writes(e)
  BY <1>1, <1>2, <1>3 DEF PostStart, PostFinish, Writes, Written, Created, Updated, WriteRefused,
     RecordUnknown, TrafficInv
<1>4. CASE UNCHANGED vars
  BY <1>1, <1>2, <1>4 DEF vars, TrafficInv
<1>5. CASE \E c \in Commands : Arrive(c) \/ Steps(c)
  BY <1>1, <1>5, CommandRoutes DEF TrafficInv
<1>6. CASE \E c \in Deletes : Released(c) \/ ReleaseFails(c)
  BY <1>1, <1>6, ReleaseRoutes DEF TrafficInv
<1>7. CASE NodeGoesDown \/ \E s \in Sessions : AddProxyHandler(s) \/ AnswerClient(s) \/ Reap(s)
  BY <1>1, <1>7, OthersRoute DEF TrafficInv
<1> QED BY <1>3, <1>4, <1>5, <1>6, <1>7 DEF Next

\* Nothing has arrived in the initial state.
LEMMA InitRoutes == ASSUME TrafficAssumption, Init PROVE TrafficInv
<1>1. TrafficTypeOK
  BY InitTyped
<1>2. RoutesInv /\ \A c \in Commands : Sound(c)
  BY DEF Init, RoutesInv, Sound, TrafficAssumption
<1> QED BY <1>1, <1>2 DEF TrafficInv

\* Every command reaches the host of its session: the handler of a session on a
\* node is there until the release of a DELETE is over, whatever the cron job,
\* the middlewares, the disk and the node do.
THEOREM CommandsAreRouted ==
  ASSUME TrafficAssumption PROVE Spec => []CommandsReachTheirHost
<1>1. Init => TrafficInv
  BY InitRoutes
<1>2. TrafficInv /\ [Next]_vars => TrafficInv'
  BY NextRoutes
<1>3. TrafficInv => CommandsReachTheirHost
  BY DEF TrafficInv, Sound, Ended, CommandsReachTheirHost
<1> QED BY <1>1, <1>2, <1>3, PTL DEF Spec

----------------------------------------------------------------------------
(* Test events. *)

\* The event that started last in a session is one of this session, so that an
\* event is remembered for its own session alone and its end finds all there is to
\* forget.
PendingInv ==
  /\ RememberedIsRunning
  /\ \A s \in Sessions : latest[s] # None =>
       SessionOf[latest[s]] = s

\* Forgetting an event forgets it for its session, and nothing else.
LEMMA ForgetForgets ==
  ASSUME NEW map \in [Sessions -> Events \cup {None}], NEW e,
         \A s \in Sessions : map[s] # None => SessionOf[map[s]] = s
  PROVE  \A s \in Sessions : Forget(map, e)[s] = IF map[s] = e THEN None ELSE map[s]
<1>1. CASE e = None
  BY <1>1 DEF Forget
<1>2. CASE ~ \E s \in Sessions : map[s] = e
  BY <1>2 DEF Forget
<1>3. CASE e # None /\ \E s \in Sessions : map[s] = e
  <2> DEFINE k == CHOOSE s \in Sessions : map[s] = e
  <2>1. k \in Sessions /\ map[k] = e
    BY <1>3
  <2>2. Forget(map, e) = [map EXCEPT ![k] = None]
    BY <1>3 DEF Forget
  <2> HIDE DEF k
  <2>3. \A s \in Sessions : map[s] = e => s = k
    BY <1>3, <2>1
  <2> QED BY <2>1, <2>2, <2>3
<1> QED BY <1>1, <1>2, <1>3

\* Every step keeps the invariant.
LEMMA NextPending ==
  ASSUME TrafficAssumption, TrafficTypeOK, PendingInv, [Next]_vars PROVE PendingInv'
<1> USE DEF TrafficTypeOK, PendingInv, RememberedIsRunning, TrafficAssumption
<1>1. ASSUME UNCHANGED <<pending, last, latest>> PROVE PendingInv'
  BY <1>1
<1>2. ASSUME NEW e \in Events, PostStart(e) PROVE PendingInv'
  BY <1>2 DEF PostStart
<1>3. ASSUME NEW e \in Events, PostFinish(e) PROVE PendingInv'
  <2>1. \A s \in Sessions : pending'[s] = IF pending[s] = e THEN None ELSE pending[s]
    <3>1. \A s \in Sessions : pending[s] # None => SessionOf[pending[s]] = s
      OBVIOUS
    <3>2. pending \in [Sessions -> Events \cup {None}] /\ pending' = Forget(pending, e)
      BY <1>3 DEF PostFinish
    <3> QED BY ONLY <3>1, <3>2, ForgetForgets
  <2>2. /\ latest' = latest
        /\ \A x \in Events : last'[x] = IF x = e THEN "finish" ELSE last[x]
    BY <1>3 DEF PostFinish
  <2>3. \A s \in Sessions : latest[s] # None => latest[s] \in Events
    OBVIOUS
  <2>4. \A s \in Sessions : pending[s] = IF latest[s] # None /\ last[latest[s]] = "start"
                                         THEN latest[s] ELSE None
    OBVIOUS
  <2>6. "finish" # "start"
    OBVIOUS
  <2>5. ASSUME NEW s \in Sessions
        PROVE  pending'[s] = IF latest[s] # None /\ last'[latest[s]] = "start"
                             THEN latest[s] ELSE None
    <3> DEFINE x == latest[s]
               y == pending[s]
               z == pending'[s]
    <3>1. /\ z = IF y = e THEN None ELSE y
          /\ y = IF x # None /\ last[x] = "start" THEN x ELSE None
          /\ x # None => last'[x] = IF x = e THEN "finish" ELSE last[x]
      BY ONLY <2>1, <2>2, <2>3, <2>4, <1>3, s \in Sessions
    <3> HIDE DEF x, y, z
    <3>2. z = IF x # None /\ last'[x] = "start" THEN x ELSE None
      BY ONLY <3>1, <2>6
    <3> QED BY ONLY <3>2 DEF x, z
  <2> QED BY <2>2, <2>5
<1>4. CASE \E e \in Events : Writes(e)
  BY <1>1, <1>4 DEF Writes, Written, Created, Updated, WriteRefused, RecordUnknown
<1>5. CASE \/ NodeGoesDown
           \/ \E s \in Sessions : AddProxyHandler(s) \/ AnswerClient(s) \/ Reap(s)
           \/ \E c \in Deletes : Released(c) \/ ReleaseFails(c)
  BY <1>1, <1>5 DEF NodeGoesDown, AddProxyHandler, AnswerClient, Reap, Released, ReleaseFails,
     eventVars
<1>6. CASE \E c \in Commands : Arrive(c) \/ Steps(c)
  BY <1>1, <1>6 DEF Arrive, Steps, Touched, RunMiddleware, DefaultHandler, NodeAnswers,
     AxiosAnswers, AxiosRejects, LocalAnswers, eventVars
<1>7. CASE UNCHANGED vars
  BY <1>1, <1>7 DEF vars, eventVars
<1> QED BY <1>2, <1>3, <1>4, <1>5, <1>6, <1>7 DEF Next

\* The event remembered for a session is the one that started last, until its own
\* end: however tests and hooks are nested, in whatever order their posts arrive,
\* and whatever the database does.
THEOREM RememberedRun == ASSUME TrafficAssumption PROVE Spec => []RememberedIsRunning
<1>1. Init => TrafficTypeOK /\ PendingInv
  BY InitTyped DEF Init, PendingInv, RememberedIsRunning
<1>2. TrafficTypeOK /\ PendingInv /\ [Next]_vars => (TrafficTypeOK /\ PendingInv)'
  BY NextTyped, NextPending
<1>3. PendingInv => RememberedIsRunning
  BY DEF PendingInv
<1> QED BY <1>1, <1>2, <1>3, PTL DEF Spec
====
