--------------------------- MODULE IosTracking_proofs ---------------------------
(***************************************************************************)
(* How far the host's table can be from the devices, for any devices, any  *)
(* messages and chunks, any number of listings, and any environment.       *)
(***************************************************************************)
EXTENDS IosTracking, UsbmuxStream_proofs

----------------------------------------------------------------------------
(* Types and the bookkeeping of listings.                                   *)

\* A device has messages.
LEMMA MessagesTyped ==
  ASSUME NEW u \in Udids, NEW id \in Ids
  PROVE  /\ Attached(u, id) \in Message /\ Detached(u, id) \in Message
         /\ Paired(u, id) \in Message
BY DEF Attached, Detached, Paired, Message

\* A finite set makes a sequence that has each of its elements once.
LEMMA SetToSeqIsOne ==
  ASSUME NEW T, NEW S, S \subseteq T, IsFiniteSet(S)
  PROVE  /\ SetToSeq(S) \in Seq(T)
         /\ \A x : x \in S <=> \E i \in 1 .. Len(SetToSeq(S)) : SetToSeq(S)[i] = x
         /\ \A i, j \in 1 .. Len(SetToSeq(S)) : SetToSeq(S)[i] = SetToSeq(S)[j] => i = j
<1> DEFINE n == Cardinality(S)
<1>1. n \in Nat /\ ExistsBijection(1 .. n, S)
  BY FS_CardinalityType
<1>2. PICK b \in Bijection(1 .. n, S) : TRUE
  BY <1>1 DEF ExistsBijection
<1>3. b \in [1 .. n -> S] /\ IsInjective(b)
  BY <1>2 DEF Bijection, Injection, IsInjective
<1> DEFINE q == SetToSeq(S)
<1>4. q \in [1 .. n -> S] /\ IsInjective(q)
  BY <1>3 DEF SetToSeq
<1> HIDE DEF q
<1>5. q \in Injection(1 .. n, S)
  BY <1>4 DEF Injection
<1>6. q \in Surjection(1 .. n, S)
  <2>1. IsFiniteSet(1 .. n) /\ Cardinality(1 .. n) = n
    BY <1>1, FS_Interval
  <2> QED BY <1>5, <2>1, FS_Injection
<1>7. q \in Seq(T) /\ Len(q) = n
  BY <1>1, <1>4
<1>8. \A x : x \in S <=> \E i \in 1 .. n : q[i] = x
  BY <1>4, <1>6 DEF Surjection
<1>9. \A i, j \in 1 .. n : q[i] = q[j] => i = j
  BY <1>4 DEF IsInjective
<1> QED BY <1>7, <1>8, <1>9 DEF q

\* What a new tracker tells of the devices that are there.
News == SetToSeq({Attached(u, attached[u]) : u \in Present})

LEMMA NewsOfPresent ==
  ASSUME StreamAssumption, IosTypeOK
  PROVE  /\ News \in Seq(Message)
         /\ \A u \in Present : \E i \in 1 .. Len(News) : News[i] = Attached(u, attached[u])
         /\ \A i \in 1 .. Len(News) : \E u \in Present : News[i] = Attached(u, attached[u])
         /\ \A i, j \in 1 .. Len(News) : News[i].udid = News[j].udid => i = j
<1> DEFINE told == {Attached(u, attached[u]) : u \in Present}
           f == [u \in Present |-> Attached(u, attached[u])]
<1>1. Present \subseteq Udids /\ \A u \in Present : attached[u] \in Ids
  BY DEF IosTypeOK, Present, Ids
<1>2. told \subseteq Message
  BY <1>1, MessagesTyped
<1>3. IsFiniteSet(told)
  <2>1. IsFiniteSet(Present)
    BY <1>1, FS_Subset DEF StreamAssumption
  <2>2. f \in Surjection(Present, told)
    BY DEF Surjection
  <2> HIDE DEF told, f
  <2> QED BY <2>1, <2>2, FS_Surjection
<1>4. \A x \in told : \E u \in Present : x = Attached(u, attached[u])
  OBVIOUS
<1>5. \A u \in Present : Attached(u, attached[u]) \in told
  OBVIOUS
<1> HIDE DEF told
<1> DEFINE q == SetToSeq(told)
<1>6. /\ q \in Seq(Message)
      /\ \A x : x \in told <=> \E i \in 1 .. Len(q) : q[i] = x
      /\ \A i, j \in 1 .. Len(q) : q[i] = q[j] => i = j
  BY <1>2, <1>3, SetToSeqIsOne
<1> HIDE DEF q
<1>7. ASSUME NEW i \in 1 .. Len(q), NEW j \in 1 .. Len(q), q[i].udid = q[j].udid PROVE i = j
  <2>1. PICK u \in Present : q[i] = Attached(u, attached[u])
    BY <1>4, <1>6
  <2>2. PICK v \in Present : q[j] = Attached(v, attached[v])
    BY <1>4, <1>6
  <2>3. u = v
    BY <1>7, <2>1, <2>2 DEF Attached
  <2> QED BY <1>6, <2>1, <2>2, <2>3
<1>8. q = News
  BY DEF q, told, News
<1>9. \A u \in Present : \E i \in 1 .. Len(q) : q[i] = Attached(u, attached[u])
  BY <1>5, <1>6
<1>10. \A i \in 1 .. Len(q) : \E u \in Present : q[i] = Attached(u, attached[u])
  BY <1>4, <1>6
<1> QED BY <1>6, <1>7, <1>8, <1>9, <1>10

\* Each addition of the listeners is of one listing, and only a listing that is
\* under way has found devices, or asks for details before it has them stored.
Counted ==
  /\ listeners + (IF listing = "listing" THEN 1 ELSE 0) <= listings
  /\ listing = "idle" => found = {}
  /\ listing # "listing" => asked = {}

Typed == IosTypeOK /\ Counted

LEMMA InitTyped == ASSUME StreamAssumption, TrackingAssumption, Init PROVE Typed
<1>0. MaxId \in Nat /\ MaxListings \in Nat
  BY DEF StreamAssumption, TrackingAssumption
<1>1. StreamTypeOK
  <2>1. /\ sent = <<>> /\ pipe = <<>> /\ data = <<>> /\ len = 0 /\ msg = <<>>
        /\ cut = FALSE /\ heard = <<>> /\ devices = {}
    BY DEF Init, StreamInit
  <2>2. \A S : <<>> \in Seq(S)
    BY EmptySeq
  <2>3. sent \in Seq(Message) /\ pipe \in Seq(Cell) /\ data \in Seq(Cell) /\ msg \in Seq(Cell)
        /\ heard \in Seq(Message)
    BY <2>1, <2>2
  <2> QED BY <2>1, <2>3 DEF StreamTypeOK
<1>2. attached \in [Udids -> 0 .. MaxId] /\ nextId \in 1 .. MaxId + 1
  BY <1>0 DEF Init
<1>3. lines \in Seq(Message)
  BY DEF Init
<1> QED BY <1>0, <1>1, <1>2, <1>3 DEF Init, Typed, IosTypeOK, Counted

\* Handlers are counted.
LEMMA EmitTyped ==
  ASSUME IosTypeOK, NEW A, NEW R, Emit(A, R)
  PROVE  adding' \in [Udids -> Nat] /\ removing' \in [Udids -> Nat]
<1>1. /\ \A u \in Udids : adding[u] \in Nat /\ removing[u] \in Nat
      /\ listeners \in Nat
  BY DEF IosTypeOK
<1> QED BY <1>1 DEF Emit

\* The tracker's chunk.
LEMMA TrackTyped == ASSUME StreamAssumption, Typed, Track PROVE Typed'
<1>1. StreamTypeOK'
  BY ParseTyped, ReceiveTyped DEF Typed, IosTypeOK, Track
<1>2. adding' \in [Udids -> Nat] /\ removing' \in [Udids -> Nat]
  BY EmitTyped DEF Typed, IosTypeOK, Track, EmitFor, handlerVars
<1>3. spoiled' \subseteq Udids
  BY DEF Typed, IosTypeOK, Track
<1> QED BY <1>1, <1>2, <1>3 DEF Typed, IosTypeOK, Track, hostVars, Counted

\* Lines of go-ios.
LEMMA BatchTyped ==
  ASSUME StreamAssumption, Typed, NEW n \in 1 .. Len(lines), Batch(n) \/ BatchDropped(n)
  PROVE  Typed'
<1>0. lines \in Seq(Message) /\ StreamTypeOK
  BY DEF Typed, IosTypeOK
<1>1. lines' \in Seq(Message)
  <2>1. lines' = SubSeq(lines, n + 1, Len(lines)) /\ Len(lines) \in Nat
    BY <1>0 DEF Batch, BatchDropped
  <2> QED BY <1>0, <2>1
<1>2. CASE Batch(n)
  <2>1. ASSUME NEW m \in ToSet(SubSeq(lines, 1, n)) PROVE m \in Message
    BY <1>0 DEF ToSet
  <2>2. devices' \subseteq Udids \X Ids
    BY <1>0, <1>2, <2>1 DEF StreamTypeOK, Batch, Learnt, Message
  <2>3. StreamTypeOK'
    BY <1>0, <1>2, <2>2 DEF StreamTypeOK, Batch, parserVars
  <2>4. adding' \in [Udids -> Nat] /\ removing' \in [Udids -> Nat]
    BY <1>2, EmitTyped DEF Typed, Batch
  <2> QED BY <1>1, <1>2, <2>3, <2>4 DEF Typed, IosTypeOK, Batch, hostVars, Counted
<1>3. CASE BatchDropped(n)
  BY <1>1, <1>3 DEF Typed, IosTypeOK, StreamTypeOK, BatchDropped, streamVars, parserVars,
                    hostVars, handlerVars, Counted
<1> QED BY <1>2, <1>3

\* The listeners' handlers.
LEMMA HandlersTyped ==
  ASSUME Typed, NEW u \in Udids, Added(u) \/ InfoFails(u) \/ Removed(u) PROVE Typed'
<1>1. StreamTypeOK'
  BY DEF Typed, IosTypeOK, StreamTypeOK, Added, InfoFails, Removed, streamVars, parserVars
<1>2. adding' \in [Udids -> Nat] /\ removing' \in [Udids -> Nat]
  <2>1. adding \in [Udids -> Nat] /\ removing \in [Udids -> Nat]
    BY DEF Typed, IosTypeOK
  <2>2. CASE adding[u] > 0 /\ adding' = [adding EXCEPT ![u] = @ - 1] /\ removing' = removing
    BY <2>1, <2>2
  <2>3. CASE removing[u] > 0 /\ removing' = [removing EXCEPT ![u] = @ - 1] /\ adding' = adding
    BY <2>1, <2>3
  <2> QED BY <2>2, <2>3 DEF Added, InfoFails, Removed
<1>3. table' \subseteq Udids /\ spoiled' \subseteq Udids
  BY DEF Typed, IosTypeOK, Added, InfoFails, Removed, hostVars
<1> QED BY <1>1, <1>2, <1>3
        DEF Typed, IosTypeOK, Counted, Added, InfoFails, Removed, hostVars

\* The listings.
LEMMA ListingTyped ==
  ASSUME StreamAssumption, TrackingAssumption, Typed,
         List \/ ListFails \/ TrackDevices \/ ListStores
  PROVE  Typed'
<1>0. MaxListings \in Nat /\ listings \in Nat /\ listeners \in Nat
  BY DEF TrackingAssumption, Typed, IosTypeOK
<1>1. CASE List
  <2>1. found' \subseteq Udids /\ asked' \subseteq found'
    BY <1>1 DEF List, Present
  <2> QED BY <1>0, <1>1, <2>1 DEF Typed, IosTypeOK, StreamTypeOK, Counted, List, streamVars,
                                  parserVars, handlerVars
<1>2. CASE ListFails
  BY SMTT(30), <1>0, <1>2 DEF Typed, IosTypeOK, StreamTypeOK, Counted, ListFails, streamVars,
                    parserVars, handlerVars
<1>3. CASE TrackDevices
  <2>1. StreamTypeOK' /\ lines' \in Seq(Message)
    <3>1. News \in Seq(Message)
      BY NewsOfPresent DEF Typed
    <3>2. CASE UNCHANGED <<streamVars, lines>>
      BY <3>2 DEF Typed, IosTypeOK, StreamTypeOK, streamVars, parserVars
    <3>3. CASE Write(News) /\ UNCHANGED lines
      BY <3>1, <3>3, WriteTyped DEF Typed, IosTypeOK
    <3>4. CASE lines' = News /\ UNCHANGED streamVars
      BY <3>1, <3>4 DEF Typed, IosTypeOK, StreamTypeOK, streamVars, parserVars
    <3> QED BY <1>3, <3>2, <3>3, <3>4 DEF TrackDevices, News
  <2>2. conn' \in {"none", "open", "ended"}
    BY <1>3 DEF TrackDevices, Typed, IosTypeOK
  <2>3. listeners' \in 0 .. MaxListings /\ Counted'
    BY <1>0, <1>3 DEF TrackDevices, Typed, IosTypeOK, Counted
  <2> QED BY <1>3, <2>1, <2>2, <2>3 DEF Typed, IosTypeOK, TrackDevices, handlerVars
<1>4. CASE ListStores
  BY <1>0, <1>4 DEF Typed, IosTypeOK, StreamTypeOK, Counted, ListStores, streamVars,
                    parserVars, handlerVars
<1> QED BY <1>1, <1>2, <1>3, <1>4

\* What the tracker is told.
LEMMA ReportTyped ==
  ASSUME StreamAssumption, Typed, NEW m \in Message, Report(m)
  PROVE  StreamTypeOK' /\ lines' \in Seq(Message)
<1>0. StreamTypeOK /\ lines \in Seq(Message) /\ <<m>> \in Seq(Message)
  BY DEF Typed, IosTypeOK
<1>1. CASE UNCHANGED streamVars
  <2>1. lines' = lines \/ lines' = Append(lines, m)
    BY <1>1 DEF Report, Write, streamVars, parserVars
  <2>2. lines' \in Seq(Message)
    BY <1>0, <2>1
  <2> QED BY <1>0, <1>1, <2>2 DEF StreamTypeOK, streamVars, parserVars
<1>2. CASE Write(<<m>>) /\ UNCHANGED lines
  BY <1>0, <1>2, WriteTyped
<1> QED BY <1>1, <1>2 DEF Report

\* Devices come and go, and the tracker's process goes away.
LEMMA OutsideTyped == ASSUME StreamAssumption, Typed, Outside PROVE Typed'
<1>0. MaxId \in Nat
  BY DEF StreamAssumption
<1>1. ASSUME NEW u \in Udids, Plug(u) PROVE Typed'
  <2>1. nextId \in Ids
    BY <1>0, <1>1 DEF Plug, Typed, IosTypeOK, Ids
  <2>2. StreamTypeOK' /\ lines' \in Seq(Message)
    BY <1>1, <2>1, MessagesTyped, ReportTyped DEF Plug
  <2>3. attached' \in [Udids -> 0 .. MaxId] /\ nextId' \in 1 .. MaxId + 1
    BY <1>0, <1>1, <2>1 DEF Plug, Typed, IosTypeOK, Ids
  <2> QED BY <1>1, <2>2, <2>3 DEF Plug, Spoil, Typed, IosTypeOK, Counted, handlerVars
<1>2. ASSUME NEW u \in Udids, Unplug(u) PROVE Typed'
  <2>1. attached[u] \in Ids
    BY <1>0, <1>2 DEF Unplug, Typed, IosTypeOK, Ids
  <2>2. StreamTypeOK' /\ lines' \in Seq(Message)
    BY <1>2, <2>1, MessagesTyped, ReportTyped DEF Unplug
  <2>3. attached' \in [Udids -> 0 .. MaxId]
    BY <1>0, <1>2 DEF Unplug, Typed, IosTypeOK
  <2> QED BY <1>2, <2>2, <2>3 DEF Unplug, Spoil, Typed, IosTypeOK, Counted, handlerVars
<1>3. ASSUME NEW u \in Udids, Pair(u) PROVE Typed'
  <2>1. attached[u] \in Ids
    BY <1>0, <1>3 DEF Pair, Typed, IosTypeOK, Ids
  <2>2. StreamTypeOK' /\ lines' \in Seq(Message)
    BY <1>3, <2>1, MessagesTyped, ReportTyped DEF Pair
  <2> QED BY <1>3, <2>2 DEF Pair, Typed, IosTypeOK, Counted, hostVars, handlerVars
<1>4. CASE TrackerEnds
  BY <1>4 DEF TrackerEnds, Typed, IosTypeOK, StreamTypeOK, Counted, parserVars, handlerVars
<1> QED BY <1>1, <1>2, <1>3, <1>4 DEF Outside

LEMMA NextTyped ==
  ASSUME StreamAssumption, TrackingAssumption, Typed, [Next]_vars PROVE Typed'
<1>1. CASE UNCHANGED vars
  BY <1>1 DEF vars, streamVars, parserVars, hostVars, handlerVars, Typed, IosTypeOK,
              StreamTypeOK, Counted
<1> QED BY <1>1, TrackTyped, BatchTyped, HandlersTyped, ListingTyped, OutsideTyped
        DEF Next, Lines, Handlers, Listing

\* Types, for any devices and any bounds.
THEOREM IosTypes == Spec => []IosTypeOK
<1>1. Init => Typed
  BY InitTyped, StreamAssumption, TrackingAssumption
<1>2. Typed /\ [Next]_vars => Typed'
  BY NextTyped, StreamAssumption, TrackingAssumption
<1>3. Typed => IosTypeOK
  BY DEF Typed
<1> QED BY <1>1, <1>2, <1>3, PTL DEF Spec

----------------------------------------------------------------------------
(* The stream and the parser.                                               *)

Streamed == StreamInv /\ AllSent

LEMMA InitStreamed == ASSUME StreamAssumption, Init PROVE Streamed
<1>1. /\ sent = <<>> /\ pipe = <<>> /\ data = <<>> /\ len = 0 /\ msg = <<>> /\ heard = <<>>
      /\ Size \in Nat /\ Len(<<>>) = 0
  BY SizeType DEF Init, StreamInit
<1>2. Start = 0 /\ Size * Len(heard) = 0
  BY <1>1 DEF Start
<1>3. InOrder /\ HeardInOrder /\ Between /\ WholeHeaders
  BY <1>1, <1>2 DEF InOrder, HeardInOrder, Between, WholeHeaders
<1>4. AllSent
  BY <1>1 DEF AllSent
<1> QED BY <1>3, <1>4 DEF Streamed, StreamInv

\* Steps that leave the stream alone.
LEMMA StreamLeftAlone ==
  ASSUME UNCHANGED <<sent, pipe, data, len, msg, cut, heard>>
  PROVE  Streamed' <=> Streamed
BY DEF Streamed, StreamInv, AllSent, Told, InOrder, HeardInOrder, Between, Within,
       WholeHeaders, Start

LEMMA WriteStreamed ==
  ASSUME StreamAssumption, StreamTypeOK, Streamed, NEW ms \in Seq(Message), Write(ms)
  PROVE  Streamed'
BY WriteInOrder, WriteAllSent DEF Streamed

\* A step of the tracker reads a chunk or parses.  Every other step writes
\* messages, leaves the stream alone, or ends it.
StreamStep ==
  \/ Parse
  \/ \E n \in 1 .. Len(pipe) : Receive(n)
  \/ \E ms \in Seq(Message) : Write(ms)
  \/ UNCHANGED <<sent, pipe, data, len, msg, cut, heard>>
  \/ /\ pipe' = <<>> /\ cut' = (cut \/ pipe # <<>>)
     /\ UNCHANGED <<sent, data, len, msg, heard>>

LEMMA ReportIsStreamStep ==
  ASSUME NEW m \in Message, Report(m) PROVE StreamStep
<1>1. <<m>> \in Seq(Message)
  OBVIOUS
<1> QED BY <1>1 DEF Report, StreamStep, streamVars, parserVars

LEMMA NextIsStreamStep == ASSUME StreamAssumption, Typed, [Next]_vars PROVE StreamStep
<1>1. CASE UNCHANGED streamVars
  BY <1>1 DEF StreamStep, streamVars, parserVars
<1>2. CASE Track
  BY <1>2 DEF Track, StreamStep
<1>3. ASSUME NEW n \in 1 .. Len(lines), Batch(n) PROVE StreamStep
  BY <1>3 DEF Batch, StreamStep, parserVars
<1>4. CASE TrackDevices
  <2>1. News \in Seq(Message)
    BY NewsOfPresent DEF Typed
  <2> QED BY <1>1, <1>4, <2>1 DEF TrackDevices, News, StreamStep
<1>5. ASSUME NEW u \in Udids, Plug(u) \/ Unplug(u) \/ Pair(u) PROVE StreamStep
  <2>1. MaxId \in Nat
    BY DEF StreamAssumption
  <2>2. CASE Plug(u)
    <3>1. nextId \in Ids
      BY <2>1, <2>2 DEF Plug, Typed, IosTypeOK, Ids
    <3> QED BY <2>2, <3>1, MessagesTyped, ReportIsStreamStep DEF Plug
  <2>3. CASE Unplug(u) \/ Pair(u)
    <3>1. attached[u] \in Ids
      BY <2>1, <2>3 DEF Unplug, Pair, Typed, IosTypeOK, Ids
    <3> QED BY <2>3, <3>1, MessagesTyped, ReportIsStreamStep DEF Unplug, Pair
  <2> QED BY <1>5, <2>2, <2>3
<1>6. CASE TrackerEnds
  BY <1>6 DEF TrackerEnds, StreamStep, parserVars
<1>7. CASE Handlers
  BY <1>1, <1>7 DEF Handlers, Added, InfoFails, Removed
<1>8. CASE Listing
  BY <1>1, <1>4, <1>8 DEF Listing, List, ListFails, ListStores
<1>9. ASSUME NEW n \in 1 .. Len(lines), BatchDropped(n) PROVE StreamStep
  BY <1>1, <1>9 DEF BatchDropped
<1>10. CASE UNCHANGED vars
  BY <1>1, <1>10 DEF vars
<1> QED BY <1>2, <1>3, <1>5, <1>6, <1>7, <1>8, <1>9, <1>10 DEF Next, Lines, Outside

LEMMA StepStreamed ==
  ASSUME StreamAssumption, StreamTypeOK, Streamed, StreamStep PROVE Streamed'
<1>1. CASE Parse
  BY <1>1, ParseInOrder, ParseAllSent DEF Streamed
<1>2. ASSUME NEW n \in 1 .. Len(pipe), Receive(n) PROVE Streamed'
  BY <1>2, ReceiveInOrder, ReceiveAllSent DEF Streamed
<1>3. ASSUME NEW ms \in Seq(Message), Write(ms) PROVE Streamed'
  BY <1>3, WriteStreamed
<1>4. CASE UNCHANGED <<sent, pipe, data, len, msg, cut, heard>>
  BY <1>4, StreamLeftAlone
<1>5. CASE /\ pipe' = <<>> /\ cut' = (cut \/ pipe # <<>>)
           /\ UNCHANGED <<sent, data, len, msg, heard>>
  <2>1. AllSent'
    BY SMTT(30), <1>5 DEF Streamed, AllSent, Told
  <2>2. CASE cut'
    BY <2>1, <2>2 DEF Streamed, StreamInv
  <2>3. CASE ~cut'
    <3>1. cut = FALSE /\ cut' = FALSE /\ pipe' = pipe
      BY <1>5, <2>3 DEF StreamTypeOK
    <3> QED BY <1>5, <3>1, StreamLeftAlone
  <2> QED BY <2>2, <2>3
<1> QED BY <1>1, <1>2, <1>3, <1>4, <1>5 DEF StreamStep

LEMMA StepOfChannel ==
  ASSUME StreamAssumption, StreamTypeOK, Streamed, StreamStep
  PROVE  [Channel!Send \/ Channel!Hear \/ Channel!HearSome \/ Channel!Fail]_<<sent, heard, cut>>
<1>1. CASE Parse
  BY <1>1, ParseHears DEF Streamed
<1>2. ASSUME NEW n \in 1 .. Len(pipe), Receive(n)
      PROVE  Channel!Fail \/ UNCHANGED <<sent, heard, cut>>
  BY <1>2, ReceiveFails
<1>3. ASSUME NEW ms \in Seq(Message), Write(ms) PROVE Channel!Send
  BY <1>3, WriteSends
<1>4. CASE /\ pipe' = <<>> /\ cut' = (cut \/ pipe # <<>>)
           /\ UNCHANGED <<sent, data, len, msg, heard>>
  <2>1. cut' = cut \/ cut' = TRUE
    BY <1>4 DEF StreamTypeOK
  <2> QED BY <1>4, <2>1 DEF Channel!Fail
<1> QED BY <1>1, <1>2, <1>3, <1>4 DEF StreamStep

StreamedInv == Typed /\ Streamed

LEMMA StreamedIsInvariant == Spec => []StreamedInv
<1>1. Init => StreamedInv
  BY InitTyped, InitStreamed, StreamAssumption, TrackingAssumption DEF StreamedInv
<1>2. StreamedInv /\ [Next]_vars => StreamedInv'
  <2>1. ASSUME StreamedInv, [Next]_vars PROVE StreamedInv'
    <3>1. Typed'
      BY <2>1, NextTyped, StreamAssumption, TrackingAssumption DEF StreamedInv
    <3>2. StreamStep
      BY <2>1, NextIsStreamStep, StreamAssumption DEF StreamedInv
    <3>3. Streamed'
      BY <2>1, <3>2, StepStreamed, StreamAssumption DEF StreamedInv, Typed, IosTypeOK
    <3> QED BY <3>1, <3>3 DEF StreamedInv
  <2> QED BY <2>1
<1> QED BY <1>1, <1>2, PTL DEF Spec

\* However the socket divides the stream, a message that was sent is heard or is
\* still on its way, as long as no chunk ends inside a header.
THEOREM NothingIsMissing == Spec => []NothingMissing
<1>1. StreamedInv => NothingMissing
  BY NothingLost, StreamAssumption DEF StreamedInv, Streamed, Typed, IosTypeOK
<1> QED BY <1>1, StreamedIsInvariant, PTL

\* The parser is the channel that its comment describes.
THEOREM ParserIsChannel == Spec => ImplementsChannel
<1>1. Init => Channel!Init
  BY DEF Init, StreamInit, Channel!Init
<1>2. StreamedInv /\ [Next]_vars
        => [Channel!Send \/ Channel!Hear \/ Channel!HearSome \/ Channel!Fail]_<<sent, heard, cut>>
  <2>1. ASSUME StreamedInv, [Next]_vars
        PROVE [Channel!Send \/ Channel!Hear \/ Channel!HearSome \/ Channel!Fail]_<<sent, heard, cut>>
    <3>1. StreamStep
      BY <2>1, NextIsStreamStep, StreamAssumption DEF StreamedInv
    <3> QED BY <2>1, <3>1, StepOfChannel, StreamAssumption DEF StreamedInv, Typed, IosTypeOK
  <2> QED BY <2>1
<1> QED BY <1>1, <1>2, StreamedIsInvariant, PTL DEF Spec, ImplementsChannel, Channel!Spec

----------------------------------------------------------------------------
(* The tracker before, while and after it runs.                             *)

Untracked ==
  /\ sent = <<>> /\ pipe = <<>> /\ data = <<>> /\ heard = <<>> /\ lines = <<>>
  /\ devices = {} /\ table = {}
  /\ \A u \in Udids : adding[u] = 0 /\ removing[u] = 0
  /\ listing # "storing" /\ (listing = "idle" => listings = 0) /\ listings <= 1

Phases ==
  /\ tool = "goios" => sent = <<>> /\ pipe = <<>> /\ data = <<>> /\ heard = <<>>
  /\ tool = "usbmux" => lines = <<>>
  /\ conn = "none" => Untracked
  /\ conn # "none" => listeners > 0
  /\ conn = "ended" \/ cut => spoiled = Udids

LEMMA InitPhases == ASSUME Init PROVE Phases
BY DEF Init, StreamInit, Phases, Untracked

LEMMA TrackPhases == ASSUME Typed, Phases, Track PROVE Phases'
<1>1. tool # "goios"
  <2>1. ASSUME tool = "goios" PROVE FALSE
    <3>1. pipe = <<>> /\ data = <<>>
      BY <2>1 DEF Phases
    <3>2. ~Parse
      BY <3>1 DEF Parse, ParseHeader, ParsePart, ParseEnd, ParseThrows, ParseGuesses
    <3>3. 1 .. Len(pipe) = {}
      BY <3>1
    <3> QED BY <3>2, <3>3 DEF Track
  <2> QED BY <2>1
<1>2. UNCHANGED <<tool, lines, conn, listeners>> /\ conn = "open"
  BY DEF Track, hostVars
<1>3. cut' => spoiled' = Udids
  BY DEF Track
<1> QED BY <1>1, <1>2, <1>3 DEF Phases

LEMMA HandlersPhases ==
  ASSUME Typed, Phases, NEW u \in Udids, Added(u) \/ InfoFails(u) \/ Removed(u) PROVE Phases'
<1>1. UNCHANGED <<streamVars, lines, tool, conn, listeners>>
  BY DEF Added, InfoFails, Removed, hostVars
<1>2. adding[u] > 0 \/ removing[u] > 0
  BY DEF Added, InfoFails, Removed
<1>3. conn # "none"
  BY <1>2 DEF Phases, Untracked
<1>4. spoiled = Udids => spoiled' = Udids
  BY DEF Added, InfoFails, Removed
<1> QED BY <1>1, <1>3, <1>4 DEF Phases, streamVars, parserVars

LEMMA ListingPhases ==
  ASSUME Typed, Phases, List \/ ListFails \/ TrackDevices \/ ListStores PROVE Phases'
<1>0. listings \in Nat /\ listeners \in Nat
  BY DEF Typed, IosTypeOK
<1>1. UNCHANGED <<tool, adding, removing, spoiled>>
  BY DEF List, ListFails, TrackDevices, ListStores, handlerVars
<1>2. CASE List
  <2>1. UNCHANGED <<sent, pipe, data, heard, cut, devices, lines, conn, listeners, table>>
    BY <1>2 DEF List, streamVars, parserVars
  <2>2. Untracked => Untracked'
    BY <1>0, <1>1, <1>2, <2>1 DEF List, Untracked
  <2> QED BY <1>1, <2>1, <2>2 DEF Phases
<1>3. CASE ListFails
  <2>1. UNCHANGED <<sent, pipe, data, heard, cut, devices, lines, conn, listeners>> /\ ~Untracked
    BY <1>0, <1>3 DEF ListFails, Untracked, streamVars, parserVars
  <2> QED BY <1>1, <2>1 DEF Phases
<1>4. CASE TrackDevices
  <2>1. conn' # "none" /\ listeners' > 0 /\ cut' = cut /\ (conn' = "ended" => conn = "ended")
    BY <1>0, <1>4 DEF TrackDevices, Write, streamVars, parserVars
  <2>2. tool = "goios" => UNCHANGED <<sent, pipe, data, heard>>
    BY <1>4 DEF TrackDevices, streamVars, parserVars
  <2>3. tool = "usbmux" => lines' = lines
    BY <1>4 DEF TrackDevices
  <2> QED BY <1>1, <2>1, <2>2, <2>3 DEF Phases
<1>5. CASE ListStores
  <2>1. UNCHANGED <<sent, pipe, data, heard, cut, lines, conn, listeners>> /\ ~Untracked
    BY <1>5 DEF ListStores, Untracked, streamVars, parserVars
  <2> QED BY <1>1, <2>1 DEF Phases
<1> QED BY <1>2, <1>3, <1>4, <1>5

\* What usbmuxd or go-ios reports, it reports to its own tracker.
LEMMA ReportPhases ==
  ASSUME Typed, Phases, NEW m, Report(m), UNCHANGED <<tool, conn, table, listeners, listing,
         listings, adding, removing>>, spoiled \subseteq spoiled', spoiled # Udids
  PROVE  Phases'
<1>1. cut' = cut
  BY DEF Report, Write, streamVars, parserVars
<1>2. tool = "goios" => UNCHANGED <<sent, pipe, data, heard>>
  BY DEF Report, streamVars, parserVars
<1>3. tool = "usbmux" => lines' = lines
  BY DEF Report
<1>4. conn = "none" => UNCHANGED <<sent, pipe, data, heard, lines, devices>>
  BY DEF Report, streamVars, parserVars
<1> QED BY <1>1, <1>2, <1>3, <1>4 DEF Phases, Untracked

LEMMA OutsidePhases == ASSUME Typed, Phases, Outside PROVE Phases'
<1>1. ASSUME NEW u \in Udids, Plug(u) \/ Unplug(u) \/ Pair(u) PROVE Phases'
  <2>1. PICK m : Report(m)
    BY <1>1 DEF Plug, Unplug, Pair
  <2>2. UNCHANGED <<tool, conn, table, listeners, listing, listings, adding, removing>>
    BY <1>1 DEF Plug, Unplug, Pair, hostVars, handlerVars
  <2>3. spoiled \subseteq spoiled' /\ spoiled # Udids
    BY <1>1 DEF Plug, Unplug, Pair, Spoil, Outside
  <2> QED BY <2>1, <2>2, <2>3, ReportPhases
<1>2. CASE TrackerEnds
  <2>1. /\ UNCHANGED <<sent, data, heard, tool, listeners>> /\ conn' = "ended" /\ conn = "open"
        /\ pipe' = <<>> /\ lines' = <<>> /\ spoiled' = Udids
    BY <1>2 DEF TrackerEnds, parserVars
  <2> QED BY <2>1 DEF Phases
<1> QED BY <1>1, <1>2 DEF Outside

LEMMA BatchPhases ==
  ASSUME Typed, Phases, NEW n \in 1 .. Len(lines), Batch(n) \/ BatchDropped(n) PROVE Phases'
<1>1. tool # "usbmux"
  <2>1. lines # <<>>
    BY DEF Typed, IosTypeOK
  <2> QED BY <2>1 DEF Phases
<1>2. UNCHANGED <<sent, pipe, data, heard, cut, tool, conn, listeners>> /\ conn = "open"
  BY DEF Batch, BatchDropped, streamVars, parserVars, hostVars
<1>3. spoiled = Udids => spoiled' = Udids
  BY DEF Batch, BatchDropped
<1> QED BY <1>1, <1>2, <1>3 DEF Phases

LEMMA NextPhases == ASSUME Typed, Phases, [Next]_vars PROVE Phases'
<1>1. CASE UNCHANGED vars
  BY <1>1 DEF vars, streamVars, parserVars, hostVars, handlerVars, Phases, Untracked
<1> QED BY <1>1, TrackPhases, BatchPhases, HandlersPhases, ListingPhases, OutsidePhases
        DEF Next, Lines, Handlers, Listing

----------------------------------------------------------------------------
(* DeviceIDs: usbmuxd gives each to one device.                             *)

Printed == {lines[i] : i \in 1 .. Len(lines)}
Mentioned == Told \cup Printed

\* The udid of a DeviceID can be read in the devices object or a message, or is
\* that of an attached device.
Knows(u, id) ==
  \/ <<u, id>> \in devices
  \/ \E m \in Mentioned : m.udid = u /\ m.id = id
  \/ attached[u] = id

IdsOnce ==
  \A u \in Udids, id \in Ids :
    Knows(u, id) => id < nextId /\ \A v \in Udids : Knows(v, id) => u = v

\* The DeviceIDs of the devices object come from messages.
LearnsFrom(ms) ==
  \A d \in devices' : d \in devices \/ \E m \in ms : d = <<m.udid, m.id>>

LEMMA InitIds == ASSUME Init PROVE IdsOnce
<1>1. sent = <<>> /\ lines = <<>> /\ devices = {} /\ \A u \in Udids : attached[u] = 0
  BY DEF Init, StreamInit
<1>2. Mentioned = {}
  BY <1>1 DEF Mentioned, Told, Printed
<1> QED BY <1>1, <1>2 DEF IdsOnce, Knows, Ids

\* No new message and no new device: no new pair.
LEMMA IdsKept ==
  ASSUME IdsOnce, Mentioned' \subseteq Mentioned, LearnsFrom(Mentioned), nextId' = nextId,
         \A u \in Udids : attached'[u] = attached[u] \/ attached'[u] = 0
  PROVE  IdsOnce'
<1>1. ASSUME NEW u \in Udids, NEW id \in Ids, Knows(u, id)' PROVE Knows(u, id)
  <2>1. CASE <<u, id>> \in devices'
    BY <2>1 DEF LearnsFrom, Knows
  <2>2. CASE \E m \in Mentioned' : m.udid = u /\ m.id = id
    BY <2>2 DEF Knows
  <2>3. CASE attached'[u] = id
    BY <2>3 DEF Knows, Ids
  <2> QED BY <1>1, <2>1, <2>2, <2>3 DEF Knows
<1> QED BY <1>1 DEF IdsOnce

LEMMA ReportMentions ==
  ASSUME StreamAssumption, Typed, Streamed, NEW m \in Message, Report(m)
  PROVE  /\ Mentioned' \subseteq Mentioned \cup {m}
         /\ devices' = devices
<1>1. CASE UNCHANGED <<streamVars, lines>>
  BY <1>1 DEF Mentioned, Told, Printed, streamVars
<1>2. CASE Write(<<m>>) /\ UNCHANGED lines
  <2>1. <<m>> \in Seq(Message) /\ {(<<m>>)[i] : i \in 1 .. Len(<<m>>)} = {m}
    OBVIOUS
  <2>2. Told' = Told \cup {m}
    BY <1>2, <2>1, WriteAllSent DEF Streamed, Typed, IosTypeOK
  <2> QED BY <1>2, <2>2 DEF Mentioned, Printed, Write
<1>3. CASE lines' = Append(lines, m) /\ UNCHANGED streamVars
  <2>1. Printed' \subseteq Printed \cup {m}
    BY <1>3 DEF Printed, Typed, IosTypeOK
  <2> QED BY <1>3, <2>1 DEF Mentioned, Told, streamVars
<1> QED BY <1>1, <1>2, <1>3 DEF Report

LEMMA TrackIds == ASSUME StreamAssumption, Typed, Streamed, IdsOnce, Track PROVE IdsOnce'
<1>1. Told' = Told
  <2>1. CASE Parse
    BY <2>1, ParseAllSent DEF Typed, IosTypeOK, Streamed
  <2>2. CASE ~Parse
    BY <2>2 DEF Track, Receive, Told
  <2> QED BY <2>1, <2>2
<1>2. UNCHANGED <<lines, attached, nextId>>
  BY DEF Track, hostVars
<1>3. LearnsFrom(Mentioned)
  <2>1. CASE ParseEnd \/ ParseGuesses
    <3>1. msg'[1].msg \in Told /\ Heed(msg'[1].msg)
      BY <2>1, ParseAllSent DEF Typed, IosTypeOK, Streamed, Parse, ParseEnd, ParseGuesses
    <3> QED BY <3>1 DEF LearnsFrom, Heed, Mentioned
  <2>2. CASE devices' = devices
    BY <2>2 DEF LearnsFrom
  <2> QED BY <2>1, <2>2 DEF Track, Parse, ParseHeader, ParsePart, ParseThrows, Receive
<1>4. Mentioned' = Mentioned
  BY <1>1, <1>2 DEF Mentioned, Printed
<1> QED BY <1>2, <1>3, <1>4, IdsKept

LEMMA BatchIds ==
  ASSUME StreamAssumption, Typed, IdsOnce, NEW n \in 1 .. Len(lines), Batch(n) \/ BatchDropped(n)
  PROVE  IdsOnce'
<1>0. lines \in Seq(Message) /\ Len(lines) \in Nat
  BY DEF Typed, IosTypeOK
<1>1. UNCHANGED <<sent, attached, nextId>> /\ lines' = SubSeq(lines, n + 1, Len(lines))
  BY DEF Batch, BatchDropped, streamVars, hostVars
<1>2. Printed' \subseteq Printed
  BY <1>0, <1>1 DEF Printed
<1>3. Mentioned' \subseteq Mentioned
  BY <1>1, <1>2 DEF Mentioned, Told
<1>4. LearnsFrom(Mentioned)
  <2>1. \A m \in ToSet(SubSeq(lines, 1, n)) : m \in Printed
    BY <1>0 DEF ToSet, Printed
  <2> QED BY <2>1 DEF LearnsFrom, Batch, BatchDropped, Learnt, Mentioned, streamVars
<1> QED BY <1>1, <1>3, <1>4, IdsKept

LEMMA HandlersIds ==
  ASSUME IdsOnce, NEW u \in Udids, Added(u) \/ InfoFails(u) \/ Removed(u) PROVE IdsOnce'
<1>1. UNCHANGED <<streamVars, lines, attached, nextId>>
  BY DEF Added, InfoFails, Removed, hostVars
<1> QED BY <1>1, IdsKept DEF LearnsFrom, Mentioned, Told, Printed, streamVars

\* The new tracker tells of devices that are attached.
LEMMA ListingIds ==
  ASSUME StreamAssumption, Typed, Streamed, Phases, IdsOnce,
         List \/ ListFails \/ TrackDevices \/ ListStores
  PROVE  IdsOnce'
<1>1. UNCHANGED <<attached, nextId, devices>>
  BY DEF List, ListFails, TrackDevices, ListStores, Write, streamVars
<1>2. CASE UNCHANGED <<sent, lines>>
  BY <1>1, <1>2, IdsKept DEF LearnsFrom, Mentioned, Told, Printed
<1>3. CASE ~UNCHANGED <<sent, lines>>
  <2>1. \/ Write(News) /\ UNCHANGED lines
        \/ lines' = News /\ UNCHANGED streamVars
    BY <1>3 DEF List, ListFails, TrackDevices, ListStores, News, streamVars
  <2>2. Mentioned' \subseteq Mentioned \cup {News[i] : i \in 1 .. Len(News)}
    <3>1. CASE Write(News) /\ UNCHANGED lines
      <4>1. Told' = Told \cup {News[i] : i \in 1 .. Len(News)}
        BY <3>1, NewsOfPresent, WriteAllSent DEF Typed, IosTypeOK, Streamed
      <4> QED BY <3>1, <4>1 DEF Mentioned, Printed
    <3>2. CASE lines' = News /\ UNCHANGED streamVars
      BY <3>2 DEF Mentioned, Told, Printed, streamVars
    <3> QED BY <2>1, <3>1, <3>2
  <2>3. ASSUME NEW u \in Udids, NEW id \in Ids, Knows(u, id)' PROVE Knows(u, id)
    <3>1. CASE \E m \in Mentioned' : m.udid = u /\ m.id = id
      <4>1. PICK m \in Mentioned' : m.udid = u /\ m.id = id
        BY <3>1
      <4>2. CASE m \in Mentioned
        BY <4>1, <4>2 DEF Knows
      <4>3. ASSUME NEW i \in 1 .. Len(News), m = News[i] PROVE Knows(u, id)
        <5>1. PICK v \in Present : m = Attached(v, attached[v])
          BY <4>3, NewsOfPresent DEF Typed
        <5> QED BY <4>1, <5>1 DEF Attached, Knows
      <4> QED BY <2>2, <4>1, <4>2, <4>3
    <3> QED BY <1>1, <2>3, <3>1 DEF Knows
  <2> QED BY <1>1, <2>3 DEF IdsOnce
<1> QED BY <1>2, <1>3

\* A device that comes gets a DeviceID that nobody has had.
LEMMA OutsideIds ==
  ASSUME StreamAssumption, Typed, Streamed, IdsOnce, Outside PROVE IdsOnce'
<1>0. MaxId \in Nat
  BY DEF StreamAssumption
<1>1. ASSUME NEW w \in Udids, Plug(w) PROVE IdsOnce'
  <2>1. nextId \in Ids
    BY <1>0, <1>1 DEF Plug, Typed, IosTypeOK, Ids
  <2>2. Mentioned' \subseteq Mentioned \cup {Attached(w, nextId)} /\ devices' = devices
    BY <1>1, <2>1, MessagesTyped, ReportMentions DEF Plug
  <2>3. /\ nextId' = nextId + 1
        /\ \A u \in Udids : attached'[u] = IF u = w THEN nextId ELSE attached[u]
    BY <1>1 DEF Plug, Typed, IosTypeOK
  <2>4. ASSUME NEW u \in Udids, NEW id \in Ids, Knows(u, id)'
        PROVE  Knows(u, id) \/ (u = w /\ id = nextId)
    <3>1. CASE \E m \in Mentioned' : m.udid = u /\ m.id = id
      BY <2>2, <3>1 DEF Knows, Attached
    <3> QED BY <2>2, <2>3, <2>4, <3>1 DEF Knows
  <2>5. \A u \in Udids : ~Knows(u, nextId)
    BY <2>1 DEF IdsOnce, Ids
  <2>6. \A id \in Ids : id < nextId => id < nextId + 1
    BY <2>1 DEF Ids
  <2>7. nextId < nextId + 1
    BY <2>1 DEF Ids
  <2> QED BY <2>3, <2>4, <2>5, <2>6, <2>7 DEF IdsOnce
<1>2. ASSUME NEW w \in Udids, Unplug(w) \/ Pair(w) PROVE IdsOnce'
  <2>1. attached[w] \in Ids
    BY <1>0, <1>2 DEF Unplug, Pair, Typed, IosTypeOK, Ids
  <2>2. PICK m \in Message : Report(m) /\ m.udid = w /\ m.id = attached[w]
    BY <1>2, <2>1, MessagesTyped DEF Unplug, Pair, Detached, Paired
  <2>3. Mentioned' \subseteq Mentioned \cup {m} /\ devices' = devices
    BY <2>2, ReportMentions
  <2>4. nextId' = nextId /\ \A u \in Udids : attached'[u] \in {attached[u], 0}
    BY <1>2 DEF Unplug, Pair, hostVars, Typed, IosTypeOK
  <2>5. ASSUME NEW u \in Udids, NEW id \in Ids, Knows(u, id)' PROVE Knows(u, id)
    <3>1. CASE \E x \in Mentioned' : x.udid = u /\ x.id = id
      BY <2>2, <2>3, <3>1 DEF Knows
    <3>2. CASE attached'[u] = id
      BY <2>4, <3>2 DEF Knows, Ids
    <3> QED BY <2>3, <2>5, <3>1, <3>2 DEF Knows
  <2> QED BY <2>4, <2>5 DEF IdsOnce
<1>3. CASE TrackerEnds
  <2>1. UNCHANGED <<sent, attached, nextId, devices>> /\ lines' = <<>>
    BY <1>3 DEF TrackerEnds
  <2> QED BY <2>1, IdsKept DEF LearnsFrom, Mentioned, Told, Printed
<1> QED BY <1>1, <1>2, <1>3 DEF Outside

LEMMA NextIds ==
  ASSUME StreamAssumption, Typed, Streamed, Phases, IdsOnce, [Next]_vars PROVE IdsOnce'
<1>1. CASE UNCHANGED vars
  BY <1>1, IdsKept DEF vars, streamVars, hostVars, LearnsFrom, Mentioned, Told, Printed
<1> QED BY <1>1, TrackIds, BatchIds, HandlersIds, ListingIds, OutsideIds
        DEF Next, Lines, Handlers, Listing

----------------------------------------------------------------------------
(* The devices object of usbmux.ts.                                         *)

Attachments == {<<u, attached[u]>> : u \in Present}

\* The messages heard leave the devices object, and all messages that were sent
\* would leave the devices that are attached.
Mirrored ==
  tool = "usbmux" =>
    /\ ~cut => devices = Live(heard)
    /\ conn = "open" => Live(sent) = Attachments

LEMMA InitMirrored == ASSUME Init PROVE Mirrored
<1>1. heard = <<>> /\ devices = {} /\ conn = "none"
  BY DEF Init, StreamInit
<1>2. Live(<<>>) = {}
  BY DEF Live
<1> QED BY <1>1, <1>2 DEF Mirrored

\* What a new tracker tells leaves what is attached.
LEMMA LiveOfNews == ASSUME StreamAssumption, Typed PROVE Live(News) = Attachments
<1>0. News \in Seq(Message) /\ Len(News) \in Nat
  BY NewsOfPresent DEF Typed
<1>1. ASSUME NEW d \in Live(News) PROVE d \in Attachments
  <2>1. d \in Udids \X Ids /\ \E i \in 1 .. Len(News) : News[i] = Attached(d[1], d[2])
    BY DEF Live
  <2>2. PICK u \in Present : Attached(d[1], d[2]) = Attached(u, attached[u])
    BY <2>1, NewsOfPresent DEF Typed
  <2>3. d[1] = u /\ d[2] = attached[u]
    BY <2>2 DEF Attached
  <2>4. d = <<u, attached[u]>>
    BY <2>1, <2>3
  <2> QED BY <2>4 DEF Attachments
<1>2. ASSUME NEW d \in Attachments PROVE d \in Live(News)
  <2>1. PICK u \in Present : d = <<u, attached[u]>>
    BY DEF Attachments
  <2>2. u \in Udids /\ attached[u] \in Ids /\ d \in Udids \X Ids /\ d[1] = u /\ d[2] = attached[u]
    BY <2>1 DEF Present, Ids, Typed, IosTypeOK
  <2>3. PICK i \in 1 .. Len(News) : News[i] = Attached(u, attached[u])
    BY NewsOfPresent DEF Typed
  <2>4. ASSUME NEW j \in i + 1 .. Len(News) PROVE ~Forgets(News[j], d)
    <3>1. j \in 1 .. Len(News) /\ j # i
      BY <1>0
    <3>2. News[j].udid # News[i].udid
      BY <3>1, NewsOfPresent DEF Typed
    <3>3. \E v \in Present : News[j] = Attached(v, attached[v])
      BY <3>1, NewsOfPresent DEF Typed
    <3> QED BY <2>2, <2>3, <3>2, <3>3 DEF Forgets, Attached
  <2> QED BY <2>2, <2>3, <2>4 DEF Live
<1> QED BY <1>1, <1>2

\* The callback keeps the devices object as the messages leave it.
LEMMA TrackMirrored ==
  ASSUME StreamAssumption, Typed, Streamed, Mirrored, Track PROVE Mirrored'
<1> SUFFICES ASSUME tool = "usbmux"
             PROVE  /\ ~cut' => devices' = Live(heard')
                    /\ conn = "open" => Live(sent') = Attachments'
  BY DEF Mirrored, Track, hostVars
<1>1. sent' = sent /\ attached' = attached
  BY DEF Track, Parse, ParseHeader, ParsePart, ParseEnd, ParseThrows, ParseGuesses, Receive,
         hostVars
<1>2. ASSUME ~cut' PROVE devices' = Live(heard')
  <2>1. cut = FALSE
    <3>1. ~cut
      BY <1>2 DEF Track, Parse, ParseHeader, ParsePart, ParseEnd, ParseThrows, ParseGuesses,
                  Receive
    <3> QED BY <3>1 DEF Typed, IosTypeOK, StreamTypeOK
  <2>2. devices = Live(heard)
    BY <2>1 DEF Mirrored
  <2>3. CASE ParseEnd
    <3>1. msg'[1].msg \in Message /\ heard \in Seq(Message)
      BY <2>3, MessageTyped DEF ParseEnd, Typed, IosTypeOK, StreamTypeOK
    <3>2. heard' = Append(heard, msg'[1].msg) /\ devices' = Heeded(devices, msg'[1].msg)
      BY <2>3 DEF ParseEnd, Heed, Heeded
    <3> QED BY <2>2, <3>1, <3>2, LiveOfMore
  <2>4. ~ParseThrows /\ ~ParseGuesses
    BY <2>1, NothingWrong DEF Typed, IosTypeOK, Streamed
  <2>5. CASE UNCHANGED <<heard, devices>>
    BY <2>2, <2>5
  <2> QED BY <2>3, <2>4, <2>5 DEF Track, Parse, ParseHeader, ParsePart, Receive
<1> QED BY <1>1, <1>2 DEF Mirrored, Attachments, Present

\* So does usbmuxd with the messages that it sends.
LEMMA ReportMirrored ==
  ASSUME StreamAssumption, Typed, Mirrored, NEW m \in Message, Report(m), conn = "open",
         tool = "usbmux"
  PROVE  UNCHANGED <<heard, devices, cut>> /\ Live(sent') = Heeded(Attachments, m)
<1>1. Write(<<m>>)
  BY DEF Report
<1>2. sent \in Seq(Message) /\ sent' = Append(sent, m)
  BY <1>1, AppendIsConcat DEF Write, Typed, IosTypeOK, StreamTypeOK
<1> QED BY <1>1, <1>2, LiveOfMore DEF Write, Mirrored

LEMMA OutsideMirrored ==
  ASSUME StreamAssumption, Typed, Streamed, IdsOnce, Mirrored, Outside PROVE Mirrored'
<1>0. MaxId \in Nat
  BY DEF StreamAssumption
<1>1. ASSUME NEW w \in Udids, Plug(w) \/ Unplug(w) \/ Pair(w) PROVE Mirrored'
  <2>1. UNCHANGED <<tool, conn>>
    BY <1>1 DEF Plug, Unplug, Pair, hostVars
  <2>2. CASE conn = "open" /\ tool = "usbmux"
    <3>1. CASE Plug(w)
      <4>1. nextId \in Ids
        BY <1>0, <3>1 DEF Plug, Typed, IosTypeOK, Ids
      <4>2. UNCHANGED <<heard, devices, cut>> /\ Live(sent') = Heeded(Attachments, Attached(w, nextId))
        BY <2>2, <3>1, <4>1, MessagesTyped, ReportMirrored DEF Plug
      <4>3. Present' = Present \cup {w} /\ w \notin Present
        BY <3>1, <4>1 DEF Plug, Present, Typed, IosTypeOK, Ids
      <4>4. \A u \in Udids : attached'[u] = IF u = w THEN nextId ELSE attached[u]
        BY <3>1 DEF Plug, Typed, IosTypeOK
      <4>5. Heeded(Attachments, Attached(w, nextId)) = Attachments'
        <5>1. Heeded(Attachments, Attached(w, nextId)) = Attachments \cup {<<w, nextId>>}
          BY <4>3 DEF Heeded, Attached, Attachments
        <5>2. \A u \in Present : u \in Udids /\ u # w
          BY <4>3 DEF Present
        <5> QED BY <4>3, <4>4, <5>1, <5>2 DEF Attachments
      <4> QED BY <2>1, <4>2, <4>5 DEF Mirrored
    <3>2. CASE Unplug(w)
      <4>1. attached[w] \in Ids
        BY <1>0, <3>2 DEF Unplug, Typed, IosTypeOK, Ids
      <4>2. /\ UNCHANGED <<heard, devices, cut>>
            /\ Live(sent') = Heeded(Attachments, Detached(w, attached[w]))
        BY <2>2, <3>2, <4>1, MessagesTyped, ReportMirrored DEF Unplug
      <4>3. Present' = Present \ {w}
        BY <3>2 DEF Unplug, Present, Typed, IosTypeOK
      <4>4. \A u \in Udids : attached'[u] = IF u = w THEN 0 ELSE attached[u]
        BY <3>2 DEF Unplug, Typed, IosTypeOK
      <4>5. \A u \in Present : u \in Udids /\ (attached[u] = attached[w] => u = w)
        BY <4>1 DEF IdsOnce, Knows, Present
      <4>6. Heeded(Attachments, Detached(w, attached[w])) = Attachments'
        <5>1. Heeded(Attachments, Detached(w, attached[w])) =
                {d \in Attachments : d[2] # attached[w]}
          BY DEF Heeded, Detached
        <5>2. \A u \in Present : u # w => u \in Present' /\ attached'[u] = attached[u]
          BY <4>3, <4>4, <4>5
        <5>3. \A u \in Present' : u \in Present /\ u # w /\ attached'[u] = attached[u]
                                  /\ attached[u] # attached[w]
          BY <4>3, <4>4, <4>5
        <5>4. ASSUME NEW d \in Attachments, d[2] # attached[w] PROVE d \in Attachments'
          BY <5>2, <5>4 DEF Attachments
        <5>5. ASSUME NEW d \in Attachments' PROVE d \in Attachments /\ d[2] # attached[w]
          BY <5>3 DEF Attachments
        <5> QED BY <5>1, <5>4, <5>5
      <4> QED BY <2>1, <4>2, <4>6 DEF Mirrored
    <3>3. CASE Pair(w)
      <4>1. attached[w] \in Ids
        BY <1>0, <3>3 DEF Pair, Typed, IosTypeOK, Ids
      <4>2. /\ UNCHANGED <<heard, devices, cut>>
            /\ Live(sent') = Heeded(Attachments, Paired(w, attached[w]))
        BY <2>2, <3>3, <4>1, MessagesTyped, ReportMirrored DEF Pair
      <4>3. Heeded(Attachments, Paired(w, attached[w])) = Attachments /\ attached' = attached
        BY <3>3 DEF Heeded, Paired, Pair, hostVars
      <4> QED BY <2>1, <4>2, <4>3 DEF Mirrored, Attachments, Present
    <3> QED BY <1>1, <3>1, <3>2, <3>3
  <2>3. CASE conn # "open" \/ tool # "usbmux"
    <3>1. tool = "usbmux" => UNCHANGED streamVars
      BY <1>1, <2>3 DEF Plug, Unplug, Pair, Report
    <3> QED BY <2>1, <2>3, <3>1 DEF Mirrored, streamVars
  <2> QED BY <2>2, <2>3
<1>2. CASE TrackerEnds
  BY <1>2 DEF TrackerEnds, Mirrored
<1> QED BY <1>1, <1>2 DEF Outside

LEMMA ListingMirrored ==
  ASSUME StreamAssumption, Typed, Phases, Mirrored, List \/ ListFails \/ TrackDevices \/ ListStores
  PROVE  Mirrored'
<1>1. UNCHANGED <<tool, attached, heard, devices, cut>>
  BY DEF List, ListFails, TrackDevices, ListStores, Write, streamVars
<1>2. CASE UNCHANGED <<sent, conn>>
  BY <1>1, <1>2 DEF Mirrored, Attachments, Present
<1>3. CASE ~UNCHANGED <<sent, conn>> /\ tool = "usbmux"
  <2>1. TrackDevices /\ conn = "none" /\ Write(News)
    BY <1>3 DEF List, ListFails, TrackDevices, ListStores, News, streamVars
  <2>2. sent' = <<>> \o News
    BY <2>1 DEF Phases, Untracked, Write
  <2>3. sent' = News
    BY <2>2, NewsOfPresent, ConcatEmptySeq DEF Typed
  <2>4. Live(sent') = Attachments /\ Attachments' = Attachments
    BY <1>1, <2>3, LiveOfNews DEF Attachments, Present
  <2> QED BY <1>1, <2>4 DEF Mirrored
<1> QED BY <1>1, <1>2, <1>3 DEF Mirrored

LEMMA NextMirrored ==
  ASSUME StreamAssumption, Typed, Streamed, Phases, IdsOnce, Mirrored, [Next]_vars
  PROVE  Mirrored'
<1>1. CASE UNCHANGED vars
  BY <1>1 DEF vars, streamVars, hostVars, Mirrored, Attachments, Present
<1>2. ASSUME NEW n \in 1 .. Len(lines), Batch(n) \/ BatchDropped(n) PROVE Mirrored'
  <2>1. tool # "usbmux"
    <3>1. lines # <<>>
      BY <1>2 DEF Typed, IosTypeOK
    <3> QED BY <3>1 DEF Phases
  <2> QED BY <1>2, <2>1 DEF Mirrored, Batch, BatchDropped, hostVars
<1>3. ASSUME NEW u \in Udids, Added(u) \/ InfoFails(u) \/ Removed(u) PROVE Mirrored'
  BY <1>3 DEF Added, InfoFails, Removed, Mirrored, hostVars, streamVars, Attachments, Present
<1> QED BY <1>1, <1>2, <1>3, TrackMirrored, ListingMirrored, OutsideMirrored
        DEF Next, Lines, Handlers, Listing

MirrorInv == Typed /\ Streamed /\ Phases /\ IdsOnce /\ Mirrored

LEMMA MirrorIsInvariant == Spec => []MirrorInv
<1>1. Init => MirrorInv
  BY InitTyped, InitStreamed, InitPhases, InitIds, InitMirrored, StreamAssumption,
     TrackingAssumption DEF MirrorInv
<1>2. MirrorInv /\ [Next]_vars => MirrorInv'
  <2>1. ASSUME MirrorInv, [Next]_vars PROVE MirrorInv'
    <3>1. Typed' /\ Phases'
      BY <2>1, NextTyped, NextPhases, StreamAssumption, TrackingAssumption DEF MirrorInv
    <3>2. Streamed'
      <4>1. StreamStep
        BY <2>1, NextIsStreamStep, StreamAssumption DEF MirrorInv
      <4> QED BY <2>1, <4>1, StepStreamed, StreamAssumption DEF MirrorInv, Typed, IosTypeOK
    <3>3. IdsOnce' /\ Mirrored'
      BY <2>1, NextIds, NextMirrored, StreamAssumption DEF MirrorInv
    <3> QED BY <3>1, <3>2, <3>3 DEF MirrorInv
  <2> QED BY <2>1
<1> QED BY <1>1, <1>2, PTL DEF Spec

\* The devices object has the DeviceIDs of the devices that are attached, whatever
\* came and went, when all that usbmuxd sent is parsed and no chunk has ended inside
\* a header.
THEOREM DevicesAreMirrored == Spec => []DevicesMirrorUsbmuxd
<1>1. MirrorInv => DevicesMirrorUsbmuxd
  <2>1. ASSUME MirrorInv, tool = "usbmux", conn = "open", pipe = <<>>, data = <<>>, ~cut
        PROVE  devices = Attachments
    <3>1. heard = sent
      BY <2>1, NothingLost, StreamAssumption
         DEF MirrorInv, Typed, IosTypeOK, Streamed, NothingMissing
    <3> QED BY <2>1, <3>1 DEF MirrorInv, Mirrored
  <2> QED BY <2>1 DEF DevicesMirrorUsbmuxd, Attachments
<1> QED BY <1>1, MirrorIsInvariant, PTL

----------------------------------------------------------------------------
(* The messages that the listeners have still to be told.                   *)

Due == IF tool = "usbmux" THEN SubSeq(sent, Len(heard) + 1, Len(sent)) ELSE lines

DueFor(u) == {i \in 1 .. Len(Due) : Due[i].udid = u}

LEMMA DueTyped == ASSUME Typed PROVE Due \in Seq(Message) /\ Len(Due) \in Nat
<1>1. sent \in Seq(Message) /\ heard \in Seq(Message) /\ lines \in Seq(Message)
  BY DEF Typed, IosTypeOK, StreamTypeOK
<1>2. Len(sent) \in Nat /\ Len(heard) \in Nat
  BY <1>1
<1>3. SubSeq(sent, Len(heard) + 1, Len(sent)) \in Seq(Message)
  BY <1>1, <1>2
<1>4. Due \in Seq(Message)
  BY <1>1, <1>3 DEF Due
<1> QED BY <1>4

\* Those of usbmuxd, by their places.
LEMMA DueOfUsbmux ==
  ASSUME Typed, HeardInOrder, tool = "usbmux"
  PROVE  /\ Len(Due) = Len(sent) - Len(heard)
         /\ \A i \in 1 .. Len(Due) : Due[i] = sent[Len(heard) + i]
<1>1. sent \in Seq(Message) /\ Len(sent) \in Nat /\ Len(heard) \in Nat /\ Len(heard) <= Len(sent)
  BY DEF Typed, IosTypeOK, StreamTypeOK, HeardInOrder
<1>2. Due = SubSeq(sent, Len(heard) + 1, Len(sent))
  BY DEF Due
<1> QED BY <1>1, <1>2

\* A report is the last of them.
LEMMA DueOnReport ==
  ASSUME Typed, Streamed, ~cut, conn = "open", NEW m \in Message, Report(m), tool' = tool
  PROVE  Due' = Append(Due, m) /\ devices' = devices
<1>1. CASE tool = "usbmux"
  <2>1. sent \in Seq(Message) /\ Len(sent) \in Nat /\ Len(heard) \in Nat /\ Len(heard) <= Len(sent)
    BY DEF Typed, IosTypeOK, StreamTypeOK, Streamed, StreamInv, HeardInOrder
  <2>2. sent' = Append(sent, m) /\ heard' = heard /\ devices' = devices
    BY <1>1, <2>1, AppendIsConcat DEF Report, Write
  <2> DEFINE h == Len(heard)
  <2>3. h \in Nat /\ h <= Len(sent) /\ Len(sent') = Len(sent) + 1
    BY <2>1, <2>2
  <2> HIDE DEF h
  <2>4. SubSeq(Append(sent, m), h + 1, Len(sent) + 1) = Append(SubSeq(sent, h + 1, Len(sent)), m)
    <3> DEFINE l == SubSeq(Append(sent, m), h + 1, Len(sent) + 1)
               r == Append(SubSeq(sent, h + 1, Len(sent)), m)
    <3>1. l \in Seq(Message) /\ Len(l) = Len(sent) + 1 - h
      BY <2>1, <2>3
    <3>2. r \in Seq(Message) /\ Len(r) = Len(sent) - h + 1
      BY <2>1, <2>3
    <3>3. Len(l) = Len(r)
      BY <2>1, <2>3, <3>1, <3>2
    <3>4. ASSUME NEW i \in 1 .. Len(l) PROVE l[i] = r[i]
      <4>1. l[i] = Append(sent, m)[h + i]
        BY <2>1, <2>3, <3>1
      <4>2. CASE h + i <= Len(sent)
        BY <2>1, <2>3, <3>1, <3>2, <4>1, <4>2
      <4>3. CASE h + i = Len(sent) + 1
        <5>1. i = Len(sent) - h + 1
          BY <2>1, <2>3, <3>1, <4>3
        <5>2. Append(sent, m)[h + i] = m
          BY <2>1, <4>3
        <5>3. SubSeq(sent, h + 1, Len(sent)) \in Seq(Message)
              /\ Len(SubSeq(sent, h + 1, Len(sent))) = Len(sent) - h
          BY <2>1, <2>3
        <5>4. r[i] = m
          BY <5>1, <5>3
        <5> QED BY <4>1, <5>2, <5>4
      <4> QED BY <2>1, <2>3, <3>1, <4>2, <4>3
    <3> HIDE DEF l, r
    <3>5. l = r
      BY <3>1, <3>2, <3>3, <3>4, SeqEqual
    <3> QED BY <3>5 DEF l, r
  <2> QED BY <1>1, <2>2, <2>3, <2>4 DEF Due, h
<1>2. CASE tool # "usbmux"
  BY <1>2 DEF Report, Due, streamVars
<1> QED BY <1>1, <1>2

LEMMA DueForOnReport ==
  ASSUME Typed, NEW m \in Message, Due' = Append(Due, m), NEW u
  PROVE  /\ m.udid # u => DueFor(u)' = DueFor(u) /\ \A i \in DueFor(u) : Due'[i] = Due[i]
         /\ m.udid = u /\ DueFor(u) = {} =>
              DueFor(u)' = {Len(Due) + 1} /\ Due'[Len(Due) + 1] = m
<1>1. /\ Len(Due) \in Nat /\ Len(Due') = Len(Due) + 1 /\ Due'[Len(Due) + 1] = m
      /\ \A i \in 1 .. Len(Due) : Due'[i] = Due[i]
  BY DueTyped
<1>2. \A i \in 1 .. Len(Due') : i \in 1 .. Len(Due) \/ i = Len(Due) + 1
  BY <1>1
<1>3. /\ \A i \in 1 .. Len(Due) : i \in 1 .. Len(Due')
      /\ Len(Due) + 1 \in 1 .. Len(Due')
  BY <1>1
<1>4. \A i : i \in DueFor(u)' <=> i \in DueFor(u) \/ (i = Len(Due) + 1 /\ m.udid = u)
  BY <1>1, <1>2, <1>3 DEF DueFor
<1>5. \A i \in DueFor(u) : i \in 1 .. Len(Due)
  BY DEF DueFor
<1>6. m.udid # u => DueFor(u)' = DueFor(u) /\ \A i \in DueFor(u) : Due'[i] = Due[i]
  BY <1>1, <1>4, <1>5
<1>7. ASSUME m.udid = u, DueFor(u) = {}
      PROVE  DueFor(u)' = {Len(Due) + 1}
  BY <1>4, <1>7
<1> QED BY <1>1, <1>6, <1>7

\* When nothing about a device is under way, no message about it is due.
LEMMA NothingDue ==
  ASSUME StreamAssumption, Typed, Streamed, ~cut, NEW u, Calm(u) PROVE DueFor(u) = {}
<1> SUFFICES ASSUME NEW i \in 1 .. Len(Due), Due[i].udid = u PROVE FALSE
  BY DEF DueFor
<1>1. CASE tool = "usbmux"
  <2>1. HeardInOrder /\ StreamTypeOK /\ Len(sent) \in Nat /\ Len(heard) \in Nat
    BY DEF Streamed, StreamInv, Typed, IosTypeOK, StreamTypeOK
  <2>2. Len(Due) = Len(sent) - Len(heard) /\ Due[i] = sent[Len(heard) + i]
    BY <1>1, <2>1, DueOfUsbmux
  <2>3. Len(heard) + i - 1 \in Len(heard) .. Len(sent) - 1
    BY <2>1, <2>2
  <2>4. Len(heard) + i - 1 + 1 = Len(heard) + i
    BY <2>1
  <2>5. \E c \in ToSet(pipe \o data) : c.msg = sent[Len(heard) + i]
    BY <2>1, <2>3, <2>4, UnheardIsUnderWay DEF Streamed
  <2> QED BY <2>2, <2>5 DEF Calm
<1>2. CASE tool # "usbmux"
  <2>1. Due = lines /\ i \in DOMAIN lines
    BY <1>2 DEF Due, Typed, IosTypeOK
  <2> QED BY <2>1 DEF Calm, ToSet
<1> QED BY <1>1, <1>2

----------------------------------------------------------------------------
(* What the table can differ from the devices by.                           *)

Once(u) == \A i, j \in DueFor(u) : i = j

\* A device that is attached has its row, or an 'attached' handler or message is
\* under way that brings it; and the tracker will know it by its DeviceID.
Coming(u) ==
  /\ removing[u] = 0
  /\ \A i \in DueFor(u) : Due[i] = Attached(u, attached[u])
  /\ <<u, attached[u]>> \in devices \/ DueFor(u) # {}
  /\ u \in table \/ adding[u] > 0 \/ DueFor(u) # {}

\* A device that is away has no row, or a 'detached' handler or message is under
\* way that removes it; and the tracker knows it by its DeviceID.
Going(u) ==
  /\ adding[u] = 0 /\ u \notin found
  /\ \A i \in DueFor(u) : Due[i].type = "Detached" /\ <<u, Due[i].id>> \in devices
  /\ u \notin table \/ removing[u] > 0 \/ DueFor(u) # {}

FollowedFor(u) ==
  /\ u \in found => attached[u] # 0
  /\ conn = "open" => Once(u)
  /\ conn = "open" /\ attached[u] # 0 => Coming(u)
  /\ conn = "open" /\ attached[u] = 0 => Going(u)

Followed == \A u \in Udids \ spoiled : FollowedFor(u)

LEMMA InitFollowed == ASSUME Init PROVE Followed
BY DEF Init, Followed, FollowedFor

\* The tracker has told the listeners the first n of the messages that were due.
Noticed(n, u) ==
  /\ n \in 1 .. Len(Due) /\ Due' = SubSeq(Due, n + 1, Len(Due))
  /\ UNCHANGED <<conn, attached, table, found>>
  /\ (\E i \in DueFor(u) : i <= n /\ Due[i].type = "Attached") => adding'[u] > 0
  /\ (\A i \in DueFor(u) : i <= n => Due[i].type # "Attached") => adding'[u] = adding[u]
  /\ (\E i \in DueFor(u) : i <= n /\ Due[i].type = "Detached" /\ <<u, Due[i].id>> \in devices)
       => removing'[u] > 0
  /\ (\A i \in DueFor(u) : i <= n => Due[i].type = "Attached") => removing'[u] = removing[u]
  /\ \A i \in DueFor(u) : i <= n /\ Due[i].type = "Attached" => <<u, Due[i].id>> \in devices'
  /\ \A id \in Ids :
       <<u, id>> \in devices /\ (\A i \in DueFor(u) : i > n) => <<u, id>> \in devices'

LEMMA NoticedFollowed ==
  ASSUME Typed, StreamAssumption, NEW u \in Udids, FollowedFor(u), NEW n, Noticed(n, u)
  PROVE  FollowedFor(u)'
<1>0. Due \in Seq(Message) /\ Len(Due) \in Nat /\ n \in 1 .. Len(Due)
  BY DueTyped DEF Noticed
<1>1. UNCHANGED <<conn, attached, table, found>>
  BY DEF Noticed
<1>2. /\ Len(Due') = Len(Due) - n
      /\ \A i \in 1 .. Len(Due) - n : Due'[i] = Due[n + i] /\ n + i \in 1 .. Len(Due)
  BY <1>0 DEF Noticed
<1>3. \A i \in DueFor(u)' : n + i \in DueFor(u) /\ Due'[i] = Due[n + i] /\ n + i > n /\ i \in Nat
  BY <1>0, <1>2 DEF DueFor
<1>4. ASSUME NEW i \in DueFor(u), i > n PROVE i - n \in DueFor(u)'
  <2>1. i \in 1 .. Len(Due) /\ Due[i].udid = u
    BY DEF DueFor
  <2>2. i - n \in 1 .. Len(Due) - n /\ n + (i - n) = i
    BY <1>0, <1>4, <2>1
  <2>3. Due'[i - n] = Due[n + (i - n)]
    BY <1>2, <2>2
  <2> QED BY <1>2, <2>1, <2>2, <2>3 DEF DueFor
<1>5. \A i \in DueFor(u) : i \in Nat /\ Due[i] \in Message
  BY <1>0 DEF DueFor
<1>6. ASSUME conn = "open" PROVE Once(u)'
  <2>1. ASSUME NEW i \in DueFor(u)', NEW j \in DueFor(u)' PROVE i = j
    <3>1. n + i = n + j
      BY <1>3, <1>6 DEF FollowedFor, Once
    <3> QED BY <1>0, <1>3, <3>1
  <2> QED BY <2>1 DEF Once
<1>7. ASSUME conn = "open", attached[u] # 0 PROVE Coming(u)'
  <2>0. Coming(u)
    BY <1>7 DEF FollowedFor
  <2>1. \A i \in DueFor(u) : Due[i] = Attached(u, attached[u])
    BY <2>0 DEF Coming
  <2>2. \A i \in DueFor(u) : Due[i].type = "Attached" /\ Due[i].id = attached[u]
    BY <2>1 DEF Attached
  <2>3. removing'[u] = 0
    BY <2>0, <2>2 DEF Noticed, Coming
  <2>4. \A i \in DueFor(u)' : Due'[i] = Attached(u, attached'[u])
    BY <1>1, <1>3, <2>1
  <2>5. CASE \E i \in DueFor(u) : i <= n
    <3>1. adding'[u] > 0
      BY <2>2, <2>5 DEF Noticed
    <3>2. <<u, attached[u]>> \in devices'
      BY <2>2, <2>5 DEF Noticed
    <3> QED BY <1>1, <2>3, <2>4, <3>1, <3>2 DEF Coming
  <2>6. CASE \A i \in DueFor(u) : i > n
    <3>0. \A i \in DueFor(u) : ~(i <= n)
      BY <1>0, <1>5, <2>6
    <3>1. adding'[u] = adding[u]
      BY <3>0 DEF Noticed
    <3>2. DueFor(u) # {} => DueFor(u)' # {}
      BY <1>4, <2>6
    <3>3. attached[u] \in Ids
      BY <1>7 DEF Typed, IosTypeOK, Ids, StreamAssumption
    <3>4. <<u, attached[u]>> \in devices => <<u, attached[u]>> \in devices'
      BY <2>6, <3>3 DEF Noticed
    <3> QED BY <1>1, <2>0, <2>3, <2>4, <3>1, <3>2, <3>4 DEF Coming
  <2> QED BY <1>0, <1>5, <2>5, <2>6
<1>8. ASSUME conn = "open", attached[u] = 0 PROVE Going(u)'
  <2>0. Going(u) /\ Once(u)
    BY <1>8 DEF FollowedFor
  <2>1. \A i \in DueFor(u) : Due[i].type = "Detached" /\ <<u, Due[i].id>> \in devices
    BY <2>0 DEF Going
  <2>2. adding'[u] = 0 /\ u \notin found'
    BY <1>1, <2>0, <2>1 DEF Noticed, Going
  <2>3. CASE \E i \in DueFor(u) : i <= n
    <3>1. removing'[u] > 0
      BY <2>1, <2>3 DEF Noticed
    <3>2. DueFor(u)' = {}
      <4>1. PICK i \in DueFor(u) : i <= n
        BY <2>3
      <4>2. ASSUME NEW j \in DueFor(u)' PROVE FALSE
        <5>1. n + j = i /\ n + j > n
          BY <1>3, <2>0, <4>1 DEF Once
        <5> QED BY <1>0, <1>3, <4>1, <5>1
      <4> QED BY <4>2
    <3> QED BY <2>2, <3>1, <3>2 DEF Going
  <2>4. CASE \A i \in DueFor(u) : i > n
    <3>0. \A i \in DueFor(u) : ~(i <= n)
      BY <1>0, <1>5, <2>4
    <3>1. removing'[u] = removing[u]
      BY <3>0 DEF Noticed
    <3>2. DueFor(u) # {} => DueFor(u)' # {}
      BY <1>4, <2>4
    <3>3. ASSUME NEW i \in DueFor(u)'
          PROVE  Due'[i].type = "Detached" /\ <<u, Due'[i].id>> \in devices'
      <4>1. n + i \in DueFor(u) /\ Due'[i] = Due[n + i]
        BY <1>3
      <4>2. Due[n + i].type = "Detached" /\ <<u, Due[n + i].id>> \in devices
        BY <2>1, <4>1
      <4>3. Due[n + i].id \in Ids
        BY <1>5, <4>1 DEF Message
      <4>4. <<u, Due[n + i].id>> \in devices'
        BY <2>4, <4>2, <4>3 DEF Noticed
      <4> QED BY <4>1, <4>2, <4>4
    <3> QED BY <1>1, <2>0, <2>2, <3>1, <3>2, <3>3 DEF Going
  <2> QED BY <1>0, <1>5, <2>3, <2>4
<1>9. u \in found' => attached'[u] # 0
  BY <1>1 DEF FollowedFor
<1> QED BY <1>1, <1>6, <1>7, <1>8, <1>9 DEF FollowedFor

\* Steps that concern other devices, or none.
LEMMA FollowedLeftAlone ==
  ASSUME NEW u, FollowedFor(u), UNCHANGED <<conn, Due, devices>>,
         adding'[u] = adding[u], removing'[u] = removing[u], attached'[u] = attached[u],
         u \in table' <=> u \in table, u \in found' <=> u \in found
  PROVE  FollowedFor(u)'
<1>1. DueFor(u)' = DueFor(u)
  BY DEF DueFor
<1> QED BY <1>1 DEF FollowedFor, Once, Coming, Going

\* The callback of createListener tells the listeners of one message.
LEMMA ParseEndNotices ==
  ASSUME StreamAssumption, Typed, Streamed, Phases, IdsOnce, ~cut, Track, ParseEnd, NEW u \in Udids
  PROVE  Noticed(1, u)
<1>0. tool = "usbmux" /\ conn = "open" /\ listeners > 0 /\ listeners \in Nat
  <2>1. data # <<>>
    BY DEF ParseEnd
  <2> QED BY <2>1 DEF Phases, Track, Typed, IosTypeOK
<1> DEFINE m == sent[Len(heard) + 1]
<1>1. Len(heard) < Len(sent) /\ heard' = Append(heard, m)
  BY EndInOrder DEF Typed, IosTypeOK, Streamed
<1>2. /\ sent \in Seq(Message) /\ heard \in Seq(Message)
      /\ Len(sent) \in Nat /\ Len(heard) \in Nat /\ HeardInOrder
  BY DEF Typed, IosTypeOK, StreamTypeOK, Streamed, StreamInv
<1>3. m \in Message /\ m \in Mentioned
  BY <1>1, <1>2 DEF Mentioned, Told
<1>4. Len(Due) \in Nat /\ 1 \in 1 .. Len(Due) /\ Due[1] = m
  BY <1>0, <1>1, <1>2, DueOfUsbmux
<1>5. Last(heard') = m /\ heard' # heard /\ msg'[1].msg = m
  <2>1. Last(Append(heard, m)) = m /\ Append(heard, m) # heard
    <3>1. Len(Append(heard, m)) = Len(heard) + 1 /\ Append(heard, m)[Len(heard) + 1] = m
      BY <1>2, <1>3
    <3>2. Append(heard, m) # heard
      BY <1>2, <3>1
    <3> QED BY <3>1, <3>2 DEF Last
  <2>2. heard' = Append(heard, msg'[1].msg) /\ msg'[1].msg \in Message
    BY MessageTyped DEF ParseEnd, Typed, IosTypeOK
  <2>3. msg'[1].msg = m
    <3> DEFINE e == msg'[1].msg
    <3>1. Append(heard, e) = Append(heard, m) /\ e \in Message
      BY <1>1, <2>2
    <3> HIDE DEF e, m
    <3>2. e = m
      BY <1>2, <1>3, <3>1, AppendInjective
    <3> QED BY <3>2 DEF e
  <2> QED BY <1>1, <2>1, <2>3
<1>6. UNCHANGED <<sent, tool, conn, attached, table, found>>
  BY DEF ParseEnd, Track, hostVars
<1>7. Due' = SubSeq(Due, 2, Len(Due))
  <2> DEFINE h == Len(heard)
  <2>1. h \in Nat /\ h < Len(sent) /\ Len(heard') = h + 1
    BY <1>1, <1>2, <1>3
  <2>2. Due' = SubSeq(sent, h + 1 + 1, Len(sent))
    BY <1>0, <1>6, <2>1 DEF Due
  <2>3. Due = SubSeq(sent, h + 1, Len(sent))
    BY <1>0 DEF Due
  <2> HIDE DEF h
  <2>4. SubSeq(SubSeq(sent, h + 1, Len(sent)), 2, Len(sent) - h) = SubSeq(sent, h + 1 + 1, Len(sent))
    BY <1>2, <2>1
  <2>5. Len(Due) = Len(sent) - h
    BY <1>2, <2>1, <2>3
  <2> QED BY <2>2, <2>3, <2>4, <2>5
<1>8. EmitFor(m) /\ Heed(m)
  BY <1>5 DEF Track, ParseEnd
<1> HIDE DEF m
<1>9. \A i \in DueFor(u) : i <= 1 <=> i = 1
  BY <1>4 DEF DueFor
<1>10. 1 \in DueFor(u) <=> m.udid = u
  BY <1>4 DEF DueFor
<1>11. \A d \in devices : d = <<d[1], d[2]>> /\ d[1] \in Udids /\ d[2] \in Ids
  BY DEF Typed, IosTypeOK, StreamTypeOK
<1>12. \A id \in Ids : id = m.id /\ <<u, id>> \in devices => m.udid = u
  <2>1. m.udid \in Udids /\ m.id \in Ids /\ Knows(m.udid, m.id)
    BY <1>3 DEF Message, Knows
  <2> QED BY <2>1 DEF IdsOnce, Knows
<1>13. m.type = "Attached" => <<m.udid, m.id>> \in devices'
  BY <1>8 DEF Heed
<1>14. ASSUME NEW id \in Ids, <<u, id>> \in devices, m.udid # u PROVE <<u, id>> \in devices'
  <2>1. id # m.id
    BY <1>12, <1>14
  <2> QED BY <1>8, <1>14, <2>1 DEF Heed
<1>15. adding[u] \in Nat /\ removing[u] \in Nat
  BY DEF Typed, IosTypeOK
<1>16. adding'[u] = adding[u] + IF m.type = "Attached" /\ m.udid = u THEN listeners ELSE 0
  BY <1>8 DEF EmitFor, Emit
<1>17. ASSUME m.type = "Detached", <<u, m.id>> \in devices PROVE removing'[u] = removing[u] + listeners
  <2>1. u \in {d[1] : d \in {e \in devices : e[2] = m.id}}
    BY <1>17
  <2> QED BY <1>8, <1>17, <2>1 DEF EmitFor, Emit
<1>18. ASSUME m.type # "Detached" \/ m.udid # u PROVE removing'[u] = removing[u]
  <2>1. m.type = "Detached" => u \notin {d[1] : d \in {e \in devices : e[2] = m.id}}
    BY <1>11, <1>12, <1>18
  <2> QED BY <1>8, <1>15, <2>1 DEF EmitFor, Emit
<1>19. (\E i \in DueFor(u) : i <= 1 /\ Due[i].type = "Attached") => adding'[u] > 0
  BY <1>0, <1>4, <1>9, <1>10, <1>15, <1>16
<1>20. (\A i \in DueFor(u) : i <= 1 => Due[i].type # "Attached") => adding'[u] = adding[u]
  BY <1>4, <1>9, <1>10, <1>15, <1>16
<1>21. (\E i \in DueFor(u) : i <= 1 /\ Due[i].type = "Detached" /\ <<u, Due[i].id>> \in devices)
         => removing'[u] > 0
  BY <1>0, <1>4, <1>9, <1>15, <1>17
<1>22. (\A i \in DueFor(u) : i <= 1 => Due[i].type = "Attached") => removing'[u] = removing[u]
  BY <1>4, <1>9, <1>10, <1>18
<1>23. \A i \in DueFor(u) : i <= 1 /\ Due[i].type = "Attached" => <<u, Due[i].id>> \in devices'
  BY <1>4, <1>9, <1>10, <1>13
<1>24. \A id \in Ids :
         <<u, id>> \in devices /\ (\A i \in DueFor(u) : i > 1) => <<u, id>> \in devices'
  BY <1>10, <1>14
<1> QED BY <1>4, <1>6, <1>7, <1>19, <1>20, <1>21, <1>22, <1>23, <1>24 DEF Noticed

\* notify tells them of the lines of a batch.
LEMMA BatchNotices ==
  ASSUME StreamAssumption, Typed, Phases, IdsOnce, NEW n \in 1 .. Len(lines), Batch(n),
         NEW u \in Udids
  PROVE  Noticed(n, u)
<1>0. lines \in Seq(Message) /\ Len(lines) \in Nat
  BY DEF Typed, IosTypeOK
<1>1. tool # "usbmux" /\ Due = lines /\ conn = "open" /\ listeners > 0 /\ listeners \in Nat
  <2>1. lines # <<>>
    BY <1>0
  <2> QED BY <2>1 DEF Phases, Due, Batch, Typed, IosTypeOK
<1>2. UNCHANGED <<tool, conn, attached, table, found>> /\ Due' = SubSeq(Due, n + 1, Len(Due))
  BY <1>1 DEF Batch, hostVars, Due
<1> DEFINE ms == SubSeq(lines, 1, n)
           map == devices \cup Learnt(ms)
<1>3. \A x : x \in ToSet(ms) <=> \E i \in 1 .. n : x = lines[i]
  <2>1. Len(ms) = n /\ DOMAIN ms = 1 .. n /\ \A i \in 1 .. n : ms[i] = lines[i]
    BY <1>0
  <2> QED BY <2>1 DEF ToSet
<1>4. \A x : x \in ToSet(ms) => x \in Message /\ x \in Mentioned
  BY <1>0, <1>3 DEF Mentioned, Printed
<1>5. \A i \in DueFor(u) : i <= n <=> i \in 1 .. n
  BY <1>0, <1>1 DEF DueFor
<1>6. \A i \in 1 .. n : i \in DueFor(u) <=> lines[i].udid = u
  BY <1>0, <1>1 DEF DueFor
<1>7. devices' = map
  BY DEF Batch
<1>8. \A d \in map : d = <<d[1], d[2]>> /\ d[1] \in Udids /\ d[2] \in Ids /\ Knows(d[1], d[2])
  <2>1. ASSUME NEW d \in devices
        PROVE  d = <<d[1], d[2]>> /\ d[1] \in Udids /\ d[2] \in Ids /\ Knows(d[1], d[2])
    <3>1. d \in Udids \X Ids
      BY DEF Typed, IosTypeOK, StreamTypeOK
    <3>2. d = <<d[1], d[2]>>
      BY <3>1
    <3> QED BY <3>1, <3>2 DEF Knows
  <2>2. ASSUME NEW d \in Learnt(ms)
        PROVE  d = <<d[1], d[2]>> /\ d[1] \in Udids /\ d[2] \in Ids /\ Knows(d[1], d[2])
    <3>1. PICK x \in ToSet(ms) : d = <<x.udid, x.id>>
      BY DEF Learnt
    <3>2. x.udid \in Udids /\ x.id \in Ids /\ x \in Mentioned
      BY <1>4 DEF Message
    <3> QED BY <3>1, <3>2 DEF Knows
  <2> QED BY <2>1, <2>2
<1>9. ASSUME NEW d \in map, NEW x \in ToSet(ms), d[2] = x.id PROVE d[1] = x.udid
  <2>1. x.udid \in Udids /\ x.id \in Ids /\ Knows(x.udid, x.id)
    BY <1>4 DEF Message, Knows
  <2> QED BY <1>8, <1>9, <2>1 DEF IdsOnce
<1> DEFINE A == UNION {{m.udid} : m \in {x \in ToSet(ms) : x.type = "Attached"}}
           R == UNION {UdidOfId(map, m.id) : m \in {x \in ToSet(ms) : x.type # "Attached"}}
<1>10. Emit(A, R)
  BY DEF Batch
<1>11. u \in A <=> \E i \in 1 .. n : lines[i].type = "Attached" /\ lines[i].udid = u
  BY <1>3
<1>12. u \in R => \E i \in 1 .. n : lines[i].type # "Attached" /\ lines[i].udid = u
  <2>1. ASSUME u \in R PROVE \E i \in 1 .. n : lines[i].type # "Attached" /\ lines[i].udid = u
    <3>1. PICK x \in ToSet(ms) : x.type # "Attached" /\ u \in UdidOfId(map, x.id)
      BY <2>1
    <3>2. PICK d \in map : d[2] = x.id /\ d[1] = u
      BY <3>1 DEF UdidOfId
    <3>3. x.udid = u
      BY <1>9, <3>2
    <3> QED BY <1>3, <3>1, <3>3
  <2> QED BY <2>1
<1>13. ASSUME NEW i \in 1 .. n, lines[i].type = "Detached", <<u, lines[i].id>> \in devices
       PROVE  u \in R
  <2>1. lines[i] \in ToSet(ms) /\ lines[i].type # "Attached"
    BY <1>3, <1>13
  <2>2. u \in UdidOfId(map, lines[i].id)
    BY <1>13 DEF UdidOfId
  <2> QED BY <2>1, <2>2
<1>14. \A i \in 1 .. n : lines[i].type = "Attached" => <<lines[i].udid, lines[i].id>> \in map
  BY <1>3 DEF Learnt
<1>15. \A d \in devices : d \in map
  OBVIOUS
<1> HIDE DEF ms, map, A, R
<1>16. adding[u] \in Nat /\ removing[u] \in Nat
  BY DEF Typed, IosTypeOK
<1>17. /\ adding'[u] = adding[u] + IF u \in A THEN listeners ELSE 0
       /\ removing'[u] = removing[u] + IF u \in R THEN listeners ELSE 0
  BY <1>10 DEF Emit
<1>18. (\E i \in DueFor(u) : i <= n /\ Due[i].type = "Attached") => adding'[u] > 0
  BY <1>1, <1>5, <1>6, <1>11, <1>16, <1>17
<1>19. (\A i \in DueFor(u) : i <= n => Due[i].type # "Attached") => adding'[u] = adding[u]
  BY <1>1, <1>5, <1>6, <1>11, <1>16, <1>17
<1>20. (\E i \in DueFor(u) : i <= n /\ Due[i].type = "Detached" /\ <<u, Due[i].id>> \in devices)
         => removing'[u] > 0
  BY <1>1, <1>5, <1>13, <1>16, <1>17
<1>21. (\A i \in DueFor(u) : i <= n => Due[i].type = "Attached") => removing'[u] = removing[u]
  BY <1>1, <1>5, <1>6, <1>12, <1>16, <1>17
<1>22. \A i \in DueFor(u) : i <= n /\ Due[i].type = "Attached" => <<u, Due[i].id>> \in devices'
  BY <1>1, <1>5, <1>6, <1>7, <1>14
<1>23. \A id \in Ids :
         <<u, id>> \in devices /\ (\A i \in DueFor(u) : i > n) => <<u, id>> \in devices'
  BY <1>7, <1>15
<1>24. n \in 1 .. Len(Due)
  BY <1>1
<1> QED BY <1>2, <1>18, <1>19, <1>20, <1>21, <1>22, <1>23, <1>24 DEF Noticed

\* A step of the tracker.
LEMMA TrackFollowed ==
  ASSUME StreamAssumption, Typed, Streamed, Phases, IdsOnce, Followed, Track PROVE Followed'
<1> SUFFICES ASSUME NEW u \in Udids, u \notin spoiled' PROVE FollowedFor(u)'
  BY DEF Followed
<1>1. ~cut' /\ u \notin spoiled
  BY DEF Track
<1>2. ~cut /\ FollowedFor(u)
  BY <1>1 DEF Phases, Followed
<1>3. CASE ParseEnd
  BY <1>2, <1>3, ParseEndNotices, NoticedFollowed
<1>4. CASE ~ParseEnd
  <2>1. ~ParseThrows /\ ~ParseGuesses
    BY <1>2, NothingWrong DEF Typed, IosTypeOK, Streamed
  <2>2. UNCHANGED <<sent, heard, devices, tool, conn, lines, attached, table, found>>
    BY <1>4, <2>1 DEF Track, Parse, ParseHeader, ParsePart, Receive, hostVars
  <2>3. UNCHANGED <<adding, removing>>
    BY <2>2 DEF Track, handlerVars
  <2> QED BY <1>2, <2>2, <2>3, FollowedLeftAlone DEF Due
<1> QED BY <1>3, <1>4

LEMMA BatchFollowed ==
  ASSUME StreamAssumption, Typed, Phases, IdsOnce, Followed,
         NEW n \in 1 .. Len(lines), Batch(n) \/ BatchDropped(n)
  PROVE  Followed'
<1>1. CASE Batch(n)
  <2>1. ASSUME NEW u \in Udids, u \notin spoiled' PROVE FollowedFor(u)'
    <3>1. FollowedFor(u)
      BY <1>1, <2>1 DEF Batch, Followed
    <3> QED BY <1>1, <3>1, BatchNotices, NoticedFollowed
  <2> QED BY <2>1 DEF Followed
<1>2. CASE BatchDropped(n)
  BY <1>2 DEF BatchDropped, Followed
<1> QED BY <1>1, <1>2

\* The listeners' handlers: one that fails spoils the view of its device.
LEMMA HandlersFollowed ==
  ASSUME Typed, Phases, Followed, NEW w \in Udids, Added(w) \/ InfoFails(w) \/ Removed(w)
  PROVE  Followed'
<1> SUFFICES ASSUME NEW u \in Udids, u \notin spoiled' PROVE FollowedFor(u)'
  BY DEF Followed
<1>0. UNCHANGED <<Due, devices, conn, attached, found>> /\ u \notin spoiled
  BY DEF Added, InfoFails, Removed, Due, streamVars, hostVars
<1>1. FollowedFor(u) /\ DueFor(u)' = DueFor(u)
  BY <1>0 DEF Followed, DueFor
<1>2. /\ \A v \in Udids : adding[v] \in Nat /\ removing[v] \in Nat
      /\ adding \in [Udids -> Nat] /\ removing \in [Udids -> Nat]
  BY DEF Typed, IosTypeOK
<1>3. CASE u # w
  <2>1. adding'[u] = adding[u] /\ removing'[u] = removing[u] /\ (u \in table' <=> u \in table)
    BY <1>2, <1>3 DEF Added, InfoFails, Removed, hostVars
  <2> QED BY <1>0, <1>1, <2>1, FollowedLeftAlone
<1>4. CASE u = w /\ Added(w)
  <2>1. adding[u] > 0 /\ u \in table' /\ removing' = removing
    BY <1>4 DEF Added
  <2>2. ~Going(u)
    BY <2>1 DEF Going
  <2> QED BY <1>0, <1>1, <2>1, <2>2 DEF FollowedFor, Once, Coming, Going
<1>5. CASE u = w /\ InfoFails(w)
  <2>1. adding[u] > 0 /\ attached[u] = 0
    BY <1>5 DEF InfoFails
  <2>2. conn # "open"
    BY <1>1, <2>1 DEF FollowedFor, Going
  <2> QED BY <1>0, <1>1, <2>2 DEF FollowedFor
<1>6. CASE u = w /\ Removed(w)
  <2>1. removing[u] > 0 /\ u \notin table' /\ adding' = adding
    BY <1>6 DEF Removed
  <2>2. ~Coming(u)
    BY <2>1 DEF Coming
  <2> QED BY <1>0, <1>1, <2>1, <2>2 DEF FollowedFor, Once, Coming, Going
<1> QED BY <1>3, <1>4, <1>5, <1>6

\* The messages of a new tracker.
LEMMA NewTrackerFollowed ==
  ASSUME StreamAssumption, Typed, Phases, conn = "none", TrackDevices, NEW u \in Udids,
         FollowedFor(u)
  PROVE  FollowedFor(u)'
<1>0. News \in Seq(Message)
  BY NewsOfPresent DEF Typed
<1>1. /\ sent = <<>> /\ heard = <<>> /\ u \notin table
      /\ adding[u] = 0 /\ removing[u] = 0
  BY DEF Phases, Untracked
<1>2. UNCHANGED <<tool, attached, table, found, adding, removing>> /\ conn' = "open"
  BY DEF TrackDevices, handlerVars
<1>3. Due' = News
  <2>1. CASE tool = "usbmux"
    <3>1. sent' = <<>> \o News /\ heard' = <<>>
      BY <1>1, <2>1 DEF TrackDevices, Write, News
    <3>2. sent' = News
      BY <1>0, <3>1, ConcatEmptySeq
    <3>3. SubSeq(News, 1, Len(News)) = News
      BY <1>0, SubSeqFull
    <3>4. Len(heard') + 1 = 1
      BY <3>1
    <3> QED BY <1>2, <2>1, <3>2, <3>3, <3>4 DEF Due
  <2>2. CASE tool # "usbmux"
    BY <1>2, <2>2 DEF TrackDevices, News, Due
  <2> QED BY <2>1, <2>2
<1>4. DueFor(u)' = {i \in 1 .. Len(News) : News[i].udid = u}
  BY <1>3 DEF DueFor
<1>5. \A i \in 1 .. Len(News) :
        News[i].udid = u => attached[u] # 0 /\ News[i] = Attached(u, attached[u])
  <2>1. ASSUME NEW i \in 1 .. Len(News), News[i].udid = u
        PROVE  attached[u] # 0 /\ News[i] = Attached(u, attached[u])
    <3>1. PICK v \in Present : News[i] = Attached(v, attached[v])
      BY NewsOfPresent DEF Typed
    <3>2. v = u
      BY <2>1, <3>1 DEF Attached
    <3> QED BY <3>1, <3>2 DEF Present
  <2> QED BY <2>1
<1>6. Once(u)'
  <2>1. \A i, j \in 1 .. Len(News) : News[i].udid = News[j].udid => i = j
    BY NewsOfPresent DEF Typed
  <2> QED BY <1>4, <2>1 DEF Once
<1>7. ASSUME attached[u] # 0 PROVE Coming(u)'
  <2>1. PICK i \in 1 .. Len(News) : News[i] = Attached(u, attached[u])
    BY <1>7, NewsOfPresent DEF Typed, Present
  <2>2. DueFor(u)' # {}
    BY <1>4, <2>1 DEF Attached
  <2> QED BY <1>1, <1>2, <1>3, <1>4, <1>5, <2>2 DEF Coming
<1>8. ASSUME attached[u] = 0 PROVE Going(u)'
  <2>1. DueFor(u)' = {}
    BY <1>4, <1>5, <1>8
  <2>2. u \notin found
    BY <1>8 DEF FollowedFor
  <2> QED BY <1>1, <1>2, <2>1, <2>2 DEF Going
<1> QED BY <1>2, <1>6, <1>7, <1>8 DEF FollowedFor

\* A listing finds attached devices, and stores them.
LEMMA ListingFollowed ==
  ASSUME StreamAssumption, Typed, Phases, Followed,
         List \/ ListFails \/ TrackDevices \/ ListStores
  PROVE  Followed'
<1> SUFFICES ASSUME NEW u \in Udids, u \notin spoiled' PROVE FollowedFor(u)'
  BY DEF Followed
<1>0. UNCHANGED <<tool, attached, adding, removing>> /\ u \notin spoiled
  BY DEF List, ListFails, TrackDevices, ListStores, handlerVars
<1>1. FollowedFor(u)
  BY <1>0 DEF Followed
<1>2. CASE TrackDevices
  <2>1. CASE conn = "none"
    BY <1>1, <1>2, <2>1, NewTrackerFollowed
  <2>2. CASE conn # "none"
    BY <1>0, <1>1, <1>2, <2>2, FollowedLeftAlone DEF TrackDevices, Due, streamVars
  <2> QED BY <2>1, <2>2
<1>3. CASE List \/ ListFails \/ ListStores
  <2>1. UNCHANGED <<Due, devices, conn>> /\ DueFor(u)' = DueFor(u)
    BY <1>3 DEF List, ListFails, ListStores, Due, DueFor, streamVars
  <2>2. u \in found' => attached[u] # 0
    BY <1>3 DEF List, ListFails, ListStores, Present
  <2>3. u \in table' <=> u \in table \/ (ListStores /\ u \in found)
    BY <1>3 DEF List, ListFails, ListStores
  <2>4. attached[u] = 0 => u \notin found
    BY <1>1 DEF FollowedFor
  <2> QED BY <1>0, <1>1, <2>1, <2>2, <2>3, <2>4 DEF FollowedFor, Once, Coming, Going
<1> QED BY <1>2, <1>3

\* A report about one device is none about another.
LEMMA OthersReported ==
  ASSUME Typed, Streamed, Phases, NEW m \in Message, Report(m), UNCHANGED <<tool, conn>>,
         NEW u \in Udids, m.udid # u, FollowedFor(u), conn = "open" => ~cut,
         attached'[u] = attached[u], UNCHANGED <<table, found, adding, removing>>
  PROVE  FollowedFor(u)'
<1>1. CASE conn = "open"
  <2>1. Due' = Append(Due, m) /\ devices' = devices
    BY <1>1, DueOnReport
  <2>2. DueFor(u)' = DueFor(u) /\ \A i \in DueFor(u) : Due'[i] = Due[i]
    BY <2>1, DueForOnReport
  <2> QED BY <2>1, <2>2 DEF FollowedFor, Once, Coming, Going
<1>2. CASE conn # "open"
  BY <1>2 DEF FollowedFor
<1> QED BY <1>1, <1>2

\* A device comes or goes when nothing about it is under way, or its view is spoiled.
LEMMA OutsideFollowed ==
  ASSUME StreamAssumption, Typed, Streamed, Phases, Followed, Outside PROVE Followed'
<1>0. MaxId \in Nat
  BY DEF StreamAssumption
<1>1. ASSUME NEW w \in Udids, Plug(w) \/ Unplug(w) \/ Pair(w), NEW u \in Udids, u \notin spoiled'
      PROVE  FollowedFor(u)'
  <2>1. /\ UNCHANGED <<tool, conn, table, found, adding, removing>>
        /\ u \notin spoiled
    BY <1>1 DEF Plug, Unplug, Pair, Spoil, hostVars, handlerVars
  <2>2. FollowedFor(u) /\ ~cut
    BY <2>1 DEF Followed, Phases
  <2>3. PICK m \in Message :
          /\ Report(m) /\ m.udid = w
          /\ \/ Plug(w) /\ m = Attached(w, nextId)
             \/ Unplug(w) /\ m = Detached(w, attached[w])
             \/ Pair(w)
    <3>1. Plug(w) => nextId \in Ids
      BY <1>0 DEF Plug, Typed, IosTypeOK, Ids
    <3>2. Unplug(w) \/ Pair(w) => attached[w] \in Ids
      BY <1>0 DEF Unplug, Pair, Typed, IosTypeOK, Ids
    <3>3. CASE Plug(w)
      <4>1. Attached(w, nextId) \in Message /\ Report(Attached(w, nextId))
        BY <3>1, <3>3, MessagesTyped DEF Plug
      <4>2. Attached(w, nextId).udid = w
        BY DEF Attached
      <4> QED BY <3>3, <4>1, <4>2
    <3>4. CASE Unplug(w)
      BY <3>2, <3>4, MessagesTyped DEF Unplug, Detached
    <3>5. CASE Pair(w)
      BY <3>2, <3>5, MessagesTyped DEF Pair, Paired
    <3> QED BY <1>1, <3>3, <3>4, <3>5
  <2>4. CASE u # w
    <3>1. attached'[u] = attached[u]
      BY <1>1, <2>4 DEF Plug, Unplug, Pair, hostVars, Typed, IosTypeOK
    <3> QED BY <2>1, <2>2, <2>3, <2>4, <3>1, OthersReported
  <2>5. CASE u = w
    <3>1. ~Pair(w) /\ Calm(u)
      BY <1>1, <2>5 DEF Plug, Unplug, Pair, Spoil
    <3>2. adding[u] = 0 /\ removing[u] = 0 /\ u \notin found /\ DueFor(u) = {}
      BY <2>2, <3>1, NothingDue DEF Calm, Typed, Counted
    <3>3. CASE conn # "open"
      BY <2>1, <3>2, <3>3 DEF FollowedFor
    <3>4. CASE conn = "open"
      <4>1. Due' = Append(Due, m) /\ devices' = devices
        BY <2>1, <2>2, <2>3, <3>4, DueOnReport
      <4>2. /\ DueFor(u)' # {} /\ \A i \in DueFor(u)' : Due'[i] = m
            /\ \A i, j \in DueFor(u)' : i = j
        <5>1. m \in Message /\ m.udid = u
          BY <2>3, <2>5
        <5>2. DueFor(u)' = {Len(Due) + 1} /\ Due'[Len(Due) + 1] = m
          BY <3>2, <4>1, <5>1, DueForOnReport
        <5> QED BY <5>2
      <4>3. CASE Plug(w) /\ m = Attached(w, nextId)
        <5>1. attached'[u] = nextId /\ nextId # 0
          BY <2>5, <4>3 DEF Plug, Typed, IosTypeOK
        <5> QED BY <2>1, <2>5, <3>2, <4>2, <4>3, <5>1 DEF FollowedFor, Once, Coming
      <4>4. CASE Unplug(w) /\ m = Detached(w, attached[w])
        <5>1. attached'[u] = 0 /\ attached[u] # 0
          BY <2>5, <4>4 DEF Unplug, Typed, IosTypeOK
        <5>2. <<u, attached[u]>> \in devices
          BY <2>2, <3>2, <3>4, <5>1 DEF FollowedFor, Coming
        <5>3. \A i \in DueFor(u)' : Due'[i].type = "Detached" /\ Due'[i].id = attached[u]
          BY <2>5, <4>2, <4>4 DEF Detached
        <5> QED BY <2>1, <3>2, <4>1, <4>2, <5>1, <5>2, <5>3 DEF FollowedFor, Once, Going
      <4> QED BY <2>3, <3>1, <4>3, <4>4
    <3> QED BY <3>3, <3>4
  <2> QED BY <2>4, <2>5
<1>2. CASE TrackerEnds
  BY <1>2 DEF TrackerEnds, Followed
<1> QED BY <1>1, <1>2 DEF Outside, Followed

LEMMA NextFollowed ==
  ASSUME StreamAssumption, Typed, Streamed, Phases, IdsOnce, Followed, [Next]_vars
  PROVE  Followed'
<1>1. CASE UNCHANGED vars
  BY <1>1, FollowedLeftAlone DEF Followed, vars, streamVars, hostVars, handlerVars, Due
<1> QED BY <1>1, TrackFollowed, BatchFollowed, HandlersFollowed, ListingFollowed,
           OutsideFollowed DEF Next, Lines, Handlers, Listing

LEMMA FollowedIsInvariant == Spec => []Followed
<1>1. Init => Followed
  BY InitFollowed
<1>2. MirrorInv /\ Followed /\ [Next]_vars => Followed'
  BY NextFollowed, StreamAssumption DEF MirrorInv
<1> QED BY <1>1, <1>2, MirrorIsInvariant, PTL DEF Spec

\* For any number of devices and listings, and whichever of the two trackers: when
\* nothing about a device is under way and nothing spoiled its view, the table lists
\* it if and only if it is attached.
THEOREM TableIsFollowed == Spec => []TableFollowsDevices
<1>1. MirrorInv /\ Followed => TableFollowsDevices
  <2>1. ASSUME MirrorInv, Followed, NEW u \in Udids, conn = "open", Calm(u), u \notin spoiled
        PROVE  u \in table <=> attached[u] # 0
    <3>1. FollowedFor(u) /\ ~cut
      BY <2>1 DEF MirrorInv, Followed, Phases
    <3>2. DueFor(u) = {} /\ adding[u] = 0 /\ removing[u] = 0
      BY <2>1, <3>1, NothingDue, StreamAssumption DEF MirrorInv, Calm
    <3> QED BY <2>1, <3>1, <3>2 DEF FollowedFor, Coming, Going
  <2> QED BY <2>1 DEF TableFollowsDevices
<1> QED BY <1>1, MirrorIsInvariant, FollowedIsInvariant, PTL
====
