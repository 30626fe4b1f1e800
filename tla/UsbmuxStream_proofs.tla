-------------------------- MODULE UsbmuxStream_proofs --------------------------
(***************************************************************************)
(* What UsbmuxStream's actions do to the stream, for bodies of any length, *)
(* any messages and chunks of any size.                                    *)
(***************************************************************************)
EXTENDS UsbmuxStream, SequenceTheorems, FiniteSetTheorems, TLAPS

----------------------------------------------------------------------------
(* Numbers. *)

\* The length of a message is a positive number.
LEMMA SizeType == ASSUME StreamAssumption PROVE Size \in Nat /\ Size > Header /\ Size = Header + Body
BY DEF StreamAssumption, Size, Header

\* The p-th cell of the message after h others.
LEMMA PlaceOf ==
  ASSUME NEW n \in Nat \ {0}, NEW h \in Nat, NEW p \in 1 .. n, NEW j \in Int, j = n * h + p
  PROVE  (j - 1) \div n = h /\ (j - 1) % n = p - 1
BY Z3

\* Every cell of k messages is in one of them.
LEMMA PlaceIn ==
  ASSUME NEW n \in Nat \ {0}, NEW k \in Nat, NEW j \in 1 .. n * k
  PROVE  /\ (j - 1) \div n \in 0 .. k - 1
         /\ (j - 1) % n \in 0 .. n - 1
         /\ j = n * ((j - 1) \div n) + ((j - 1) % n) + 1
BY Z3

----------------------------------------------------------------------------
(* Types. *)

\* A message has cells.
LEMMA CellTyped ==
  ASSUME StreamAssumption, NEW ms \in Seq(Message), NEW k \in 1 .. Size * Len(ms)
  PROVE  CellOf(ms, k) \in Cell
<1>1. Size \in Nat \ {0} /\ Len(ms) \in Nat
  BY SizeType DEF Header
<1>2. (k - 1) \div Size \in 0 .. Len(ms) - 1 /\ (k - 1) % Size \in 0 .. Size - 1
  BY <1>1, PlaceIn
<1>3. ms[(k - 1) \div Size + 1] \in Message
  BY <1>1, <1>2
<1> QED BY <1>1, <1>2, <1>3 DEF CellOf, Cell

\* So do several.
LEMMA CellsTyped ==
  ASSUME StreamAssumption, NEW ms \in Seq(Message)
  PROVE  /\ [k \in 1 .. Size * Len(ms) |-> CellOf(ms, k)] \in Seq(Cell)
         /\ Len([k \in 1 .. Size * Len(ms) |-> CellOf(ms, k)]) = Size * Len(ms)
<1>1. Size * Len(ms) \in Nat
  BY SizeType
<1> QED BY <1>1, CellTyped

\* What usbmuxd writes is typed.
LEMMA WriteTyped ==
  ASSUME StreamAssumption, StreamTypeOK, NEW ms \in Seq(Message), Write(ms)
  PROVE  StreamTypeOK'
<1>1. sent' \in Seq(Message)
  BY DEF StreamTypeOK, Write
<1>2. pipe' \in Seq(Cell)
  <2> DEFINE new == [k \in 1 .. Size * Len(ms) |-> CellOf(ms, k)]
  <2>1. pipe \in Seq(Cell) /\ new \in Seq(Cell) /\ pipe' = pipe \o new
    BY CellsTyped DEF StreamTypeOK, Write
  <2> HIDE DEF new
  <2> QED BY <2>1
<1> QED BY <1>1, <1>2 DEF StreamTypeOK, Write, parserVars

\* The arrival of a chunk is typed.
LEMMA ReceiveTyped ==
  ASSUME StreamTypeOK, NEW n \in 1 .. Len(pipe), Receive(n)
  PROVE  StreamTypeOK'
<1>1. data' \in Seq(Cell) /\ pipe' \in Seq(Cell)
  BY DEF StreamTypeOK, Receive
<1>2. cut' \in BOOLEAN
  BY DEF StreamTypeOK, Receive, EndsInHeader
<1> QED BY <1>1, <1>2 DEF StreamTypeOK, Receive

\* The callback keeps pairs of a udid and its DeviceID.
LEMMA HeedTyped ==
  ASSUME StreamTypeOK, NEW m \in Message, Heed(m) PROVE devices' \subseteq Udids \X Ids
BY DEF StreamTypeOK, Message, Heed

\* Within a message some cells are taken, no more than there are.
LEMMA TakenSome ==
  ASSUME StreamTypeOK, data # <<>>, len > 0
  PROVE  /\ Taken \in 1 .. Len(data) /\ Taken <= len
         /\ SubSeq(data, 1, Taken) \in Seq(Cell) /\ Len(SubSeq(data, 1, Taken)) = Taken
         /\ Rest \in Seq(Cell)
         /\ msg \o SubSeq(data, 1, Taken) \in Seq(Cell)
         /\ Len(msg \o SubSeq(data, 1, Taken)) = Len(msg) + Taken
<1>1. Len(data) \in Nat \ {0} /\ len \in Nat
  BY DEF StreamTypeOK
<1>2. Taken \in 1 .. Len(data) /\ Taken <= len
  BY <1>1 DEF Taken
<1> QED BY <1>1, <1>2 DEF StreamTypeOK, Rest

\* The message that has been put together is one.
LEMMA MessageTyped ==
  ASSUME StreamTypeOK, data # <<>>, len > 0
  PROVE  LET whole == msg \o SubSeq(data, 1, Taken)
         IN whole[1] \in Cell /\ whole[1].msg \in Message
<1>1. (msg \o SubSeq(data, 1, Taken))[1] \in Cell
  BY TakenSome DEF StreamTypeOK
<1> QED BY <1>1 DEF Cell

\* Parsing is typed.
LEMMA ParseTyped == ASSUME StreamAssumption, StreamTypeOK, Parse PROVE StreamTypeOK'
<1>1. CASE ParseHeader
  <2>1. len' \in Nat
    BY <1>1, SizeType DEF ParseHeader, LengthIn, StreamAssumption
  <2> QED BY <1>1, <2>1 DEF StreamTypeOK, ParseHeader, Header
<1>2. CASE ParsePart
  <2>1. data # <<>> /\ len > 0 /\ len \in Nat
    <3>1. Len(data) \in Nat \ {0} /\ len \in Nat /\ len > Taken
      BY <1>2 DEF StreamTypeOK, ParsePart
    <3> QED BY <1>2, <3>1 DEF ParsePart, Taken
  <2>2. Taken \in Nat /\ Taken <= len /\ Rest \in Seq(Cell)
    BY <2>1, TakenSome DEF StreamTypeOK
  <2>3. len' \in Nat /\ data' \in Seq(Cell)
    BY <1>2, <2>1, <2>2 DEF ParsePart
  <2> QED BY <1>2, <2>3 DEF StreamTypeOK, ParsePart
<1>3. CASE ParseEnd
  <2>1. data # <<>> /\ len > 0 /\ msg' = msg \o SubSeq(data, 1, Taken)
    BY <1>3 DEF ParseEnd
  <2>2. msg'[1].msg \in Message /\ msg' \in Seq(Cell) /\ Rest \in Seq(Cell)
    BY <2>1, TakenSome, MessageTyped
  <2>3. devices' \subseteq Udids \X Ids
    BY <1>3, <2>2, HeedTyped DEF ParseEnd
  <2> QED BY SMTT(30), <1>3, <2>2, <2>3 DEF StreamTypeOK, ParseEnd
<1>4. CASE ParseThrows
  <2>1. msg' \in Seq(Cell)
    BY <1>4, TakenSome DEF ParseThrows
  <2> QED BY <1>4, <2>1 DEF StreamTypeOK, ParseThrows
<1>5. CASE ParseGuesses
  <2>1. data # <<>> /\ len > 0 /\ msg' = msg \o SubSeq(data, 1, Taken)
    BY <1>5 DEF ParseGuesses
  <2>2. msg'[1].msg \in Message /\ msg' \in Seq(Cell) /\ Rest \in Seq(Cell)
    BY <2>1, TakenSome, MessageTyped
  <2>3. devices' \subseteq Udids \X Ids
    BY <1>5, <2>2, HeedTyped DEF ParseGuesses
  <2> QED BY SMTT(30), <1>5, <2>2, <2>3 DEF StreamTypeOK, ParseGuesses
<1> QED BY <1>1, <1>2, <1>3, <1>4, <1>5 DEF Parse

----------------------------------------------------------------------------
(* The stream and the parser, as long as no chunk has ended in a header.    *)

\* How many cells have been parsed.
Start == Size * Len(sent) - Len(data) - Len(pipe)

\* The chunk and the pipe are what is left of the stream of all messages.
InOrder ==
  /\ \A k \in 1 .. Len(data) : data[k] = CellOf(sent, Start + k)
  /\ \A k \in 1 .. Len(pipe) : pipe[k] = CellOf(sent, Start + Len(data) + k)

HeardInOrder ==
  /\ Len(heard) <= Len(sent)
  /\ \A i \in 1 .. Len(heard) : heard[i] = sent[i]

\* The parser stands before a message, or it has so much of the body.
Between == len = 0 /\ Start = Size * Len(heard)

Within ==
  /\ Len(heard) < Len(sent)
  /\ len \in 1 .. Body
  /\ Start = Size * Len(heard) + Size - len
  /\ Len(msg) = Body - len
  /\ \A i \in 1 .. Len(msg) : msg[i] = [msg |-> sent[Len(heard) + 1], pos |-> Header + i]

WholeHeaders == data # <<>> => data[Len(data)].pos >= Header

StreamInv == ~cut => InOrder /\ HeardInOrder /\ (Between \/ Within) /\ WholeHeaders

\* The cells of a message, by their positions.
LEMMA CellAt ==
  ASSUME StreamAssumption, NEW ms \in Seq(Message), NEW h \in 0 .. Len(ms) - 1,
         NEW p \in 1 .. Size
  PROVE  CellOf(ms, Size * h + p) = [msg |-> ms[h + 1], pos |-> p]
<1> DEFINE j == Size * h + p
<1>1. Size \in Nat \ {0}
  BY SizeType DEF Header
<1>2. h \in Nat /\ p \in 1 .. Size
  BY <1>1
<1>3. j \in Int /\ j = Size * h + p
  BY <1>1, <1>2
<1> HIDE DEF j
<1>4. (j - 1) \div Size = h /\ (j - 1) % Size = p - 1
  BY <1>1, <1>2, <1>3, PlaceOf
<1>5. CellOf(ms, j) = [msg |-> ms[h + 1], pos |-> p]
  BY <1>1, <1>2, <1>3, <1>4 DEF CellOf
<1> QED BY <1>5 DEF j

\* More messages do not change the cells of those before, and come after them.
LEMMA CellsOfMore ==
  ASSUME StreamAssumption, NEW ms \in Seq(Message), NEW more \in Seq(Message)
  PROVE  /\ \A j \in 1 .. Size * Len(ms) : CellOf(ms \o more, j) = CellOf(ms, j)
         /\ \A j \in 1 .. Size * Len(more) :
              CellOf(ms \o more, Size * Len(ms) + j) = CellOf(more, j)
<1>1. Size \in Nat \ {0} /\ Len(ms) \in Nat /\ Len(more) \in Nat
  BY SizeType DEF Header
<1>2. ASSUME NEW j \in 1 .. Size * Len(ms) PROVE CellOf(ms \o more, j) = CellOf(ms, j)
  <2>1. (j - 1) \div Size \in 0 .. Len(ms) - 1
    BY <1>1, PlaceIn
  <2>2. (ms \o more)[(j - 1) \div Size + 1] = ms[(j - 1) \div Size + 1]
    BY <1>1, <2>1
  <2> QED BY <2>2 DEF CellOf
<1>3. ASSUME NEW j \in 1 .. Size * Len(more)
      PROVE  CellOf(ms \o more, Size * Len(ms) + j) = CellOf(more, j)
  <2> DEFINE h == (j - 1) \div Size
             p == (j - 1) % Size
  <2>1. h \in 0 .. Len(more) - 1 /\ p \in 0 .. Size - 1 /\ j = Size * h + p + 1
    BY <1>1, PlaceIn
  <2>2. CellOf(more, j) = [msg |-> more[h + 1], pos |-> p + 1]
    BY DEF CellOf
  <2> HIDE DEF h, p
  <2>3. Len(ms) + h \in 0 .. Len(ms \o more) - 1 /\ p + 1 \in 1 .. Size
    BY <1>1, <2>1
  <2>4. Size * Len(ms) + j = Size * (Len(ms) + h) + (p + 1)
    <3>1. Size \in Nat /\ Len(ms) \in Nat /\ h \in Nat /\ p \in Nat /\ j = Size * h + p + 1
      BY <1>1, <2>1
    <3> QED BY <3>1, Z3
  <2>5. CellOf(ms \o more, Size * (Len(ms) + h) + (p + 1)) =
          [msg |-> (ms \o more)[Len(ms) + h + 1], pos |-> p + 1]
    <3>1. ms \o more \in Seq(Message)
      OBVIOUS
    <3> QED BY <2>3, <3>1, CellAt
  <2>6. (ms \o more)[Len(ms) + h + 1] = more[h + 1]
    BY <1>1, <2>1
  <2> QED BY <2>2, <2>4, <2>5, <2>6
<1> QED BY <1>2, <1>3

\* The numbers that the proofs below calculate with.
LEMMA Numbers ==
  ASSUME StreamAssumption, StreamTypeOK
  PROVE  /\ Size \in Nat /\ Size = Header + Body /\ Header = 2 /\ Body \in Nat \ {0}
         /\ Len(sent) \in Nat /\ Len(data) \in Nat /\ Len(pipe) \in Nat /\ Len(heard) \in Nat
         /\ Len(msg) \in Nat /\ len \in Nat
         /\ Size * Len(sent) \in Nat /\ Size * Len(heard) \in Nat /\ Start \in Int
         /\ (data = <<>> <=> Len(data) = 0)
<1>1. Size \in Nat /\ Size = Header + Body /\ Header = 2 /\ Body \in Nat \ {0}
  BY SizeType DEF Header, StreamAssumption
<1>2. /\ Len(sent) \in Nat /\ Len(data) \in Nat /\ Len(pipe) \in Nat /\ Len(heard) \in Nat
      /\ Len(msg) \in Nat /\ len \in Nat
      /\ (data = <<>> <=> Len(data) = 0)
  BY DEF StreamTypeOK
<1>3. Size * Len(sent) \in Nat /\ Size * Len(heard) \in Nat
  BY <1>1, <1>2
<1>4. Start \in Int
  BY <1>2, <1>3 DEF Start
<1> QED BY <1>1, <1>2, <1>3, <1>4

\* The parser never gets ahead of usbmuxd.
LEMMA StartTyped ==
  ASSUME StreamAssumption, StreamTypeOK, HeardInOrder, Between \/ Within
  PROVE  Start \in Nat /\ Start + Len(data) + Len(pipe) = Size * Len(sent)
<1>1. Start \in Nat
  BY SMTT(30), Numbers DEF Between, Within
<1> QED BY <1>1, Numbers DEF Start

\* What usbmuxd writes comes after what is on its way.
LEMMA WriteInOrder ==
  ASSUME StreamAssumption, StreamTypeOK, StreamInv, NEW ms \in Seq(Message), Write(ms)
  PROVE  StreamInv'
<1> SUFFICES ASSUME ~cut' PROVE (InOrder /\ HeardInOrder /\ (Between \/ Within) /\ WholeHeaders)'
  BY DEF StreamInv
<1>1. InOrder /\ HeardInOrder /\ (Between \/ Within) /\ WholeHeaders
  BY DEF StreamInv, Write
<1> DEFINE new == [k \in 1 .. Size * Len(ms) |-> CellOf(ms, k)]
<1>2. new \in Seq(Cell) /\ Len(new) = Size * Len(ms) /\ pipe' = pipe \o new
  BY CellsTyped DEF Write
<1>3. UNCHANGED <<data, len, msg, cut, heard>> /\ sent' = sent \o ms
  BY DEF Write, parserVars
<1>4. \A k \in 1 .. Size * Len(ms) : new[k] = CellOf(ms, k)
  OBVIOUS
<1> HIDE DEF new
<1>5. Len(sent') = Len(sent) + Len(ms) /\ Len(pipe') = Len(pipe) + Size * Len(ms)
  <2>1. Len(sent \o ms) = Len(sent) + Len(ms)
    BY DEF StreamTypeOK
  <2>2. Len(pipe \o new) = Len(pipe) + Len(new)
    <3>1. pipe \in Seq(Cell) /\ new \in Seq(Cell)
      BY <1>2 DEF StreamTypeOK
    <3> QED BY <3>1, ConcatProperties
  <2> QED BY <1>2, <1>3, <2>1, <2>2
<1>6. Size * Len(sent') = Size * Len(sent) + Size * Len(ms)
  <2>1. Size \in Nat /\ Len(sent) \in Nat /\ Len(ms) \in Nat
    BY Numbers
  <2> QED BY <1>5, <2>1, Z3
<1>7. Len(ms) \in Nat /\ Size * Len(ms) \in Nat
  BY Numbers
<1>8. Start' = Start
  BY <1>3, <1>5, <1>6, <1>7, Numbers DEF Start
<1>9. Start \in Nat /\ Start + Len(data) + Len(pipe) = Size * Len(sent)
  BY <1>1, StartTyped
<1>10. InOrder'
  <2>1. ASSUME NEW k \in 1 .. Len(data') PROVE data'[k] = CellOf(sent', Start' + k)
    <3>1. Start + k \in 1 .. Size * Len(sent)
      BY <1>3, <1>9, Numbers
    <3>2. CellOf(sent', Start + k) = CellOf(sent, Start + k)
      BY <1>3, <3>1, CellsOfMore DEF StreamTypeOK
    <3> QED BY <1>1, <1>3, <1>8, <3>2 DEF InOrder
  <2>2. ASSUME NEW k \in 1 .. Len(pipe')
        PROVE  pipe'[k] = CellOf(sent', Start' + Len(data') + k)
    <3>1. CASE k \in 1 .. Len(pipe)
      <4>1. Start + Len(data) + k \in 1 .. Size * Len(sent)
        BY <1>9, <3>1, Numbers
      <4>2. CellOf(sent', Start + Len(data) + k) = CellOf(sent, Start + Len(data) + k)
        BY <1>3, <4>1, CellsOfMore DEF StreamTypeOK
      <4>3. pipe'[k] = pipe[k]
        BY <1>2, <3>1 DEF StreamTypeOK
      <4> QED BY <1>1, <1>3, <1>8, <3>1, <4>2, <4>3 DEF InOrder
    <3>2. CASE k \notin 1 .. Len(pipe)
      <4>1. k - Len(pipe) \in 1 .. Size * Len(ms)
        BY <1>5, <1>7, <3>2, Numbers
      <4>2. pipe'[k] = new[k - Len(pipe)]
        BY <1>2, <1>5, <3>2 DEF StreamTypeOK
      <4>3. Start + Len(data) + k = Size * Len(sent) + (k - Len(pipe))
        <5>1. k \in Int /\ Len(data) \in Nat /\ Len(pipe) \in Nat /\ Size * Len(sent) \in Nat
          BY Numbers
        <5> QED BY <1>9, <5>1
      <4>4. CellOf(sent', Size * Len(sent) + (k - Len(pipe))) = CellOf(ms, k - Len(pipe))
        BY <1>3, <4>1, CellsOfMore DEF StreamTypeOK
      <4> QED BY <1>3, <1>4, <1>8, <4>1, <4>2, <4>3, <4>4
    <3> QED BY <3>1, <3>2
  <2> QED BY <2>1, <2>2 DEF InOrder
<1>11. Len(heard) <= Len(sent) /\ \A i \in 1 .. Len(sent) : sent'[i] = sent[i]
  BY <1>1, <1>3, <1>7 DEF StreamTypeOK, HeardInOrder
<1>12. HeardInOrder'
  BY SMTT(30), <1>1, <1>3, <1>5, <1>7, <1>11, Numbers DEF HeardInOrder
<1>13. Between => Between'
  BY <1>3, <1>8 DEF Between
<1>14. ASSUME Within PROVE Within'
  <2>1. Len(heard) + 1 \in 1 .. Len(sent)
    BY <1>14, Numbers DEF Within
  <2>2. sent'[Len(heard) + 1] = sent[Len(heard) + 1] /\ Len(sent) <= Len(sent')
    BY <1>5, <1>7, <1>11, <2>1, Numbers
  <2>3. Len(heard') < Len(sent') /\ Size * Len(heard') = Size * Len(heard)
    BY <1>3, <2>1, <2>2, Numbers
  <2> QED BY <1>3, <1>8, <1>14, <2>2, <2>3 DEF Within
<1>15. WholeHeaders'
  BY <1>1, <1>3 DEF WholeHeaders
<1> QED BY <1>1, <1>10, <1>12, <1>13, <1>14, <1>15

\* A chunk is what comes next.
LEMMA ReceiveInOrder ==
  ASSUME StreamAssumption, StreamTypeOK, StreamInv, NEW n \in 1 .. Len(pipe), Receive(n)
  PROVE  StreamInv'
<1> SUFFICES ASSUME ~cut' PROVE (InOrder /\ HeardInOrder /\ (Between \/ Within) /\ WholeHeaders)'
  BY DEF StreamInv
<1>0. Len(pipe) \in Nat /\ n \in Nat /\ Start \in Int /\ Size * Len(sent) \in Nat
  BY Numbers
<1>1. InOrder /\ HeardInOrder /\ (Between \/ Within)
  BY DEF StreamInv, Receive
<1>2. /\ UNCHANGED <<sent, len, msg, heard>>
      /\ data = <<>> /\ data' = SubSeq(pipe, 1, n) /\ pipe' = SubSeq(pipe, n + 1, Len(pipe))
  BY DEF Receive
<1>3. Len(data) = 0
  BY <1>2
<1>4. /\ Len(data') = n /\ \A k \in 1 .. n : data'[k] = pipe[k]
      /\ Len(pipe') = Len(pipe) - n /\ \A k \in 1 .. Len(pipe) - n : pipe'[k] = pipe[n + k]
  BY <1>0, <1>2 DEF StreamTypeOK
<1>5. Start' = Start
  BY <1>0, <1>2, <1>3, <1>4 DEF Start
<1>6. \A k \in 1 .. Len(pipe) : pipe[k] = CellOf(sent, Start + k)
  BY <1>0, <1>1, <1>3 DEF InOrder
<1>7. InOrder'
  <2>1. ASSUME NEW k \in 1 .. n PROVE data'[k] = CellOf(sent, Start + k)
    <3>1. k \in 1 .. Len(pipe)
      BY <1>0
    <3> QED BY <1>4, <1>6, <3>1
  <2>2. \A k \in 1 .. Len(pipe) - n : pipe'[k] = CellOf(sent, Start + (n + k))
    BY <1>0, <1>4, <1>6
  <2>3. \A k \in 1 .. Len(pipe) - n : Start + (n + k) = Start + n + k
    BY <1>0
  <2>4. ASSUME NEW k \in 1 .. Len(data') PROVE data'[k] = CellOf(sent', Start' + k)
    BY <1>2, <1>4, <1>5, <2>1
  <2>5. ASSUME NEW k \in 1 .. Len(pipe')
        PROVE  pipe'[k] = CellOf(sent', Start' + Len(data') + k)
    BY <1>2, <1>4, <1>5, <2>2, <2>3
  <2> QED BY <2>4, <2>5 DEF InOrder
<1>8. HeardInOrder' /\ (Between \/ Within)'
  BY <1>1, <1>2, <1>5 DEF HeardInOrder, Between, Within
<1>9. WholeHeaders'
  <2>1. data'[n] = pipe[n] /\ pipe[n] \in Cell
    BY <1>0, <1>4 DEF StreamTypeOK
  <2>2. data'[n].pos \in Int
    BY <2>1, Numbers DEF Cell
  <2>3. ~(data'[n].pos < Header)
    BY <1>4 DEF Receive, EndsInHeader, Last
  <2> QED BY <1>4, <2>2, <2>3 DEF WholeHeaders, Header
<1> QED BY <1>7, <1>8, <1>9

\* The rest of the chunk after k cells comes k cells later.
LEMMA DropInOrder ==
  ASSUME StreamAssumption, StreamTypeOK, InOrder, WholeHeaders, NEW k \in 0 .. Len(data),
         UNCHANGED <<sent, pipe>>, data' = SubSeq(data, k + 1, Len(data))
  PROVE  /\ InOrder' /\ WholeHeaders'
         /\ Start' = Start + k
<1>0. Len(pipe) \in Nat /\ Len(data) \in Nat /\ k \in Nat /\ Start \in Int /\ Size * Len(sent) \in Nat
  BY Numbers
<1>1. Len(data') = Len(data) - k /\ \A i \in 1 .. Len(data) - k : data'[i] = data[k + i]
  BY <1>0 DEF StreamTypeOK
<1>2. Start' = Start + k
  BY <1>0, <1>1 DEF Start
<1>3. \A i \in 1 .. Len(data) - k : data'[i] = CellOf(sent, Start + (k + i))
  BY <1>0, <1>1 DEF InOrder
<1>4. \A i \in Int : Start + (k + i) = Start + k + i
  BY <1>0
<1>5. Start + k + (Len(data) - k) = Start + Len(data)
  BY <1>0
<1>6. InOrder'
  <2>1. ASSUME NEW i \in 1 .. Len(data') PROVE data'[i] = CellOf(sent', Start' + i)
    BY <1>0, <1>1, <1>2, <1>3, <1>4
  <2>2. ASSUME NEW i \in 1 .. Len(pipe') PROVE pipe'[i] = CellOf(sent', Start' + Len(data') + i)
    BY <1>0, <1>1, <1>2, <1>5 DEF InOrder
  <2> QED BY <2>1, <2>2 DEF InOrder
<1>7. ASSUME data' # <<>> PROVE data # <<>> /\ data'[Len(data')] = data[Len(data)]
  <2>1. Len(data') # 0 /\ k <= Len(data)
    BY <1>0, <1>7 DEF StreamTypeOK
  <2>2. Len(data) - k \in 1 .. Len(data) - k /\ k + (Len(data) - k) = Len(data)
    BY <1>0, <1>1, <2>1
  <2>3. data'[Len(data) - k] = data[k + (Len(data) - k)]
    BY <1>1, <2>2
  <2>4. data # <<>>
    BY <1>0, <2>2
  <2> QED BY <1>1, <2>2, <2>3, <2>4
<1>8. WholeHeaders'
  BY <1>7 DEF WholeHeaders
<1> QED BY <1>2, <1>6, <1>8

\* Before a message there is a whole header.
LEMMA HeaderInOrder ==
  ASSUME StreamAssumption, StreamTypeOK, StreamInv, ParseHeader
  PROVE  StreamInv'
<1> SUFFICES ASSUME ~cut' PROVE (InOrder /\ HeardInOrder /\ (Between \/ Within) /\ WholeHeaders)'
  BY DEF StreamInv
<1>0. /\ Len(pipe) \in Nat /\ Len(data) \in Nat /\ Start \in Int
      /\ Size \in Nat /\ Size = Header + Body /\ Header = 2 /\ Body \in Nat \ {0}
      /\ Len(sent) \in Nat /\ Len(heard) \in Nat /\ Size * Len(heard) \in Nat
  BY Numbers
<1>1. InOrder /\ HeardInOrder /\ WholeHeaders /\ Between
  BY DEF StreamInv, ParseHeader, Within
<1>2. Start = Size * Len(heard) /\ Start + Len(data) + Len(pipe) = Size * Len(sent)
  BY <1>1, StartTyped DEF Between
<1>3. Len(data) > 0
  BY <1>0, Numbers DEF ParseHeader
<1>4. Len(heard) < Len(sent)
  <2>1. Size * Len(heard) < Size * Len(sent)
    BY <1>0, <1>2, <1>3
  <2>2. Len(heard) # Len(sent)
    BY <1>0, <2>1
  <2> QED BY <1>0, <1>1, <2>2 DEF HeardInOrder
<1>5. data[1] = [msg |-> sent[Len(heard) + 1], pos |-> 1]
  <2>1. data[1] = CellOf(sent, Size * Len(heard) + 1)
    BY <1>0, <1>1, <1>2, <1>3 DEF InOrder
  <2>2. Len(heard) \in 0 .. Len(sent) - 1 /\ 1 \in 1 .. Size
    BY <1>0, <1>4
  <2> QED BY <2>1, <2>2, CellAt DEF StreamTypeOK
<1>6. Len(data) >= Header
  <2>1. Len(data) # 1
    <3>1. data[Len(data)].pos >= Header
      BY <1>1 DEF WholeHeaders, ParseHeader
    <3>2. ~(data[1].pos >= Header)
      BY <1>0, <1>5
    <3> QED BY <3>1, <3>2
  <2>2. Len(data) \in Nat
    BY <1>0
  <2> QED BY <1>3, <2>1, <2>2 DEF Header
<1>7. len' = Body /\ msg' = <<>> /\ UNCHANGED <<sent, pipe, heard>>
  <2>1. Head(data) = data[1]
    BY <1>0, <1>3 DEF StreamTypeOK
  <2> QED BY <1>5, <2>1 DEF ParseHeader, LengthIn
<1>8. InOrder' /\ WholeHeaders' /\ Start' = Start + Header
  BY <1>0, <1>1, <1>6, <1>7, DropInOrder DEF ParseHeader
<1>9. Within'
  BY <1>0, <1>2, <1>4, <1>7, <1>8 DEF Within
<1> QED BY <1>1, <1>7, <1>8, <1>9 DEF HeardInOrder

\* Within a message the chunk goes on where the body so far ends.
LEMMA BodyGoesOn ==
  ASSUME StreamAssumption, StreamTypeOK, InOrder, Within,
         NEW t \in 0 .. Len(data), t <= len
  PROVE  LET more == msg \o SubSeq(data, 1, t)
         IN /\ Len(more) = Body - len + t
            /\ \A i \in 1 .. Len(more) :
                 more[i] = [msg |-> sent[Len(heard) + 1], pos |-> Header + i]
<1> DEFINE more == msg \o SubSeq(data, 1, t)
<1>0. /\ Len(data) \in Nat /\ Start \in Int /\ Len(sent) \in Nat /\ Len(heard) \in Nat
      /\ Size \in Nat /\ Size = Header + Body /\ Header \in Nat /\ Body \in Nat \ {0}
      /\ Size * Len(heard) \in Nat /\ len \in Nat /\ Len(msg) \in Nat
  BY Numbers DEF Header
<1>1. /\ Len(heard) < Len(sent) /\ len \in 1 .. Body /\ Len(msg) = Body - len
      /\ Start = Size * Len(heard) + Size - len
  BY DEF Within
<1>2. /\ SubSeq(data, 1, t) \in Seq(Cell) /\ Len(SubSeq(data, 1, t)) = t
      /\ \A i \in 1 .. t : SubSeq(data, 1, t)[i] = data[i]
  BY <1>0 DEF StreamTypeOK
<1>3. msg \in Seq(Cell)
  BY DEF StreamTypeOK
<1>4. Len(more) = Len(msg) + t
  BY <1>0, <1>2, <1>3, ConcatProperties
<1>5. \A i \in 1 .. Len(msg) : more[i] = msg[i]
  BY <1>0, <1>2, <1>3, ConcatProperties
<1>6. \A i \in 1 .. t : more[Len(msg) + i] = data[i]
  BY <1>0, <1>2, <1>3, ConcatProperties
<1> HIDE DEF more
<1>7. ASSUME NEW i \in 1 .. t
      PROVE  data[i] = [msg |-> sent[Len(heard) + 1], pos |-> Header + (Len(msg) + i)]
  <2>1. Start + i = Size * Len(heard) + (Header + (Len(msg) + i))
    BY <1>0, <1>1
  <2>2. Header + (Len(msg) + i) \in 1 .. Size /\ Len(heard) \in 0 .. Len(sent) - 1
    BY <1>0, <1>1
  <2>3. data[i] = CellOf(sent, Size * Len(heard) + (Header + (Len(msg) + i)))
    <3>1. i \in 1 .. Len(data)
      BY <1>0
    <3> QED BY <2>1, <3>1 DEF InOrder
  <2> QED BY <2>2, <2>3, CellAt DEF StreamTypeOK
<1>8. ASSUME NEW i \in 1 .. Len(more)
      PROVE  more[i] = [msg |-> sent[Len(heard) + 1], pos |-> Header + i]
  <2>1. CASE i \in 1 .. Len(msg)
    BY <1>5, <2>1 DEF Within
  <2>2. CASE i \notin 1 .. Len(msg)
    <3>1. i - Len(msg) \in 1 .. t /\ Len(msg) + (i - Len(msg)) = i
      BY <1>0, <1>4, <2>2
    <3> QED BY <1>6, <1>7, <3>1
  <2> QED BY <2>1, <2>2
<1>9. Len(more) = Body - len + t
  BY <1>0, <1>1, <1>4
<1> QED BY <1>8, <1>9 DEF more

\* A part of a body is added to it.
LEMMA PartInOrder ==
  ASSUME StreamAssumption, StreamTypeOK, StreamInv, ParsePart
  PROVE  StreamInv'
<1> SUFFICES ASSUME ~cut' PROVE (InOrder /\ HeardInOrder /\ (Between \/ Within) /\ WholeHeaders)'
  BY DEF StreamInv
<1>0. /\ Len(data) \in Nat \ {0} /\ len \in Nat /\ Start \in Int
      /\ Size \in Nat /\ Size * Len(heard) \in Nat /\ Body \in Nat
  BY Numbers DEF ParsePart
<1>1. Taken = Len(data) /\ Len(data) < len
  BY <1>0 DEF ParsePart, Taken
<1>2. InOrder /\ HeardInOrder /\ WholeHeaders /\ Within
  BY <1>0, <1>1 DEF StreamInv, ParsePart, Between
<1>3. /\ UNCHANGED <<sent, pipe, heard>> /\ msg' = msg \o data /\ len' = len - Len(data)
      /\ data' = SubSeq(data, Len(data) + 1, Len(data))
  BY <1>1 DEF ParsePart, Rest
<1>4. InOrder' /\ WholeHeaders' /\ Start' = Start + Len(data)
  BY <1>0, <1>2, <1>3, DropInOrder
<1>5. SubSeq(data, 1, Len(data)) = data
  BY SubSeqFull DEF StreamTypeOK
<1>6. /\ Len(msg') = Body - len + Len(data)
      /\ \A i \in 1 .. Len(msg') : msg'[i] = [msg |-> sent[Len(heard) + 1], pos |-> Header + i]
  BY SMTT(30), <1>0, <1>1, <1>2, <1>3, <1>5, BodyGoesOn
<1>7. Start = Size * Len(heard) + Size - len /\ len \in 1 .. Body
  BY <1>2 DEF Within
<1>8. len' \in 1 .. Body /\ Start' = Size * Len(heard) + Size - len' /\ Len(msg') = Body - len'
  BY <1>0, <1>1, <1>3, <1>4, <1>6, <1>7
<1>9. Within'
  BY <1>2, <1>3, <1>6, <1>8 DEF Within
<1> QED BY <1>2, <1>3, <1>4, <1>9 DEF HeardInOrder

\* A body that is complete is that of the next message.
LEMMA BodyComplete ==
  ASSUME StreamAssumption, StreamTypeOK, InOrder, Within, data # <<>>, len = Taken,
         msg' = msg \o SubSeq(data, 1, Taken)
  PROVE  Whole(msg') /\ msg'[1].msg = sent[Len(heard) + 1]
<1>0. Len(data) \in Nat /\ len \in Nat /\ Body \in Nat \ {0} /\ len > 0
  BY Numbers DEF Within
<1>1. Taken \in 0 .. Len(data) /\ Taken <= len
  BY <1>0 DEF Taken
<1>2. /\ Len(msg') = Body
      /\ \A i \in 1 .. Body : msg'[i] = [msg |-> sent[Len(heard) + 1], pos |-> Header + i]
  BY <1>0, <1>1, BodyGoesOn
<1>3. msg'[1].msg = sent[Len(heard) + 1]
  <2>1. msg'[1] = [msg |-> sent[Len(heard) + 1], pos |-> Header + 1]
    BY <1>0, <1>2
  <2> QED BY ONLY <2>1
<1>4. msg' \in Seq(Cell)
  BY <1>0, TakenSome
<1>5. msg' = [i \in 1 .. Body |-> [msg |-> msg'[1].msg, pos |-> Header + i]]
  <2>1. msg' = [i \in 1 .. Len(msg') |-> msg'[i]]
    BY ONLY <1>4
  <2> QED BY <1>2, <1>3, <2>1
<1> QED BY <1>3, <1>5 DEF Whole

\* What a complete message does to the stream.
LEMMA EndInOrder ==
  ASSUME StreamAssumption, StreamTypeOK, StreamInv, ParseEnd
  PROVE  /\ StreamInv'
         /\ ~cut => Len(heard) < Len(sent) /\ heard' = Append(heard, sent[Len(heard) + 1])
<1> SUFFICES ASSUME ~cut
             PROVE  /\ (InOrder /\ HeardInOrder /\ (Between \/ Within) /\ WholeHeaders)'
                    /\ Len(heard) < Len(sent) /\ heard' = Append(heard, sent[Len(heard) + 1])
  BY DEF StreamInv, ParseEnd
<1>0. /\ Len(data) \in Nat \ {0} /\ len \in Nat /\ Start \in Int /\ Len(heard) \in Nat
      /\ Len(sent) \in Nat /\ Size \in Nat /\ Size * Len(heard) \in Nat
  BY Numbers DEF ParseEnd
<1>1. InOrder /\ HeardInOrder /\ WholeHeaders /\ Within
  BY DEF StreamInv, ParseEnd, Between
<1>2. Len(heard) < Len(sent) /\ Start = Size * Len(heard) + Size - len
  BY <1>1 DEF Within
<1>3. heard' = Append(heard, sent[Len(heard) + 1])
  BY <1>1, BodyComplete DEF ParseEnd
<1>4. Taken \in 0 .. Len(data)
  BY <1>0 DEF Taken
<1>5. UNCHANGED <<sent, pipe>> /\ data' = SubSeq(data, Taken + 1, Len(data)) /\ len' = 0
  BY DEF ParseEnd, Rest
<1>6. InOrder' /\ WholeHeaders' /\ Start' = Start + len
  BY <1>1, <1>4, <1>5, DropInOrder DEF ParseEnd
<1>7. Len(heard') = Len(heard) + 1 /\ \A i \in 1 .. Len(heard) : heard'[i] = heard[i]
  BY <1>3 DEF StreamTypeOK
<1>8. Size * (Len(heard) + 1) = Size * Len(heard) + Size
  <2>1. Size \in Nat /\ Len(heard) \in Nat
    BY <1>0
  <2> QED BY <2>1, Z3
<1>9. Between'
  BY <1>0, <1>2, <1>5, <1>6, <1>7, <1>8 DEF Between
<1>10. HeardInOrder'
  BY <1>0, <1>1, <1>2, <1>3, <1>5, <1>7 DEF HeardInOrder, StreamTypeOK
<1> QED BY <1>2, <1>3, <1>6, <1>9, <1>10

\* Nothing is thrown or guessed.
LEMMA NothingWrong ==
  ASSUME StreamAssumption, StreamTypeOK, StreamInv, ~cut
  PROVE  ~ParseThrows /\ ~ParseGuesses
<1>1. ASSUME data # <<>>, len > 0, len = Taken, msg' = msg \o SubSeq(data, 1, Taken)
      PROVE  Whole(msg')
  BY <1>1, BodyComplete DEF StreamInv, Between
<1> QED BY <1>1 DEF ParseThrows, ParseGuesses

\* Parsing keeps the order.
LEMMA ParseInOrder ==
  ASSUME StreamAssumption, StreamTypeOK, StreamInv, Parse PROVE StreamInv'
<1>1. CASE ParseThrows \/ ParseGuesses
  <2>1. cut' = cut /\ cut
    BY <1>1, NothingWrong DEF ParseThrows, ParseGuesses
  <2> QED BY <2>1 DEF StreamInv
<1> QED BY <1>1, HeaderInOrder, PartInOrder, EndInOrder DEF Parse

----------------------------------------------------------------------------
(* Whatever the chunks are: every cell is of a message that was sent.       *)

Told == {sent[i] : i \in 1 .. Len(sent)}

AllSent ==
  /\ \A k \in 1 .. Len(data) : data[k].msg \in Told
  /\ \A k \in 1 .. Len(pipe) : pipe[k].msg \in Told
  /\ \A k \in 1 .. Len(msg) : msg[k].msg \in Told

\* The elements of two sequences put together.
LEMMA ConcatParts ==
  ASSUME NEW S, NEW s \in Seq(S), NEW t \in Seq(S)
  PROVE  /\ s \o t \in Seq(S) /\ Len(s) \in Nat /\ Len(t) \in Nat
         /\ Len(s \o t) = Len(s) + Len(t)
         /\ \A i \in 1 .. Len(s) : (s \o t)[i] = s[i]
         /\ \A i \in 1 .. Len(t) : (s \o t)[Len(s) + i] = t[i]
         /\ \A i \in 1 .. Len(s \o t) :
              i \in 1 .. Len(s) \/ (i - Len(s) \in 1 .. Len(t) /\ Len(s) + (i - Len(s)) = i)
OBVIOUS

\* What is written has been sent.
LEMMA WriteAllSent ==
  ASSUME StreamAssumption, StreamTypeOK, AllSent, NEW ms \in Seq(Message), Write(ms)
  PROVE  /\ AllSent'
         /\ Told' = Told \cup {ms[i] : i \in 1 .. Len(ms)}
<1> DEFINE new == [k \in 1 .. Size * Len(ms) |-> CellOf(ms, k)]
<1>0. /\ Size \in Nat \ {0} /\ Len(ms) \in Nat /\ Len(sent) \in Nat /\ Len(pipe) \in Nat
      /\ Size * Len(ms) \in Nat
  BY Numbers DEF Header
<1>1. new \in Seq(Cell) /\ Len(new) = Size * Len(ms) /\ pipe' = pipe \o new
  BY CellsTyped DEF Write
<1>2. UNCHANGED <<data, msg>> /\ sent' = sent \o ms
  BY DEF Write, parserVars
<1>3. ASSUME NEW k \in 1 .. Size * Len(ms)
      PROVE  \E i \in 1 .. Len(ms) : new[k].msg = ms[i]
  <2>1. (k - 1) \div Size \in 0 .. Len(ms) - 1
    BY <1>0, PlaceIn
  <2>2. new[k].msg = ms[(k - 1) \div Size + 1]
    BY DEF CellOf
  <2>3. (k - 1) \div Size + 1 \in 1 .. Len(ms)
    BY <1>0, <2>1
  <2> QED BY <2>2, <2>3
<1> HIDE DEF new
<1>4. Told' = Told \cup {ms[i] : i \in 1 .. Len(ms)}
  <2>1. /\ Len(sent') = Len(sent) + Len(ms)
        /\ \A i \in 1 .. Len(sent) : sent'[i] = sent[i]
        /\ \A i \in 1 .. Len(ms) : sent'[Len(sent) + i] = ms[i]
    BY <1>0, <1>2, ConcatProperties DEF StreamTypeOK
  <2>2. \A i \in 1 .. Len(sent') : i \in 1 .. Len(sent) \/ i - Len(sent) \in 1 .. Len(ms)
    BY <1>0, <2>1
  <2>3. \A i \in 1 .. Len(sent') : sent'[i] \in Told \cup {ms[j] : j \in 1 .. Len(ms)}
    <3> TAKE i \in 1 .. Len(sent')
    <3>1. CASE i \in 1 .. Len(sent)
      BY <2>1, <3>1 DEF Told
    <3>2. CASE i - Len(sent) \in 1 .. Len(ms)
      <4>1. Len(sent) + (i - Len(sent)) = i
        BY <1>0
      <4> QED BY <2>1, <3>2, <4>1
    <3> QED BY <2>2, <3>1, <3>2
  <2>4. \A i \in 1 .. Len(sent) : i \in 1 .. Len(sent')
    BY <1>0, <2>1
  <2>5. \A i \in 1 .. Len(ms) : Len(sent) + i \in 1 .. Len(sent')
    BY <1>0, <2>1
  <2>6. \A i \in 1 .. Len(sent) : sent[i] \in Told'
    BY <2>1, <2>4 DEF Told
  <2>7. \A i \in 1 .. Len(ms) : ms[i] \in Told'
    BY <2>1, <2>5 DEF Told
  <2> QED BY <2>3, <2>6, <2>7 DEF Told
<1>5. ASSUME NEW k \in 1 .. Len(pipe') PROVE pipe'[k].msg \in Told'
  <2>0. pipe \in Seq(Cell)
    BY DEF StreamTypeOK
  <2>1. /\ Len(pipe') = Len(pipe) + Len(new)
        /\ \A i \in 1 .. Len(pipe) : pipe'[i] = pipe[i]
        /\ \A i \in 1 .. Len(new) : pipe'[Len(pipe) + i] = new[i]
    <3>1. Len(pipe \o new) = Len(pipe) + Len(new)
      BY ZenonT(30), <1>1, <2>0, ConcatParts
    <3>2. \A i \in 1 .. Len(pipe) : (pipe \o new)[i] = pipe[i]
      BY <1>1, <2>0, ConcatParts
    <3>3. \A i \in 1 .. Len(new) : (pipe \o new)[Len(pipe) + i] = new[i]
      BY <1>1, <2>0, ConcatParts
    <3> QED BY ONLY <1>1, <3>1, <3>2, <3>3
  <2>2. CASE k \in 1 .. Len(pipe)
    BY <1>4, <2>1, <2>2 DEF AllSent
  <2>3. CASE k \notin 1 .. Len(pipe)
    <3>1. k - Len(pipe) \in 1 .. Size * Len(ms) /\ Len(pipe) + (k - Len(pipe)) = k
      BY <1>0, <1>1, <2>1, <2>3
    <3>2. pipe'[k] = new[k - Len(pipe)]
      BY <1>1, <2>1, <3>1
    <3> QED BY <1>3, <1>4, <3>1, <3>2
  <2> QED BY <2>2, <2>3
<1>6. AllSent'
  BY <1>2, <1>4, <1>5 DEF AllSent
<1> QED BY <1>4, <1>6

\* So have the cells of a chunk.
LEMMA ReceiveAllSent ==
  ASSUME StreamTypeOK, AllSent, NEW n \in 1 .. Len(pipe), Receive(n)
  PROVE  AllSent'
<1>0. Len(pipe) \in Nat
  BY DEF StreamTypeOK
<1>1. /\ Len(data') = n /\ \A k \in 1 .. n : data'[k] = pipe[k]
      /\ Len(pipe') = Len(pipe) - n /\ \A k \in 1 .. Len(pipe) - n : pipe'[k] = pipe[n + k]
  BY <1>0 DEF StreamTypeOK, Receive
<1>2. \A k \in 1 .. n : k \in 1 .. Len(pipe)
  BY <1>0
<1>3. \A k \in 1 .. Len(pipe) - n : n + k \in 1 .. Len(pipe)
  BY <1>0
<1>4. Told' = Told /\ msg' = msg
  BY DEF Receive, Told
<1> QED BY <1>1, <1>2, <1>3, <1>4 DEF AllSent

\* The parser takes no cell from elsewhere, and tells the callback no message
\* that was not sent.
LEMMA ParseAllSent ==
  ASSUME StreamTypeOK, AllSent, Parse
  PROVE  /\ AllSent'
         /\ Told' = Told
         /\ ParseEnd \/ ParseGuesses => msg'[1].msg \in Told
<1>0. Len(data) \in Nat /\ Len(msg) \in Nat /\ len \in Nat
  BY DEF StreamTypeOK
<1>1. UNCHANGED <<sent, pipe>>
  BY DEF Parse, ParseHeader, ParsePart, ParseEnd, ParseThrows, ParseGuesses
<1>2. Told' = Told
  BY <1>1 DEF Told
<1>3. ASSUME NEW k \in 0 .. Len(data) + Header, data' = SubSeq(data, k + 1, Len(data))
      PROVE  \A i \in 1 .. Len(data') : data'[i].msg \in Told
  <2>1. \A i \in 1 .. Len(data') : data'[i] = data[k + i] /\ k + i \in 1 .. Len(data)
    BY <1>0, <1>3 DEF StreamTypeOK, Header
  <2> QED BY <2>1 DEF AllSent
<1>4. ASSUME NEW k \in 0 .. Len(data), msg' = msg \o SubSeq(data, 1, k)
      PROVE  \A i \in 1 .. Len(msg') : msg'[i].msg \in Told
  <2> DEFINE part == SubSeq(data, 1, k)
  <2>1. part \in Seq(Cell) /\ Len(part) = k /\ \A i \in 1 .. k : part[i] = data[i]
    BY <1>0 DEF StreamTypeOK
  <2>2. msg \in Seq(Cell)
    BY DEF StreamTypeOK
  <2>3. msg' = msg \o part
    BY <1>4
  <2> HIDE DEF part
  <2>4. /\ Len(msg') = Len(msg) + k
        /\ \A i \in 1 .. Len(msg) : msg'[i] = msg[i]
        /\ \A i \in 1 .. k : msg'[Len(msg) + i] = data[i]
    <3>1. Len(msg \o part) = Len(msg) + Len(part)
      BY <2>1, <2>2, ConcatParts
    <3>2. \A i \in 1 .. Len(msg) : (msg \o part)[i] = msg[i]
      BY <2>1, <2>2, ConcatParts
    <3>3. \A i \in 1 .. Len(part) : (msg \o part)[Len(msg) + i] = part[i]
      BY <2>1, <2>2, ConcatParts
    <3> QED BY ONLY <2>1, <2>3, <3>1, <3>2, <3>3
  <2>5. ASSUME NEW i \in 1 .. Len(msg') PROVE msg'[i].msg \in Told
    <3>1. CASE i \in 1 .. Len(msg)
      BY <2>4, <3>1 DEF AllSent
    <3>2. CASE i \notin 1 .. Len(msg)
      <4>1. /\ i - Len(msg) \in 1 .. k /\ Len(msg) + (i - Len(msg)) = i
            /\ i - Len(msg) \in 1 .. Len(data)
        BY <1>0, <2>4, <3>2
      <4>2. msg'[i] = data[i - Len(msg)]
        BY <2>4, <4>1
      <4> QED BY <4>1, <4>2 DEF AllSent
    <3> QED BY <3>1, <3>2
  <2> QED BY <2>5
<1>5. Taken \in 0 .. Len(data)
  BY <1>0 DEF Taken
<1>6. CASE ParseHeader
  <2>1. data' = SubSeq(data, Header + 1, Len(data)) /\ msg' = <<>>
    BY <1>6 DEF ParseHeader
  <2>2. \A i \in 1 .. Len(data') : data'[i].msg \in Told
    BY SMTT(30), <1>0, <1>3, <2>1 DEF Header
  <2>3. ~ParseEnd /\ ~ParseGuesses
    BY <1>6 DEF ParseHeader, ParseEnd, ParseGuesses
  <2>4. \A i \in 1 .. Len(msg') : msg'[i].msg \in Told
    BY <2>1
  <2> QED BY <1>1, <1>2, <2>2, <2>3, <2>4 DEF AllSent
<1>7. CASE ParsePart
  <2>1. msg' = msg \o SubSeq(data, 1, Len(data))
    <3>1. SubSeq(data, 1, Len(data)) = data
      BY SubSeqFull DEF StreamTypeOK
    <3> QED BY <1>7, <3>1 DEF ParsePart
  <2>2. \A i \in 1 .. Len(msg') : msg'[i].msg \in Told
    BY SMTT(30), <1>0, <1>4, <2>1
  <2>3. \A i \in 1 .. Len(data') : data'[i].msg \in Told
    <3>1. Taken \in 0 .. Len(data) + Header /\ data' = SubSeq(data, Taken + 1, Len(data))
      BY <1>0, <1>5, <1>7 DEF ParsePart, Rest, Header
    <3> QED BY <1>3, <3>1
  <2>4. ~ParseEnd /\ ~ParseGuesses
    BY <1>0, <1>5, <1>7 DEF ParsePart, ParseEnd, ParseGuesses
  <2> QED BY <1>1, <1>2, <2>2, <2>3, <2>4 DEF AllSent
<1>8. CASE ParseEnd \/ ParseThrows \/ ParseGuesses
  <2>1. /\ msg' = msg \o SubSeq(data, 1, Taken) /\ data # <<>> /\ len > 0
        /\ data' = Rest \/ data' = <<>>
    BY <1>8 DEF ParseEnd, ParseThrows, ParseGuesses
  <2>2. \A i \in 1 .. Len(msg') : msg'[i].msg \in Told
    BY <1>4, <1>5, <2>1
  <2>3. \A i \in 1 .. Len(data') : data'[i].msg \in Told
    BY SMTT(30), <1>0, <1>3, <1>5, <2>1 DEF Rest, Header
  <2>4. Len(msg') = Len(msg) + Taken /\ Taken \in 1 .. Len(data)
    BY <2>1, TakenSome
  <2>5. msg'[1].msg \in Told
    BY <1>0, <2>2, <2>4
  <2> QED BY <1>1, <1>2, <2>2, <2>3, <2>5 DEF AllSent
<1> QED BY <1>6, <1>7, <1>8 DEF Parse

----------------------------------------------------------------------------
(* What follows for the callback.                                           *)

\* Nothing is lost: what was sent and not parsed is in the chunk or the pipe.
LEMMA NothingLost == ASSUME StreamAssumption, StreamTypeOK, StreamInv PROVE NothingMissing
<1> SUFFICES ASSUME pipe = <<>>, data = <<>>, ~cut PROVE heard = sent
  BY DEF NothingMissing
<1>0. /\ Len(pipe) = 0 /\ Len(data) = 0
      /\ Size \in Nat \ {0} /\ Len(sent) \in Nat /\ Len(heard) \in Nat
      /\ Size * Len(sent) \in Nat /\ Size * Len(heard) \in Nat
  BY Numbers DEF Header
<1>1. HeardInOrder /\ (Between \/ Within)
  BY DEF StreamInv
<1>2. Start = Size * Len(sent)
  BY <1>0 DEF Start
<1>3. Len(heard) = Len(sent)
  <2>1. CASE Between
    <3>1. Size * Len(heard) = Size * Len(sent)
      BY <1>2, <2>1 DEF Between
    <3>2. \A a \in Nat, b \in Nat, n \in Nat \ {0} : n * a = n * b => a = b
      BY Z3
    <3> QED BY <1>0, <3>1, <3>2
  <2>2. CASE Within
    <3>1. Size * Len(heard) < Size * Len(sent) /\ Size * Len(sent) < Size * Len(heard) + Size
      BY <1>0, <1>2, <2>2, Numbers DEF Within
    <3>2. Size * (Len(heard) + 1) <= Size * Len(sent)
      <4>1. Len(heard) + 1 <= Len(sent)
        BY <1>0, <2>2 DEF Within
      <4>2. \A a \in Nat, b \in Nat, n \in Nat : a <= b => n * a <= n * b
        BY Z3
      <4> QED BY <1>0, <4>1, <4>2
    <3>3. Size * (Len(heard) + 1) = Size * Len(heard) + Size
      <4>1. Size \in Nat /\ Len(heard) \in Nat
        BY <1>0
      <4> QED BY <4>1, Z3
    <3> QED BY <1>0, <3>1, <3>2, <3>3
  <2> QED BY <1>1, <2>1, <2>2
<1>4. \A i \in 1 .. Len(heard) : heard[i] = sent[i]
  BY <1>1 DEF HeardInOrder
<1>5. heard \in Seq(Message) /\ sent \in Seq(Message)
  BY DEF StreamTypeOK
<1> QED BY <1>3, <1>4, <1>5, SeqEqual

\* A message that has been sent and not been heard has its last cell in the
\* chunk or the pipe.
LEMMA UnheardIsUnderWay ==
  ASSUME StreamAssumption, StreamTypeOK, StreamInv, ~cut,
         NEW h \in Len(heard) .. Len(sent) - 1
  PROVE  \E c \in ToSet(pipe \o data) : c.msg = sent[h + 1]
<1>0. /\ Len(pipe) \in Nat /\ Len(data) \in Nat /\ Start \in Int /\ Body \in Nat \ {0}
      /\ Size \in Nat \ {0} /\ Len(sent) \in Nat /\ Len(heard) \in Nat /\ h \in Nat
      /\ Size * Len(sent) \in Nat /\ Size * Len(heard) \in Nat /\ Size * h \in Nat
  <2>1. h \in Nat /\ Size \in Nat \ {0}
    BY Numbers DEF Header
  <2> QED BY <2>1, Numbers
<1>1. InOrder /\ (Between \/ Within)
  BY DEF StreamInv
<1>2. Size * Len(heard) <= Size * h
  <2>1. \A a \in Nat, b \in Nat, n \in Nat : a <= b => n * a <= n * b
    BY Z3
  <2> QED BY <1>0, <2>1
<1>3. Size * h + Size <= Size * Len(sent)
  <2>1. \A a \in Nat, b \in Nat, n \in Nat : a + 1 <= b => n * a + n <= n * b
    BY Z3
  <2> QED BY <1>0, <2>1
<1>4. Start < Size * Len(heard) + Size
  BY SMTT(30), <1>0, <1>1, Numbers DEF Between, Within
<1> DEFINE j == Size * h + Size - Start
<1>5. j \in 1 .. Len(data) + Len(pipe)
  BY SMTT(30), <1>0, <1>2, <1>3, <1>4 DEF Start
<1>6. CellOf(sent, Start + j) = [msg |-> sent[h + 1], pos |-> Size]
  <2>1. Start + j = Size * h + Size
    BY <1>0
  <2>2. h \in 0 .. Len(sent) - 1 /\ Size \in 1 .. Size /\ sent \in Seq(Message)
    BY <1>0 DEF StreamTypeOK
  <2>3. CellOf(sent, Size * h + Size) = [msg |-> sent[h + 1], pos |-> Size]
    BY <2>2, CellAt
  <2> QED BY <2>1, <2>3
<1> HIDE DEF j
<1>7. pipe \in Seq(Cell) /\ data \in Seq(Cell)
  BY DEF StreamTypeOK
<1>8. CASE j \in 1 .. Len(data)
  <2>1. data[j] = CellOf(sent, Start + j)
    BY <1>1, <1>8 DEF InOrder
  <2>2. Len(pipe \o data) = Len(pipe) + Len(data)
    BY <1>7, ConcatParts
  <2>3. (pipe \o data)[Len(pipe) + j] = data[j]
    BY <1>7, <1>8, ConcatParts
  <2>4. Len(pipe) + j \in DOMAIN (pipe \o data)
    BY <1>0, <1>7, <1>8, <2>2
  <2> QED BY <1>6, <2>1, <2>3, <2>4 DEF ToSet
<1>9. CASE j \notin 1 .. Len(data)
  <2>0. j - Len(data) \in 1 .. Len(pipe) /\ Start + Len(data) + (j - Len(data)) = Start + j
    BY <1>0, <1>5, <1>9
  <2>1. pipe[j - Len(data)] = CellOf(sent, Start + j)
    BY <1>1, <2>0 DEF InOrder
  <2>2. Len(pipe \o data) = Len(pipe) + Len(data)
    BY <1>7, ConcatParts
  <2>3. (pipe \o data)[j - Len(data)] = pipe[j - Len(data)]
    BY <1>7, <2>0, ConcatParts
  <2>4. j - Len(data) \in DOMAIN (pipe \o data)
    BY <1>0, <1>7, <2>0, <2>2
  <2> QED BY <1>6, <2>1, <2>3, <2>4 DEF ToSet
<1> QED BY <1>8, <1>9

\* To write is to send.
LEMMA WriteSends ==
  ASSUME StreamTypeOK, NEW ms \in Seq(Message), Write(ms) PROVE Channel!Send
<1>1. sent' = sent \o ms /\ UNCHANGED <<heard, cut>> /\ sent \in Seq(Message)
  BY DEF Write, StreamTypeOK
<1>2. SubSeq(sent', 1, Len(sent)) = sent
  BY <1>1, SubSeqOfConcat1, SubSeqFull
<1>3. Len(sent') >= Len(sent)
  BY <1>1
<1> QED BY <1>1, <1>2, <1>3 DEF Channel!Send

\* A chunk that ends in a header is the channel's fault, another one goes unnoticed.
LEMMA ReceiveFails ==
  ASSUME StreamTypeOK, NEW n \in 1 .. Len(pipe), Receive(n)
  PROVE  Channel!Fail \/ UNCHANGED <<sent, heard, cut>>
<1>1. cut' = cut \/ cut' = TRUE
  BY DEF StreamTypeOK, Receive, EndsInHeader
<1> QED BY <1>1 DEF Receive, Channel!Fail

\* The callback is called with the next message, or by a faulty channel with some
\* message that was sent.
LEMMA ParseHears ==
  ASSUME StreamAssumption, StreamTypeOK, StreamInv, AllSent, Parse
  PROVE  Channel!Hear \/ Channel!HearSome \/ UNCHANGED <<sent, heard, cut>>
<1>1. CASE ParseHeader \/ ParsePart \/ ParseThrows
  BY <1>1 DEF ParseHeader, ParsePart, ParseThrows
<1>2. CASE ~cut /\ (ParseEnd \/ ParseGuesses)
  <2>1. ParseEnd
    BY <1>2, NothingWrong
  <2>2. Len(heard) < Len(sent) /\ heard' = Append(heard, sent[Len(heard) + 1])
    BY <1>2, <2>1, EndInOrder
  <2> QED BY <1>2, <2>1, <2>2 DEF ParseEnd, Channel!Hear
<1>3. CASE cut /\ (ParseEnd \/ ParseGuesses)
  <2>1. msg'[1].msg \in Told /\ heard' = Append(heard, msg'[1].msg) /\ UNCHANGED <<sent, cut>>
    BY <1>3, ParseAllSent DEF ParseEnd, ParseGuesses
  <2>2. PICK i \in 1 .. Len(sent) : msg'[1].msg = sent[i]
    BY <2>1 DEF Told
  <2>3. i \in DOMAIN sent
    BY DEF StreamTypeOK
  <2> QED BY <1>3, <2>1, <2>2, <2>3 DEF Channel!HearSome
<1> QED BY <1>1, <1>2, <1>3 DEF Parse

----------------------------------------------------------------------------
(* The devices object.                                                      *)

\* The entries that some messages leave: an Attached is forgotten when the udid
\* is attached again or the DeviceID is detached.
Forgets(m, d) == (m.type = "Attached" /\ m.udid = d[1]) \/ (m.type = "Detached" /\ m.id = d[2])

Live(q) ==
  {d \in Udids \X Ids : \E i \in 1 .. Len(q) :
     q[i] = Attached(d[1], d[2]) /\ \A j \in i + 1 .. Len(q) : ~Forgets(q[j], d)}

\* The callback's calls keep the devices object so.
Heeded(ds, m) ==
  CASE m.type = "Attached" -> {d \in ds : d[1] # m.udid} \cup {<<m.udid, m.id>>}
    [] m.type = "Detached" -> {d \in ds : d[2] # m.id}
    [] OTHER -> ds

LEMMA LiveOfMore ==
  ASSUME NEW q \in Seq(Message), NEW m \in Message
  PROVE  Live(Append(q, m)) = Heeded(Live(q), m)
<1> DEFINE r == Append(q, m)
<1>0. /\ Len(q) \in Nat /\ Len(r) = Len(q) + 1 /\ r[Len(q) + 1] = m
      /\ \A i \in 1 .. Len(q) : r[i] = q[i]
  OBVIOUS
<1> HIDE DEF r
<1>1. m.type \in {"Attached", "Detached", "Paired"} /\ <<m.udid, m.id>> \in Udids \X Ids
  BY DEF Message
<1>2. \A d \in Udids \X Ids : m = Attached(d[1], d[2]) <=> m.type = "Attached" /\ d = <<m.udid, m.id>>
  <2> TAKE d \in Udids \X Ids
  <2>1. m = Attached(d[1], d[2]) => m.type = "Attached" /\ m.udid = d[1] /\ m.id = d[2]
    BY DEF Attached
  <2>2. m.type = "Attached" /\ m.udid = d[1] /\ m.id = d[2] => m = Attached(d[1], d[2])
    BY DEF Attached, Message
  <2>3. d = <<d[1], d[2]>>
    OBVIOUS
  <2> QED BY <2>1, <2>2, <2>3
<1>3. ASSUME NEW d \in Udids \X Ids
      PROVE  d \in Live(r) <=> m = Attached(d[1], d[2]) \/ (d \in Live(q) /\ ~Forgets(m, d))
  <2>1. ASSUME m = Attached(d[1], d[2]) PROVE d \in Live(r)
    <3>1. Len(q) + 1 \in 1 .. Len(r) /\ Len(q) + 1 + 1 .. Len(r) = {}
      BY <1>0
    <3> QED BY <1>0, <2>1, <3>1 DEF Live
  <2>2. ASSUME d \in Live(q), ~Forgets(m, d) PROVE d \in Live(r)
    <3>1. PICK i \in 1 .. Len(q) :
            q[i] = Attached(d[1], d[2]) /\ \A j \in i + 1 .. Len(q) : ~Forgets(q[j], d)
      BY <2>2 DEF Live
    <3>2. i \in 1 .. Len(r) /\ r[i] = Attached(d[1], d[2])
      BY <1>0, <3>1
    <3>3. ASSUME NEW j \in i + 1 .. Len(r) PROVE ~Forgets(r[j], d)
      <4>1. (j \in i + 1 .. Len(q) /\ j \in 1 .. Len(q)) \/ j = Len(q) + 1
        BY <1>0
      <4> QED BY <1>0, <2>2, <3>1, <4>1
    <3> QED BY <3>2, <3>3 DEF Live
  <2>3. ASSUME d \in Live(r), m # Attached(d[1], d[2]) PROVE d \in Live(q) /\ ~Forgets(m, d)
    <3>1. PICK i \in 1 .. Len(r) :
            r[i] = Attached(d[1], d[2]) /\ \A j \in i + 1 .. Len(r) : ~Forgets(r[j], d)
      BY <2>3 DEF Live
    <3>2. i # Len(q) + 1
      BY <1>0, <2>3, <3>1
    <3>3. i \in 1 .. Len(q) /\ Len(q) + 1 \in i + 1 .. Len(r)
      BY <1>0, <3>2
    <3>4. ~Forgets(m, d)
      BY <1>0, <3>1, <3>3
    <3>5. q[i] = Attached(d[1], d[2])
      BY <1>0, <3>1, <3>3
    <3>6. ASSUME NEW j \in i + 1 .. Len(q) PROVE ~Forgets(q[j], d)
      <4>1. j \in 1 .. Len(q) /\ j \in i + 1 .. Len(r)
        BY <1>0, <3>3
      <4> QED BY <1>0, <3>1, <4>1
    <3> QED BY <3>3, <3>4, <3>5, <3>6 DEF Live
  <2> QED BY <2>1, <2>2, <2>3
<1>4. Live(r) \subseteq Udids \X Ids /\ Live(q) \subseteq Udids \X Ids
  BY DEF Live
<1>5. Heeded(Live(q), m) \subseteq Udids \X Ids
  BY <1>1, <1>4 DEF Heeded
<1>6. ASSUME NEW d \in Udids \X Ids
      PROVE  d \in Heeded(Live(q), m)
               <=> m = Attached(d[1], d[2]) \/ (d \in Live(q) /\ ~Forgets(m, d))
  <2>1. CASE m.type = "Attached"
    BY <1>2, <2>1 DEF Heeded, Forgets
  <2>2. CASE m.type = "Detached"
    BY <1>2, <2>2 DEF Heeded, Forgets
  <2>3. CASE m.type = "Paired"
    BY <1>2, <2>3 DEF Heeded, Forgets
  <2> QED BY <1>1, <2>1, <2>2, <2>3
<1>7. \A d \in Udids \X Ids : d \in Live(r) <=> d \in Heeded(Live(q), m)
  BY <1>3, <1>6
<1>8. Live(r) = Heeded(Live(q), m)
  BY <1>4, <1>5, <1>7
<1> QED BY <1>8 DEF r
====
