----------------------------- MODULE UsbmuxStream -----------------------------
(***************************************************************************)
(* The stream of messages from usbmuxd and its parser (makeParser and the  *)
(* callback of createListener in src/src/usbmux.ts).                       *)
(*                                                                         *)
(* The stream is a sequence of cells of eight bytes.  A message has a      *)
(* header of two cells, the first of which tells its length, and a body,   *)
(* the property list.  The socket delivers the stream in chunks; a chunk   *)
(* may hold pieces of several messages.  Chunks end between cells.         *)
(***************************************************************************)
EXTENDS Integers, Sequences, FiniteSets, SequencesExt

CONSTANTS
  Body,   \* cells of a body
  Beyond, \* what a cell that is not a length is read as: more than is ever sent
  Udids,
  MaxId   \* bound: DeviceIDs that usbmuxd gives out

Header == 2
Size == Header + Body

ASSUME StreamAssumption ==
  /\ Body \in Nat \ {0}
  /\ Beyond \in Nat
  /\ IsFiniteSet(Udids)
  /\ MaxId \in Nat

VARIABLES
  sent,    \* messages usbmuxd has sent (a history variable)
  pipe,    \* cells on their way
  data,    \* the rest of the chunk that is being parsed
  len,     \* cells missing from the body, 0 when a header is expected
  msg,     \* cells of the body so far
  cut,     \* a chunk has ended inside a header (a history variable)
  heard,   \* messages given to the callback (a history variable)
  devices  \* the devices object, as pairs of a udid and its DeviceID

parserVars == <<data, len, msg>>
streamVars == <<sent, pipe, parserVars, cut, heard, devices>>

Ids == 1 .. MaxId

\* Of a device only "Attached" tells the udid, the others its DeviceID alone: the
\* program does not read their field udid.
Attached(u, id) == [type |-> "Attached", udid |-> u, id |-> id]
Detached(u, id) == [type |-> "Detached", udid |-> u, id |-> id]
Paired(u, id) == [type |-> "Paired", udid |-> u, id |-> id]

Message == [type : {"Attached", "Detached", "Paired"}, udid : Udids, id : Ids]
Cell == [msg : Message, pos : 1 .. Size]

StreamTypeOK ==
  /\ sent \in Seq(Message)
  /\ pipe \in Seq(Cell)
  /\ data \in Seq(Cell)
  /\ len \in Nat
  /\ msg \in Seq(Cell)
  /\ cut \in BOOLEAN
  /\ heard \in Seq(Message)
  /\ devices \subseteq Udids \X Ids

StreamInit ==
  /\ sent = <<>> /\ pipe = <<>> /\ data = <<>>
  /\ len = 0 /\ msg = <<>>
  /\ cut = FALSE
  /\ heard = <<>>
  /\ devices = {}

----------------------------------------------------------------------------

\* usbmuxd's side: the k-th cell of some messages, each of which is the cells of
\* its header and of its body.
CellOf(ms, k) == [msg |-> ms[(k - 1) \div Size + 1], pos |-> ((k - 1) % Size) + 1]

\* usbmuxd writes some messages.
Write(ms) ==
  /\ sent' = sent \o ms
  /\ pipe' = pipe \o [k \in 1 .. Size * Len(ms) |-> CellOf(ms, k)]
  /\ UNCHANGED <<parserVars, cut, heard, devices>>

\* A chunk ends inside a header.
EndsInHeader(chunk) == Last(chunk).pos < Header

\* The socket has the next n cells: a 'data' event.
Receive(n) ==
  /\ data = <<>>
  /\ data' = SubSeq(pipe, 1, n)
  /\ pipe' = SubSeq(pipe, n + 1, Len(pipe))
  /\ cut' = (cut \/ EndsInHeader(data'))
  /\ UNCHANGED <<sent, len, msg, heard, devices>>

\* A mutant: the header is not taken off the length.
LengthWithHeader(cell) == IF cell.pos = 1 THEN Size ELSE Beyond

\* readUInt32LE(0) - 16: other cells than the length itself are text or small
\* constants of the header, which as a length never come to an end.
LengthIn(cell) == IF cell.pos = 1 THEN Body ELSE Beyond

\* parse, when no message is under way: the length is read, and what there is
\* of a header is skipped.
ParseHeader ==
  /\ data # <<>> /\ len = 0
  /\ len' = LengthIn(Head(data))
  /\ msg' = <<>>
  /\ data' = SubSeq(data, Header + 1, Len(data))
  /\ UNCHANGED <<sent, pipe, cut, heard, devices>>

Taken == IF len < Len(data) THEN len ELSE Len(data)

\* A body with all its cells and nothing else is a property list.
Whole(cells) == cells = [i \in 1 .. Body |-> [msg |-> cells[1].msg, pos |-> Header + i]]

\* A mutant: 'detached' leaves its entry.
HeedKeeps(m) ==
  devices' = IF m.type = "Attached"
             THEN {d \in devices : d[1] # m.udid} \cup {<<m.udid, m.id>>}
             ELSE devices

\* What the callback does with a message: it keeps the devices object.
Heed(m) ==
  devices' = CASE m.type = "Attached" -> {d \in devices : d[1] # m.udid} \cup {<<m.udid, m.id>>}
               [] m.type = "Detached" -> {d \in devices : d[2] # m.id}
               [] OTHER -> devices

\* A mutant: what follows a message in its chunk is dropped.
RestDropped == <<>>

\* The cells that are left of the chunk: parse calls itself with them.
Rest == SubSeq(data, Taken + 1, Len(data))

\* parse, within a message: its part of the chunk is added.
ParsePart ==
  /\ data # <<>> /\ len > Taken
  /\ msg' = msg \o data
  /\ len' = len - Taken
  /\ data' = Rest
  /\ UNCHANGED <<sent, pipe, cut, heard, devices>>

\* The message is complete, and the callback is called.
ParseEnd ==
  /\ data # <<>> /\ len > 0 /\ len = Taken
  /\ msg' = msg \o SubSeq(data, 1, Taken)
  /\ Whole(msg')
  /\ heard' = Append(heard, msg'[1].msg)
  /\ Heed(msg'[1].msg)
  /\ len' = 0
  /\ data' = Rest
  /\ UNCHANGED <<sent, pipe, cut>>

\* What has been put together is not a property list: plist.parse throws, the
\* rest of the chunk is not parsed.
ParseThrows ==
  /\ data # <<>> /\ len > 0 /\ len = Taken
  /\ msg' = msg \o SubSeq(data, 1, Taken)
  /\ ~Whole(msg')
  /\ len' = 0
  /\ data' = <<>>
  /\ UNCHANGED <<sent, pipe, cut, heard, devices>>

\* Its beginning is cut off and its end is missing, and plist.parse makes a
\* message of it all the same.
ParseGuesses ==
  /\ data # <<>> /\ len > 0 /\ len = Taken
  /\ msg' = msg \o SubSeq(data, 1, Taken)
  /\ ~Whole(msg')
  /\ heard' = Append(heard, msg'[1].msg)
  /\ Heed(msg'[1].msg)
  /\ len' = 0
  /\ data' = Rest
  /\ UNCHANGED <<sent, pipe, cut>>

Parse == ParseHeader \/ ParsePart \/ ParseEnd \/ ParseThrows \/ ParseGuesses

----------------------------------------------------------------------------
(* Properties. *)

\* The parser is a channel: "This parser function assembles messages using the
\* length given in the message header and calls the onComplete callback as new
\* messages are assembled" - unless a chunk ends inside a header.
Channel == INSTANCE MessageChannel WITH faulty <- cut

ImplementsChannel == Channel!Spec

\* When all chunks are parsed, nothing that was sent is missing.
NothingMissing == pipe = <<>> /\ data = <<>> /\ ~cut => heard = sent
====
