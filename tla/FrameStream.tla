---------------------------- MODULE FrameStream ----------------------------
(***************************************************************************)
(* The framing of net/protocol.py over one direction of a TCP connection:  *)
(* threads that write messages piece by piece with no lock between them,   *)
(* a reader that takes the stream apart again, writes that fail in the     *)
(* middle and are retried, and receive timeouts in the middle of a         *)
(* message.                                                                *)
(*                                                                         *)
(* The stream is a sequence of cells.  Binary: the six bytes the reader    *)
(* looks at first, the rest of the header, the name, the payload in        *)
(* chunks.  Text: the length, the meta string, the size, the payload.      *)
(* One step writes a cell: what one send of the operating system takes.    *)
(* From the server two threads write: the receive loop its ACKs, errors    *)
(* and heartbeats, the send loop the replies.  The client has one writer.  *)
(***************************************************************************)
EXTENDS Naturals, Sequences, FiniteSets, SequencesExt

CONSTANTS
  Writers,     \* the threads that send on the socket
  Script,      \* Script[w]: the messages w sends, as [id, name, body] with the
               \*   numbers of cells of name and payload
  Attempts,    \* Attempts[w]: how often w tries to send a message
  Formats,     \* the values of --protocol to look at
  MaxTears,    \* bound on the writes that fail
  MaxCuts,     \* bound on the timeouts and short reads of the reader
  MaxGarbage,  \* bound on the lengths read from bytes that are no length
  Corrupt      \* what is delivered when the bytes are not those of one message

Messages == UNION {Range(Script[w]) : w \in Writers}

ASSUME ScriptAssumption ==
  /\ IsFiniteSet(Writers)
  /\ Script \in [Writers -> Seq([id : Writers \X Nat, name : {0, 1}, body : Nat])]
  /\ \A w \in Writers : \A i \in DOMAIN Script[w] : Script[w][i].id = <<w, i>>
  /\ Attempts \in [Writers -> Nat \ {0}] /\ Formats \subseteq {"binary", "text"}
ASSUME StreamBoundsAssumption == MaxTears \in Nat /\ MaxCuts \in Nat /\ MaxGarbage \in Nat

VARIABLES
  format,     \* --protocol
  turn,       \* turn[w]: the index of the message w is at
  written,    \* written[w]: how many cells of it this attempt has written
  attempt,    \* attempt[w]: the number of this attempt
  halted,     \* the writers that have seen stop_event: they begin no other
              \*   message
  stream,     \* the cells written and not yet read
  reader,     \* the recv call: [at, need, got]
  complete,   \* history: the messages written to the end, in order
  delivered,  \* history: what recv returned, in order
  tears, cuts,  \* history: how many writes failed, how many reads were cut
  faulty      \* history: messages overlapped, or one was cut

writing == <<turn, written, attempt, halted, complete, tears>>
reading == <<reader, delivered, cuts>>
vars == <<format, writing, reading, stream, faulty>>

Times(part, n) == [i \in 1..n |-> part]
Parts(m) ==
  IF format = "binary"
  THEN <<"prefix", "rest">> \o Times("name", m.name) \o Times("body", m.body)
  ELSE <<"length", "meta", "size">> \o Times("body", m.body)
Cells(m) == [i \in DOMAIN Parts(m) |-> [message |-> m, part |-> Parts(m)[i]]]

Current(w) == Script[w][turn[w]]
Busy(w) == turn[w] <= Len(Script[w])
NewCall == [at |-> "first", need |-> 0, got |-> <<>>]

Init ==
  /\ format \in Formats
  /\ turn = [w \in Writers |-> 1] /\ written = [w \in Writers |-> 0]
  /\ attempt = [w \in Writers |-> 1] /\ halted = {}
  /\ stream = <<>> /\ reader = NewCall
  /\ complete = <<>> /\ delivered = <<>>
  /\ tears = 0 /\ cuts = 0 /\ faulty = FALSE

-----------------------------------------------------------------------------
(* _send_binary and _send_text: a message goes out in several calls, and     *)
(* another thread may write between two of them.                             *)
Overlaps(w) == \E v \in Writers \ {w} : written[v] > 0

Write(w) ==
  LET cells == Cells(Current(w))
      n == written[w] + 1
      done == n = Len(cells)
  IN  /\ Busy(w)
      /\ w \notin halted
      /\ stream' = Append(stream, cells[n])
      /\ faulty' = (faulty \/ Overlaps(w))
      /\ written' = [written EXCEPT ![w] = IF done THEN 0 ELSE n]
      /\ turn' = IF done THEN [turn EXCEPT ![w] = @ + 1] ELSE turn
      /\ attempt' = IF done THEN [attempt EXCEPT ![w] = 1] ELSE attempt
      /\ complete' = IF done THEN Append(complete, Current(w)) ELSE complete
      /\ halted' = IF done /\ halted # {} THEN halted \union {w} ELSE halted
      /\ UNCHANGED <<format, reading, tears>>

(* send() raises, by a timeout for one, after part of the message; part of   *)
(* a cell may be out as well.  send_control_with_retry writes the message    *)
(* again from the start, three times in all; the send loop gives up at once. *)
(* Giving up sets stop_event.  A writer in the middle of a message finishes  *)
(* it before it looks, and one that looked just before begins one more.      *)
MidMessage(w) == written[w] > 0 \/ attempt[w] > 1
Torn(m) == [message |-> m, part |-> "torn"]

FailWrite(w) ==
  LET again == attempt[w] < Attempts[w]
      idle == {v \in Writers \ {w} : ~MidMessage(v)}
  IN  /\ Busy(w) /\ tears < MaxTears
      /\ w \notin halted
      /\ tears' = tears + 1
      /\ \/ /\ UNCHANGED stream
            /\ faulty' = (faulty \/ written[w] > 0)
         \/ /\ stream' = Append(stream, Torn(Current(w)))
            /\ faulty' = TRUE
      /\ written' = [written EXCEPT ![w] = 0]
      /\ attempt' = [attempt EXCEPT ![w] = IF again THEN @ + 1 ELSE 1]
      /\ turn' = IF again THEN turn ELSE [turn EXCEPT ![w] = Len(Script[w]) + 1]
      /\ IF again THEN UNCHANGED halted
         ELSE \E seen \in SUBSET idle : halted' = halted \union {w} \union seen
      /\ UNCHANGED <<format, reading, complete>>

(* Mutant: the error is raised after the last byte, and the send is retried. *)
FailWriteLate(w) ==
  /\ Busy(w) /\ tears < MaxTears /\ attempt[w] < Attempts[w]
  /\ written[w] + 1 = Len(Cells(Current(w)))
  /\ tears' = tears + 1
  /\ stream' = Append(stream, Last(Cells(Current(w))))
  /\ complete' = Append(complete, Current(w))
  /\ written' = [written EXCEPT ![w] = 0]
  /\ attempt' = [attempt EXCEPT ![w] = @ + 1]
  /\ UNCHANGED <<format, reading, turn, halted, faulty>>
Fail(w) == FailWrite(w)

-----------------------------------------------------------------------------
(* recv returns got: whole if it is a message cell by cell.                  *)
Result(got) == IF got = Cells(got[1].message) THEN got[1].message ELSE Corrupt

(* The call goes on at "at" with need cells to come, or returns got.         *)
Continue(at, need, got) ==
  IF at = "fill" /\ need = 0
  THEN /\ delivered' = Append(delivered, Result(got))
       /\ reader' = NewCall
  ELSE /\ reader' = [at |-> at, need |-> need, got |-> got]
       /\ UNCHANGED delivered

(* recv raises, or finds the connection closed: the reading task ends. *)
Raise == reader' = [NewCall EXCEPT !.at = "raised"] /\ UNCHANGED delivered

(* The header says how many cells follow.  Mutants: the name is forgotten;   *)
(* one more cell is waited for.                                              *)
FollowingPayload(m) == m.body
FollowingMore(m) == m.name + m.body + 1
Following(m) == m.name + m.body

(* _recv_binary: magic and version first, then the rest of the header.  Two  *)
(* halves that do not belong together may parse or not.                      *)
ReadBinary(c, got) ==
  CASE reader.at = "first" ->
         \/ c.part \in {"prefix", "torn"} /\ Continue("second", 0, got)
         \/ c.part # "prefix" /\ Raise
    [] reader.at = "second" ->
         IF c = [message |-> got[1].message, part |-> "rest"]
         THEN Continue("fill", Following(c.message), got)
         ELSE Raise \/ \E n \in 0..MaxGarbage : Continue("fill", n, got)
    [] reader.at = "fill" -> Continue("fill", reader.need - 1, got)

(* _recv_text: length, meta, size, payload.  What is no length is taken for  *)
(* one: zero or too large ends the connection.                               *)
ReadText(c, got) ==
  CASE reader.at = "first" ->
         IF c.part = "length" THEN Continue("second", 1, got)
         ELSE Raise \/ \E n \in 1..MaxGarbage : Continue("second", n, got)
    [] reader.at = "second" ->
         \/ Continue(IF reader.need = 1 THEN "third" ELSE "second", reader.need - 1, got)
         \/ c.part # "meta" /\ Raise
    [] reader.at = "third" ->
         IF c.part = "size" THEN Continue("fill", c.message.body, got)
         ELSE Raise \/ \E n \in 0..MaxGarbage : Continue("fill", n, got)
    [] reader.at = "fill" -> Continue("fill", reader.need - 1, got)

Read ==
  LET c == Head(stream)
      got == Append(reader.got, c)
  IN  /\ stream # <<>> /\ reader.at # "raised"
      /\ IF format = "binary" THEN ReadBinary(c, got) ELSE ReadText(c, got)
      /\ stream' = Tail(stream)
      /\ UNCHANGED <<format, writing, cuts, faulty>>

(* socket.timeout inside a message: the callers call recv again, and the     *)
(* bytes read so far are gone.                                               *)
CutRead ==
  /\ stream = <<>> /\ reader.got # <<>> /\ cuts < MaxCuts
  /\ reader' = NewCall
  /\ cuts' = cuts + 1
  /\ faulty' = TRUE
  /\ UNCHANGED <<format, writing, stream, delivered>>

(* The first recv of _recv_text may return fewer bytes than it asked for.    *)
ShortRead ==
  /\ format = "text" /\ stream # <<>> /\ reader = NewCall /\ cuts < MaxCuts
  /\ Raise
  /\ stream' = Tail(stream)
  /\ cuts' = cuts + 1
  /\ faulty' = TRUE
  /\ UNCHANGED <<format, writing>>

Next ==
  \/ \E w \in Writers : Write(w) \/ Fail(w)
  \/ Read \/ CutRead \/ ShortRead

Spec == Init /\ [][Next]_vars

(* The receiving thread calls recv again and again until it raises. *)
FairSpec == Spec /\ WF_vars(Read)

-----------------------------------------------------------------------------
(* The framing implements a FIFO of whole messages up to the first of its    *)
(* own faults: messages of two threads overlapping on the socket, a write    *)
(* that failed in part, a read that was cut or short.                        *)
Fifo ==
  INSTANCE MessageFifo WITH
    queue <- SubSeq(complete, Len(delivered) + 1, Len(complete)),
    broken <- faulty
ImplementsFifo == Fifo!Spec

(* Faulty or not, retries or not: no message is delivered whole twice, and   *)
(* those of one thread are delivered in the order in which it sent them.     *)
WholeOnceInOrder ==
  \A i, j \in DOMAIN delivered :
    LET m == delivered[i]
        n == delivered[j]
    IN  (i < j /\ Corrupt \notin {m, n} /\ m.id[1] = n.id[1]) => m.id[2] < n.id[2]

(* A message written to the end arrives, unless the framing is at fault. *)
AllArrive ==
  \A m \in Messages :
    (m \in Range(complete)) ~> (m \in Range(delivered) \/ faulty)

(* Violated: what one end writes without an error the other reads, frame by  *)
(* frame in sequence (Control_Plane_Design).                                 *)
FramesInSequence == reader.at # "raised" /\ Corrupt \notin Range(delivered)
=============================================================================
