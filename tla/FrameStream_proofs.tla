------------------------- MODULE FrameStream_proofs -------------------------
(***************************************************************************)
(* The framing, for any number of writers, any messages, any number of     *)
(* attempts and any faults: no message is delivered whole twice or out of  *)
(* the order of its writer; and until the first fault of the framing it    *)
(* implements MessageFifo.                                                 *)
(***************************************************************************)
EXTENDS FrameStream, SequenceTheorems, TLAPS

PartNames == {"prefix", "rest", "name", "length", "meta", "size", "body"}
CellSet == [message : Messages, part : PartNames \union {"torn"}]
Returned == Messages \union {Corrupt}

(* The cell a message begins with. *)
Leads(c) == c.part \in {"prefix", "length"}

LEMMA ScriptFacts ==
  ASSUME NEW w \in Writers
  PROVE  /\ Script[w] \in Seq([id : Writers \X Nat, name : {0, 1}, body : Nat])
         /\ \A i \in 1..Len(Script[w]) :
              Script[w][i] \in Messages /\ Script[w][i].id = <<w, i>>
<1>1. Script[w] \in Seq([id : Writers \X Nat, name : {0, 1}, body : Nat])
  BY ScriptAssumption
<1>2. ASSUME NEW i \in 1..Len(Script[w])
      PROVE  Script[w][i] \in Messages /\ Script[w][i].id = <<w, i>>
  <2>1. i \in DOMAIN Script[w]
    BY <1>1
  <2>2. Script[w][i] \in Range(Script[w])
    BY <2>1 DEF Range
  <2> QED BY <2>1, <2>2, ScriptAssumption DEF Messages
<1> QED BY <1>1, <1>2

LEMMA MessageFacts ==
  ASSUME NEW m \in Messages
  PROVE  /\ m \in [id : Writers \X Nat, name : {0, 1}, body : Nat]
         /\ m.id[1] \in Writers /\ m.id[2] \in 1..Len(Script[m.id[1]])
         /\ m = Script[m.id[1]][m.id[2]]
<1>1. PICK w \in Writers : m \in Range(Script[w])
  BY DEF Messages
<1>2. Script[w] \in Seq([id : Writers \X Nat, name : {0, 1}, body : Nat])
  BY ScriptFacts
<1>3. PICK i \in 1..Len(Script[w]) : m = Script[w][i]
  <2>1. DOMAIN Script[w] = 1..Len(Script[w])
    BY <1>2
  <2> QED BY <1>1, <2>1 DEF Range
<1>4. m.id = <<w, i>>
  BY <1>3, ScriptFacts
<1>5. m \in [id : Writers \X Nat, name : {0, 1}, body : Nat]
  BY <1>2, <1>3, ElementOfSeq
<1>6. m.id[1] = w /\ m.id[2] = i
  BY <1>4
<1> QED BY <1>3, <1>5, <1>6

(* The cells of a message: one that leads, and others that do not. *)
LEMMA PartsFacts ==
  ASSUME NEW m \in Messages
  PROVE  /\ Parts(m) \in Seq(PartNames)
         /\ format = "binary" =>
              /\ Len(Parts(m)) = 2 + m.name + m.body
              /\ Parts(m)[1] = "prefix" /\ Parts(m)[2] = "rest"
         /\ format # "binary" =>
              /\ Len(Parts(m)) = 3 + m.body
              /\ Parts(m)[1] = "length" /\ Parts(m)[2] = "meta" /\ Parts(m)[3] = "size"
         /\ \A k \in 2..Len(Parts(m)) : Parts(m)[k] \notin {"prefix", "length"}
<1>1. m.name \in Nat /\ m.body \in Nat
  BY MessageFacts
<1> DEFINE head == IF format = "binary" THEN <<"prefix", "rest">>
                   ELSE <<"length", "meta", "size">>
           names == Times("name", IF format = "binary" THEN m.name ELSE 0)
           body == Times("body", m.body)
<1>2. /\ head \in Seq(PartNames) /\ names \in Seq(PartNames) /\ body \in Seq(PartNames)
      /\ head \o names \in Seq(PartNames)
  <2>1. head \in Seq(PartNames) /\ names \in Seq(PartNames) /\ body \in Seq(PartNames)
    <3>1. \A n \in Nat : \A p \in PartNames : Times(p, n) \in Seq(PartNames)
      <4> TAKE n \in Nat
      <4> TAKE p \in PartNames
      <4>1. Times(p, n) \in [1..n -> PartNames]
        BY DEF Times
      <4> QED BY <4>1
    <3>2. head \in Seq(PartNames)
      <4>1. <<"prefix", "rest">> \in Seq(PartNames)
        BY ONLY DEF PartNames
      <4>2. <<"length", "meta", "size">> \in Seq(PartNames)
        BY ONLY DEF PartNames
      <4> QED BY <4>1, <4>2
    <3> QED BY <1>1, <3>1, <3>2 DEF PartNames
  <2> QED BY <2>1, ConcatProperties
<1>3. /\ Len(head) = IF format = "binary" THEN 2 ELSE 3
      /\ Len(names) = IF format = "binary" THEN m.name ELSE 0
      /\ Len(body) = m.body
  BY <1>1 DEF Times
<1>4. /\ \A i \in 1..Len(names) : names[i] = "name"
      /\ \A i \in 1..Len(body) : body[i] = "body"
      /\ format = "binary" => head[1] = "prefix" /\ head[2] = "rest"
      /\ format # "binary" => head[1] = "length" /\ head[2] = "meta" /\ head[3] = "size"
  BY <1>1 DEF Times
<1>5. Parts(m) = (head \o names) \o body
  <2>1. format # "binary" => names = <<>>
    BY DEF Times
  <2>2. format # "binary" => head \o names = head
    BY <1>2, <2>1, ConcatEmptySeq
  <2> QED BY <2>2 DEF Parts
<1> HIDE DEF head, names, body
<1>6. /\ Len(head \o names) = Len(head) + Len(names)
      /\ \A i \in 1..(Len(head) + Len(names)) :
           (head \o names)[i] = IF i <= Len(head) THEN head[i] ELSE names[i - Len(head)]
  BY <1>2, ConcatProperties
<1>7. /\ Parts(m) \in Seq(PartNames)
      /\ Len(Parts(m)) = Len(head \o names) + Len(body)
      /\ \A i \in 1..(Len(head \o names) + Len(body)) :
           Parts(m)[i] = IF i <= Len(head \o names) THEN (head \o names)[i]
                         ELSE body[i - Len(head \o names)]
  BY <1>2, <1>5, ConcatProperties
<1>8. Len(Parts(m)) = IF format = "binary" THEN 2 + m.name + m.body ELSE 3 + m.body
  BY <1>1, <1>3, <1>6, <1>7
<1>9. \A i \in 1..Len(Parts(m)) :
        Parts(m)[i] = IF i <= Len(head) THEN head[i]
                      ELSE IF i <= Len(head) + Len(names) THEN "name" ELSE "body"
  <2>1. Len(head) \in Nat /\ Len(names) \in Nat /\ Len(body) \in Nat
    BY <1>2, LenProperties
  <2>2. \A i \in 1..(Len(head) + Len(names) + Len(body)) :
          Parts(m)[i] = IF i <= Len(head) + Len(names) THEN (head \o names)[i]
                        ELSE body[i - (Len(head) + Len(names))]
    BY <1>6, <1>7
  <2>3. \A i \in 1..(Len(head) + Len(names)) :
          (head \o names)[i] = IF i <= Len(head) THEN head[i] ELSE "name"
    BY <2>1, <1>4, <1>6
  <2> SUFFICES ASSUME NEW i \in 1..(Len(head) + Len(names) + Len(body))
               PROVE  Parts(m)[i] = IF i <= Len(head) THEN head[i]
                                    ELSE IF i <= Len(head) + Len(names) THEN "name" ELSE "body"
    BY <2>1, <1>6, <1>7
  <2>4. CASE i <= Len(head) + Len(names)
    BY <2>1, <2>2, <2>3, <2>4
  <2>5. CASE i > Len(head) + Len(names)
    <3>1. i - (Len(head) + Len(names)) \in 1..Len(body)
      BY <2>1, <2>5
    <3> QED BY <2>1, <2>2, <2>5, <3>1, <1>4
  <2> QED BY <2>1, <2>4, <2>5
<1>10. CASE format = "binary"
  <2>1. Len(head) = 2 /\ Parts(m)[1] = "prefix" /\ Parts(m)[2] = "rest"
    BY <1>1, <1>3, <1>4, <1>8, <1>9, <1>10
  <2>2. ASSUME NEW k \in 2..Len(Parts(m)) PROVE Parts(m)[k] \in {"rest", "name", "body"}
    BY <1>1, <1>4, <1>8, <1>9, <1>10, <2>1, <2>2
  <2> QED BY <1>7, <1>8, <1>10, <2>1, <2>2
<1>11. CASE format # "binary"
  <2>1. /\ Len(head) = 3 /\ Parts(m)[1] = "length" /\ Parts(m)[2] = "meta"
        /\ Parts(m)[3] = "size"
    BY <1>1, <1>3, <1>4, <1>8, <1>9, <1>11
  <2>2. ASSUME NEW k \in 2..Len(Parts(m))
        PROVE  Parts(m)[k] \in {"meta", "size", "name", "body"}
    BY <1>1, <1>4, <1>8, <1>9, <1>11, <2>1, <2>2
  <2> QED BY <1>7, <1>8, <1>11, <2>1, <2>2
<1> QED BY <1>10, <1>11

LEMMA CellsFacts ==
  ASSUME NEW m \in Messages
  PROVE  /\ Cells(m) \in Seq(CellSet) /\ Len(Cells(m)) = Len(Parts(m))
         /\ Len(Parts(m)) \in Nat /\ Len(Parts(m)) >= 2
         /\ \A k \in 1..Len(Parts(m)) :
              /\ Cells(m)[k] = [message |-> m, part |-> Parts(m)[k]]
              /\ Cells(m)[k] \in CellSet /\ Cells(m)[k].part # "torn"
              /\ Leads(Cells(m)[k]) <=> k = 1
<1>1. /\ Parts(m) \in Seq(PartNames) /\ Len(Parts(m)) \in Nat /\ Len(Parts(m)) >= 2
      /\ Parts(m)[1] \in {"prefix", "length"}
      /\ \A k \in 2..Len(Parts(m)) : Parts(m)[k] \notin {"prefix", "length"}
  BY PartsFacts, MessageFacts
<1>2. Cells(m) = [k \in 1..Len(Parts(m)) |-> [message |-> m, part |-> Parts(m)[k]]]
  BY <1>1 DEF Cells
<1>3. \A k \in 1..Len(Parts(m)) : Parts(m)[k] \in PartNames /\ Parts(m)[k] # "torn"
  <2>1. \A k \in 1..Len(Parts(m)) : Parts(m)[k] \in PartNames
    BY <1>1
  <2> QED BY <2>1 DEF PartNames
<1> QED BY <1>1, <1>2, <1>3 DEF CellSet, Leads

(* The format is chosen once, so a message keeps its cells. *)
LEMMA FormatStays == [Next]_vars => UNCHANGED format
BY DEF Next, vars, Write, Fail, FailWrite, Read, CutRead, ShortRead

LEMMA PartsStay ==
  ASSUME UNCHANGED format, NEW m
  PROVE  Parts(m)' = Parts(m) /\ Cells(m)' = Cells(m)
BY DEF Parts, Cells

-----------------------------------------------------------------------------
(* Types.  A writer that has written part of a message has one to finish.    *)
WriterInv ==
  /\ turn \in [Writers -> Nat \ {0}] /\ written \in [Writers -> Nat]
  /\ \A w \in Writers :
       written[w] > 0 => Busy(w) /\ written[w] < Len(Parts(Current(w)))
  /\ complete \in Seq(Messages)

ReaderInv ==
  /\ stream \in Seq(CellSet) /\ reader.got \in Seq(CellSet)
  /\ delivered \in Seq(Returned)
  /\ reader.at \in {"first", "second", "fill", "raised"}
                     \union (IF format = "binary" THEN {} ELSE {"third"})

TypeInv == WriterInv /\ ReaderInv

LEMMA CurrentFacts ==
  ASSUME turn \in [Writers -> Nat \ {0}], NEW w \in Writers, Busy(w)
  PROVE  Current(w) \in Messages /\ Current(w).id = <<w, turn[w]>>
BY ScriptFacts DEF Busy, Current

(* What a step of a writer does. *)
LEMMA WriteFacts ==
  ASSUME WriterInv, NEW w \in Writers, Write(w)
  PROVE  LET m == Current(w)
             k == written[w] + 1
             done == k = Len(Parts(m))
         IN  /\ Busy(w) /\ m \in Messages /\ m.id = <<w, turn[w]>>
             /\ k \in 1..Len(Parts(m))
             /\ stream' = Append(stream, Cells(m)[k])
             /\ faulty' = (faulty \/ Overlaps(w))
             /\ written' = [written EXCEPT ![w] = IF done THEN 0 ELSE k]
             /\ turn' = IF done THEN [turn EXCEPT ![w] = @ + 1] ELSE turn
             /\ complete' = IF done THEN Append(complete, m) ELSE complete
             /\ UNCHANGED <<format, reading>>
<1>1. Busy(w) /\ Current(w) \in Messages /\ Current(w).id = <<w, turn[w]>>
  BY CurrentFacts DEF Write, WriterInv
<1>2. Len(Parts(Current(w))) \in Nat /\ Len(Parts(Current(w))) >= 2
      /\ Len(Cells(Current(w))) = Len(Parts(Current(w)))
  BY <1>1, CellsFacts
<1>3. written[w] \in Nat /\ (written[w] > 0 => written[w] < Len(Parts(Current(w))))
  BY DEF WriterInv
<1> QED BY <1>1, <1>2, <1>3 DEF Write

LEMMA WriteTyped ==
  ASSUME TypeInv, NEW w \in Writers, Write(w)
  PROVE  TypeInv'
<1> DEFINE m == Current(w)
           k == written[w] + 1
           done == k = Len(Parts(m))
<1>1. /\ Busy(w) /\ m \in Messages /\ k \in 1..Len(Parts(m))
      /\ stream' = Append(stream, Cells(m)[k])
      /\ written' = [written EXCEPT ![w] = IF done THEN 0 ELSE k]
      /\ turn' = IF done THEN [turn EXCEPT ![w] = @ + 1] ELSE turn
      /\ complete' = IF done THEN Append(complete, m) ELSE complete
      /\ UNCHANGED <<format, reading>>
  BY WriteFacts DEF TypeInv
<1> HIDE DEF m, k, done
<1>2. Cells(m)[k] \in CellSet /\ k \in Nat
  BY <1>1, CellsFacts
<1>3. /\ turn' \in [Writers -> Nat \ {0}] /\ written' \in [Writers -> Nat]
      /\ complete' \in Seq(Messages)
  BY <1>1, <1>2 DEF TypeInv, WriterInv
<1>4. ASSUME NEW v \in Writers, written'[v] > 0
      PROVE  Busy(v)' /\ written'[v] < Len(Parts(Current(v))')
  <2>1. CASE v = w
    <3>1. ~done /\ written'[w] = k
      BY <1>1, <1>4, <2>1 DEF TypeInv, WriterInv
    <3>2. turn' = turn /\ Parts(Current(w))' = Parts(m)
      BY <1>1, <3>1, PartsStay DEF Current, m, Parts
    <3>3. k < Len(Parts(m))
      BY <1>1, <3>1, CellsFacts DEF done
    <3> QED BY <1>1, <2>1, <3>1, <3>2, <3>3 DEF Busy
  <2>2. CASE v # w
    <3>1. written'[v] = written[v] /\ turn'[v] = turn[v]
      BY <1>1, <2>2 DEF TypeInv, WriterInv
    <3>2. Parts(Current(v))' = Parts(Current(v))
      BY <1>1, <3>1 DEF Current, Parts
    <3> QED BY <1>4, <3>1, <3>2 DEF TypeInv, WriterInv, Busy
  <2> QED BY <2>1, <2>2
<1>5. ReaderInv'
  BY <1>1, <1>2 DEF TypeInv, ReaderInv, reading
<1> QED BY <1>3, <1>4, <1>5 DEF TypeInv, WriterInv

(* What a write that fails does: it may leave part of a cell behind. *)
LEMMA FailFacts ==
  ASSUME WriterInv, NEW w \in Writers, Fail(w)
  PROVE  LET torn == Torn(Current(w))
         IN  /\ Busy(w) /\ written' = [written EXCEPT ![w] = 0]
             /\ turn' = turn \/ turn' = [turn EXCEPT ![w] = Len(Script[w]) + 1]
             /\ UNCHANGED <<format, reading, complete>>
             /\ \/ stream' = stream /\ faulty' = (faulty \/ written[w] > 0)
                \/ stream' = Append(stream, torn) /\ faulty' = TRUE
             /\ torn \in CellSet /\ torn.part = "torn" /\ torn.message = Current(w)
<1>1. Busy(w)
  BY DEF Fail, FailWrite
<1>2. Current(w) \in Messages
  BY <1>1, CurrentFacts DEF WriterInv
<1>3. /\ Torn(Current(w)) \in CellSet /\ Torn(Current(w)).part = "torn"
      /\ Torn(Current(w)).message = Current(w)
  BY <1>2 DEF Torn, CellSet
<1> QED BY <1>1, <1>3 DEF Fail, FailWrite

LEMMA FailTyped ==
  ASSUME TypeInv, NEW w \in Writers, Fail(w)
  PROVE  TypeInv'
<1>1. /\ written' = [written EXCEPT ![w] = 0]
      /\ turn' = turn \/ turn' = [turn EXCEPT ![w] = Len(Script[w]) + 1]
      /\ UNCHANGED <<format, reading, complete>>
      /\ stream' = stream \/ \E c \in CellSet : stream' = Append(stream, c)
  BY FailFacts DEF TypeInv
<1>2. Len(Script[w]) + 1 \in Nat \ {0}
  BY ScriptFacts
<1>3. turn' \in [Writers -> Nat \ {0}] /\ written' \in [Writers -> Nat]
  BY <1>1, <1>2 DEF TypeInv, WriterInv
<1>4. ASSUME NEW v \in Writers, written'[v] > 0
      PROVE  Busy(v)' /\ written'[v] < Len(Parts(Current(v))')
  <2>1. v # w /\ written'[v] = written[v] /\ turn'[v] = turn[v]
    BY <1>1, <1>4 DEF TypeInv, WriterInv
  <2>2. Parts(Current(v))' = Parts(Current(v))
    BY <1>1, <2>1 DEF Current, Parts
  <2> QED BY <1>4, <2>1, <2>2 DEF TypeInv, WriterInv, Busy
<1>5. stream' \in Seq(CellSet)
  BY <1>1, AppendProperties DEF TypeInv, ReaderInv
<1> QED BY <1>1, <1>3, <1>4, <1>5 DEF TypeInv, WriterInv, ReaderInv, reading

(* A read keeps what it has, returns it, or raises. *)
Keeps(got) == reader'.got = got /\ UNCHANGED delivered
Returns(got) == reader'.got = <<>> /\ delivered' = Append(delivered, Result(got))
Raises == reader'.got = <<>> /\ UNCHANGED delivered

LEMMA ContinueFacts ==
  ASSUME NEW at, NEW need, NEW got, Continue(at, need, got)
  PROVE  /\ Keeps(got) \/ Returns(got)
         /\ reader'.at \in {at, "first"}
BY DEF Continue, Keeps, Returns, NewCall

LEMMA ReadFacts ==
  ASSUME ReaderInv, Read
  PROVE  LET got == Append(reader.got, Head(stream))
         IN  /\ stream # <<>> /\ stream' = Tail(stream)
             /\ Keeps(got) \/ Returns(got) \/ Raises
             /\ reader'.at \in {"first", "second", "fill", "raised"}
                                 \union (IF format = "binary" THEN {} ELSE {"third"})
             /\ UNCHANGED <<format, writing, faulty>>
<1> DEFINE c == Head(stream)
           got == Append(reader.got, c)
<1>1. /\ stream # <<>> /\ stream' = Tail(stream) /\ reader.at # "raised"
      /\ IF format = "binary" THEN ReadBinary(c, got) ELSE ReadText(c, got)
      /\ UNCHANGED <<format, writing, faulty>>
  BY DEF Read
<1> HIDE DEF c, got
<1>2. Raise => Raises /\ reader'.at = "raised"
  BY DEF Raise, Raises, NewCall
<1>3. CASE format = "binary"
  <2>1. \/ Raise
        \/ \E at \in {"second", "fill"} : \E need : Continue(at, need, got)
    BY <1>1, <1>3 DEF ReadBinary, ReaderInv
  <2> QED BY <1>1, <1>2, <1>3, <2>1, ContinueFacts DEF c, got
<1>4. CASE format # "binary"
  <2>1. \/ Raise
        \/ \E at \in {"second", "third", "fill"} : \E need : Continue(at, need, got)
    BY <1>1, <1>4 DEF ReadText, ReaderInv
  <2> QED BY <1>1, <1>2, <1>4, <2>1, ContinueFacts DEF c, got
<1> QED BY <1>3, <1>4

LEMMA ResultTyped ==
  ASSUME NEW got \in Seq(CellSet), got # <<>>
  PROVE  /\ Result(got) \in Returned
         /\ Result(got) # Corrupt => Result(got) = got[1].message /\ got = Cells(got[1].message)
<1>1. got[1] \in CellSet
  BY ElementOfSeq, EmptySeq, LenProperties
<1> QED BY <1>1 DEF Result, Returned, CellSet

LEMMA ReadTyped == TypeInv /\ Read => TypeInv'
<1> SUFFICES ASSUME TypeInv, Read PROVE TypeInv'
  OBVIOUS
<1> DEFINE got == Append(reader.got, Head(stream))
<1>1. /\ stream # <<>> /\ stream' = Tail(stream)
      /\ Keeps(got) \/ Returns(got) \/ Raises
      /\ reader'.at \in {"first", "second", "fill", "raised"}
                          \union (IF format = "binary" THEN {} ELSE {"third"})
      /\ UNCHANGED <<format, writing, faulty>>
  BY ReadFacts DEF TypeInv
<1>2. Head(stream) \in CellSet /\ Tail(stream) \in Seq(CellSet)
  BY <1>1, HeadTailProperties DEF TypeInv, ReaderInv
<1>3. got \in Seq(CellSet) /\ got # <<>>
  BY <1>2, AppendProperties DEF TypeInv, ReaderInv
<1>4. Result(got) \in Returned
  BY <1>3, ResultTyped
<1> HIDE DEF got
<1>5. reader'.got \in Seq(CellSet) /\ delivered' \in Seq(Returned)
  <2>1. <<>> \in Seq(CellSet) /\ delivered \in Seq(Returned)
    BY EmptySeq DEF TypeInv, ReaderInv
  <2>2. Append(delivered, Result(got)) \in Seq(Returned)
    BY <1>4, <2>1, AppendProperties
  <2> QED BY <1>1, <1>3, <2>1, <2>2 DEF Keeps, Returns, Raises
<1>6. WriterInv'
  BY <1>1, PartsStay DEF TypeInv, WriterInv, writing, Busy, Current
<1> QED BY <1>1, <1>2, <1>5, <1>6 DEF TypeInv, ReaderInv

LEMMA TypeKept == TypeInv /\ [Next]_vars => TypeInv'
<1> SUFFICES ASSUME TypeInv, [Next]_vars PROVE TypeInv'
  OBVIOUS
<1>1. ASSUME UNCHANGED <<format, writing, delivered>>,
             stream' = stream \/ (stream # <<>> /\ stream' = Tail(stream)),
             reader' = reader \/ (reader'.got = <<>> /\ reader'.at \in {"first", "raised"})
      PROVE  TypeInv'
  <2>1. WriterInv'
    BY <1>1, PartsStay DEF TypeInv, WriterInv, writing, Busy, Current
  <2>2. stream' \in Seq(CellSet) /\ reader'.got \in Seq(CellSet)
    BY <1>1, HeadTailProperties, EmptySeq DEF TypeInv, ReaderInv
  <2> QED BY <1>1, <2>1, <2>2 DEF TypeInv, ReaderInv
<1>2. CASE CutRead \/ ShortRead
  BY <1>1, <1>2 DEF CutRead, ShortRead, Raise, NewCall
<1>3. CASE UNCHANGED vars
  BY <1>1, <1>3 DEF vars, reading
<1> QED BY <1>2, <1>3, WriteTyped, FailTyped, ReadTyped DEF Next

LEMMA TypeInit == Init => TypeInv
<1> SUFFICES ASSUME Init PROVE TypeInv
  OBVIOUS
<1>1. \A S : <<>> \in Seq(S)
  BY EmptySeq
<1> QED BY <1>1 DEF Init, TypeInv, WriterInv, ReaderInv, NewCall

-----------------------------------------------------------------------------
(* The order of the messages.  Of one writer, no cell follows a cell of a     *)
(* later message; after all the cells of a message none of it or of an       *)
(* earlier one follows, since its writer has gone on: the cells of a         *)
(* message that is still being written are too few (Partial).  The argument  *)
(* is about the cells in transit, those the reader has kept and those of     *)
(* the stream.                                                               *)
Bytes == reader.got \o stream
WriterOf(c) == c.message.id[1]
TurnOf(c) == c.message.id[2]

Occurs(q, p, m) ==
  \A k \in 1..Len(Parts(m)) : p + k - 1 \in 1..Len(q) /\ q[p + k - 1] = Cells(m)[k]

Ascending(q, t) ==
  \A i \in 1..Len(q) :
    /\ TurnOf(q[i]) <= t[WriterOf(q[i])]
    /\ \A j \in 1..Len(q) :
         i < j /\ WriterOf(q[i]) = WriterOf(q[j]) => TurnOf(q[i]) <= TurnOf(q[j])

AfterWhole(q, t) ==
  \A p \in 1..Len(q) : \A m \in Messages :
    Occurs(q, p, m) =>
      /\ m.id[2] < t[m.id[1]]
      /\ \A j \in 1..Len(q) :
           j >= p + Len(Parts(m)) /\ WriterOf(q[j]) = m.id[1] => m.id[2] < TurnOf(q[j])

BeginsAt(q, p, m) ==
  \A j \in p..Len(q) : q[j].message = m /\ (Leads(q[j]) <=> j = p)

Partial(q, t, k) ==
  \A w \in Writers : \A p \in 1..Len(q) :
    k[w] > 0 /\ BeginsAt(q, p, Script[w][t[w]]) => Len(q) - p + 1 <= k[w]

Past(q, t, d) ==
  \A i \in 1..Len(d) :
    d[i] # Corrupt =>
      /\ d[i].id[2] < t[d[i].id[1]]
      /\ \A j \in 1..Len(q) : WriterOf(q[j]) = d[i].id[1] => d[i].id[2] < TurnOf(q[j])

Ordered(q, t, k, d) ==
  Ascending(q, t) /\ AfterWhole(q, t) /\ Partial(q, t, k) /\ Past(q, t, d)

LEMMA CellFacts ==
  ASSUME NEW c \in CellSet
  PROVE  /\ c.message \in Messages /\ WriterOf(c) \in Writers /\ TurnOf(c) \in Nat
         /\ c.message.id = <<WriterOf(c), TurnOf(c)>>
<1>1. c.message \in Messages
  BY DEF CellSet
<1>2. c.message.id \in Writers \X Nat
  BY <1>1, MessageFacts
<1> QED BY <1>1, <1>2 DEF WriterOf, TurnOf

(* r is what is left of q without its first n cells. *)
Without(q, n, r) ==
  n \in 0..Len(q) /\ Len(r) = Len(q) - n /\ \A i \in 1..Len(r) : r[i] = q[i + n]

LEMMA DropOrdered ==
  ASSUME NEW q \in Seq(CellSet), NEW r \in Seq(CellSet), NEW n, Without(q, n, r),
         NEW t \in [Writers -> Nat], NEW k \in [Writers -> Nat], NEW d,
         Ordered(q, t, k, d)
  PROVE  Ordered(r, t, k, d)
<1> DEFINE N == Len(q)
<1>1. N \in Nat /\ n \in 0..N /\ Len(r) = N - n
  BY LenProperties DEF Without
<1>2. \A i \in 1..Len(r) : r[i] = q[i + n] /\ i + n \in 1..N
  BY <1>1 DEF Without
<1> HIDE DEF N
<1>3. Ascending(r, t)
  <2> SUFFICES ASSUME NEW i \in 1..Len(r)
               PROVE  /\ TurnOf(r[i]) <= t[WriterOf(r[i])]
                      /\ \A j \in 1..Len(r) :
                           i < j /\ WriterOf(r[i]) = WriterOf(r[j])
                             => TurnOf(r[i]) <= TurnOf(r[j])
    BY DEF Ascending
  <2>1. \A j \in 1..Len(r) : i < j => i + n < j + n
    BY <1>1
  <2> QED BY <1>2, <2>1 DEF Ordered, Ascending, N
<1>4. AfterWhole(r, t)
  <2> SUFFICES ASSUME NEW p \in 1..Len(r), NEW m \in Messages, Occurs(r, p, m)
               PROVE  /\ m.id[2] < t[m.id[1]]
                      /\ \A j \in 1..Len(r) :
                           j >= p + Len(Parts(m)) /\ WriterOf(r[j]) = m.id[1]
                             => m.id[2] < TurnOf(r[j])
    BY DEF AfterWhole
  <2>1. Len(Parts(m)) \in Nat
    BY CellsFacts
  <2>2. Occurs(q, p + n, m)
    <3> SUFFICES ASSUME NEW x \in 1..Len(Parts(m))
                 PROVE  (p + n) + x - 1 \in 1..N /\ q[(p + n) + x - 1] = Cells(m)[x]
      BY DEF Occurs, N
    <3>1. p + x - 1 \in 1..Len(r) /\ r[p + x - 1] = Cells(m)[x]
      BY DEF Occurs
    <3>2. (p + x - 1) + n = (p + n) + x - 1
      BY <1>1, <2>1
    <3> QED BY <1>2, <3>1, <3>2
  <2>3. p + n \in 1..N
    BY <1>2
  <2>4. \A j \in 1..Len(r) : j >= p + Len(Parts(m)) => j + n >= (p + n) + Len(Parts(m))
    BY <1>1, <2>1
  <2> QED BY <1>2, <2>2, <2>3, <2>4 DEF Ordered, AfterWhole, N
<1>5. Partial(r, t, k)
  <2> SUFFICES ASSUME NEW w \in Writers, NEW p \in 1..Len(r), k[w] > 0,
                      BeginsAt(r, p, Script[w][t[w]])
               PROVE  Len(r) - p + 1 <= k[w]
    BY DEF Partial
  <2>1. BeginsAt(q, p + n, Script[w][t[w]])
    <3> SUFFICES ASSUME NEW j \in (p + n)..N
                 PROVE  q[j].message = Script[w][t[w]] /\ (Leads(q[j]) <=> j = p + n)
      BY DEF BeginsAt, N
    <3>1. j - n \in p..Len(r) /\ j - n \in 1..Len(r) /\ (j - n) + n = j
          /\ (j - n = p <=> j = p + n)
      BY <1>1
    <3>2. r[j - n] = q[j]
      BY <1>2, <3>1
    <3> QED BY <3>1, <3>2 DEF BeginsAt
  <2>2. N - (p + n) + 1 <= k[w]
    BY <1>2, <2>1 DEF Ordered, Partial, N
  <2> QED BY <1>1, <2>2
<1>6. Past(r, t, d)
  BY <1>2 DEF Ordered, Past, N
<1> QED BY <1>3, <1>4, <1>5, <1>6 DEF Ordered

LEMMA OccursFacts ==
  ASSUME NEW q, NEW p, NEW m \in Messages, Occurs(q, p, m)
  PROVE  \A y \in 1..Len(Parts(m)) :
           /\ p + y - 1 \in 1..Len(q) /\ q[p + y - 1] = Cells(m)[y]
           /\ q[p + y - 1].message = m /\ (Leads(q[p + y - 1]) <=> y = 1)
<1> SUFFICES ASSUME NEW y \in 1..Len(Parts(m))
             PROVE  /\ p + y - 1 \in 1..Len(q) /\ q[p + y - 1] = Cells(m)[y]
                    /\ q[p + y - 1].message = m /\ (Leads(q[p + y - 1]) <=> y = 1)
  OBVIOUS
<1>1. /\ Cells(m)[y] = [message |-> m, part |-> Parts(m)[y]]
      /\ Leads(Cells(m)[y]) <=> y = 1
  BY CellsFacts
<1>2. Cells(m)[y].message = m
  BY <1>1
<1> QED BY <1>1, <1>2 DEF Occurs

LEMMA RaiseOrdered ==
  ASSUME NEW q \in Seq(CellSet), NEW d \in Seq(Returned),
         NEW t \in [Writers -> Nat], NEW k \in [Writers -> Nat], Ordered(q, t, k, d),
         NEW t2 \in [Writers -> Nat], NEW k2 \in [Writers -> Nat],
         \A v \in Writers : t[v] <= t2[v] /\ (k2[v] > 0 => k2[v] = k[v] /\ t2[v] = t[v])
  PROVE  Ordered(q, t2, k2, d)
<1>1. \A i \in 1..Len(q) : WriterOf(q[i]) \in Writers /\ TurnOf(q[i]) \in Nat
  BY ElementOfSeq, CellFacts
<1>2. Ascending(q, t2)
  BY <1>1 DEF Ordered, Ascending
<1>3. AfterWhole(q, t2)
  <2>1. \A m \in Messages : m.id[1] \in Writers /\ m.id[2] \in Nat
    <3> SUFFICES ASSUME NEW m \in Messages PROVE m.id[1] \in Writers /\ m.id[2] \in Nat
      OBVIOUS
    <3>1. m.id \in Writers \X Nat
      BY MessageFacts
    <3> QED BY <3>1
  <2>2. \A m \in Messages : m.id[2] < t[m.id[1]] => m.id[2] < t2[m.id[1]]
    BY <2>1
  <2> QED BY <2>2 DEF Ordered, AfterWhole
<1>4. Partial(q, t2, k2)
  BY DEF Ordered, Partial
<1>5. Past(q, t2, d)
  <2> SUFFICES ASSUME NEW i \in 1..Len(d), d[i] # Corrupt
               PROVE  d[i].id[2] < t2[d[i].id[1]]
    BY DEF Ordered, Past
  <2>1. d[i] \in Messages
    BY ElementOfSeq DEF Returned
  <2>2. d[i].id \in Writers \X Nat
    BY <2>1, MessageFacts
  <2> QED BY <2>2 DEF Ordered, Past
<1> QED BY <1>2, <1>3, <1>4, <1>5 DEF Ordered

(* r is q and one more cell, c. *)
Extended(q, c, r) ==
  Len(r) = Len(q) + 1 /\ r[Len(q) + 1] = c /\ \A i \in 1..Len(q) : r[i] = q[i]

LEMMA AppendAscending ==
  ASSUME NEW q \in Seq(CellSet), NEW t \in [Writers -> Nat], Ascending(q, t),
         NEW c \in CellSet, NEW r, Extended(q, c, r), TurnOf(c) = t[WriterOf(c)],
         NEW t2 \in [Writers -> Nat], \A v \in Writers : t[v] <= t2[v]
  PROVE  Ascending(r, t2)
<1> DEFINE N == Len(q)
<1>1. N \in Nat /\ Len(r) = N + 1 /\ r[N + 1] = c /\ \A i \in 1..N : r[i] = q[i]
  BY LenProperties DEF Extended
<1>2. \A i \in 1..N : WriterOf(q[i]) \in Writers /\ TurnOf(q[i]) \in Nat
  BY ElementOfSeq, CellFacts
<1>3. WriterOf(c) \in Writers /\ TurnOf(c) \in Nat
  BY CellFacts
<1>4. \A i \in 1..N : TurnOf(q[i]) <= t[WriterOf(q[i])] /\ TurnOf(q[i]) <= t2[WriterOf(q[i])]
  BY <1>2 DEF Ascending
<1>5. \A i, j \in 1..N :
        i < j /\ WriterOf(q[i]) = WriterOf(q[j]) => TurnOf(q[i]) <= TurnOf(q[j])
  BY DEF Ascending
<1> HIDE DEF N
<1> SUFFICES ASSUME NEW i \in 1..Len(r)
             PROVE  /\ TurnOf(r[i]) <= t2[WriterOf(r[i])]
                    /\ \A j \in 1..Len(r) :
                         i < j /\ WriterOf(r[i]) = WriterOf(r[j])
                           => TurnOf(r[i]) <= TurnOf(r[j])
  BY DEF Ascending
<1>6. CASE i = N + 1
  BY <1>1, <1>3, <1>6
<1>7. CASE i \in 1..N
  <2> SUFFICES ASSUME NEW j \in 1..Len(r), i < j, WriterOf(r[i]) = WriterOf(r[j])
               PROVE  TurnOf(r[i]) <= TurnOf(r[j])
    BY <1>1, <1>4, <1>7
  <2>1. CASE j = N + 1
    BY <1>1, <1>3, <1>4, <1>7, <2>1
  <2>2. CASE j \in 1..N
    BY <1>1, <1>5, <1>7, <2>2
  <2> QED BY <1>1, <2>1, <2>2
<1> QED BY <1>1, <1>6, <1>7

LEMMA AppendPast ==
  ASSUME NEW q \in Seq(CellSet), NEW t \in [Writers -> Nat], NEW d \in Seq(Returned),
         Past(q, t, d),
         NEW c \in CellSet, NEW r, Extended(q, c, r), TurnOf(c) = t[WriterOf(c)],
         NEW t2 \in [Writers -> Nat], \A v \in Writers : t[v] <= t2[v]
  PROVE  Past(r, t2, d)
<1> DEFINE N == Len(q)
<1>1. N \in Nat /\ Len(r) = N + 1 /\ r[N + 1] = c /\ \A i \in 1..N : r[i] = q[i]
  BY LenProperties DEF Extended
<1> HIDE DEF N
<1> SUFFICES ASSUME NEW i \in 1..Len(d), d[i] # Corrupt
             PROVE  /\ d[i].id[2] < t2[d[i].id[1]]
                    /\ \A j \in 1..Len(r) :
                         WriterOf(r[j]) = d[i].id[1] => d[i].id[2] < TurnOf(r[j])
  BY DEF Past
<1>2. d[i] \in Messages
  BY ElementOfSeq DEF Returned
<1>3. d[i].id[1] \in Writers /\ d[i].id[2] \in Nat
  <2>1. d[i].id \in Writers \X Nat
    BY <1>2, MessageFacts
  <2> QED BY <2>1
<1>4. /\ d[i].id[2] < t[d[i].id[1]]
      /\ \A j \in 1..N : WriterOf(q[j]) = d[i].id[1] => d[i].id[2] < TurnOf(q[j])
  BY DEF Past, N
<1>5. d[i].id[2] < t2[d[i].id[1]]
  BY <1>3, <1>4
<1>6. WriterOf(c) = d[i].id[1] => d[i].id[2] < TurnOf(c)
  BY <1>4
<1>7. ASSUME NEW j \in 1..Len(r), WriterOf(r[j]) = d[i].id[1]
      PROVE  d[i].id[2] < TurnOf(r[j])
  <2>1. j \in 1..N \/ j = N + 1
    BY <1>1
  <2> QED BY <1>1, <1>4, <1>6, <1>7, <2>1
<1> QED BY <1>5, <1>7

(* The last cell of a message comes when its writer has written all others; *)
(* a torn one is the last cell of none.                                     *)
LEMMA AppendAfterWhole ==
  ASSUME NEW q \in Seq(CellSet), NEW t \in [Writers -> Nat], NEW k \in [Writers -> Nat],
         AfterWhole(q, t), Partial(q, t, k),
         NEW c \in CellSet, NEW r, Extended(q, c, r), TurnOf(c) = t[WriterOf(c)],
         NEW w \in Writers, w = WriterOf(c), c.message = Script[w][t[w]],
         c.part # "torn" => (Leads(c) <=> k[w] = 0),
         NEW t2 \in [Writers -> Nat], \A v \in Writers : t[v] <= t2[v],
         k[w] + 1 <= Len(Parts(c.message)),
         c.part # "torn" => (k[w] + 1 = Len(Parts(c.message)) => t2[w] = t[w] + 1)
  PROVE  AfterWhole(r, t2)
<1> DEFINE N == Len(q)
<1>1. N \in Nat /\ Len(r) = N + 1 /\ r[N + 1] = c /\ \A i \in 1..N : r[i] = q[i]
  BY LenProperties DEF Extended
<1> HIDE DEF N
<1>2. c.message.id[1] = w /\ c.message.id[2] = t[w]
  BY CellFacts DEF WriterOf, TurnOf
<1>3. k[w] \in Nat /\ t[w] \in Nat
  OBVIOUS
<1> SUFFICES ASSUME NEW p \in 1..Len(r), NEW x \in Messages, Occurs(r, p, x)
             PROVE  /\ x.id[2] < t2[x.id[1]]
                    /\ \A j \in 1..Len(r) :
                         j >= p + Len(Parts(x)) /\ WriterOf(r[j]) = x.id[1]
                           => x.id[2] < TurnOf(r[j])
  BY DEF AfterWhole
<1> DEFINE L == Len(Parts(x))
<1>4. L \in Nat /\ L >= 2
  BY CellsFacts
<1>5. \A y \in 1..L : /\ p + y - 1 \in 1..Len(r) /\ r[p + y - 1] = Cells(x)[y]
                      /\ r[p + y - 1].message = x /\ (Leads(r[p + y - 1]) <=> y = 1)
  BY OccursFacts
<1>6. x.id[1] \in Writers /\ x.id[2] \in Nat
  <2>1. x.id \in Writers \X Nat
    BY MessageFacts
  <2> QED BY <2>1
<1> HIDE DEF L
<1>7. p + L - 1 \in 1..(N + 1) /\ p + L - 1 >= p + 1
  <2>1. L \in 1..L
    BY <1>4
  <2>2. p + L - 1 \in 1..Len(r)
    BY <1>5, <2>1
  <2>3. Len(r) = N + 1 /\ N \in Nat
    BY <1>1
  <2> QED BY <1>4, <2>2, <2>3
<1>8. CASE p + L - 1 = N + 1
  <2>1. p \in 1..N
    BY <1>1, <1>4, <1>8
  <2>2. c.message = x /\ ~Leads(c) /\ c.part # "torn"
    <3>1. L \in 1..L /\ L # 1
      BY <1>4
    <3>2. /\ r[p + L - 1].message = x /\ ~Leads(r[p + L - 1])
          /\ r[p + L - 1] = Cells(x)[L]
      BY <1>5, <3>1
    <3>3. Cells(x)[L].part # "torn"
      BY <3>1, CellsFacts DEF L
    <3> QED BY <1>1, <1>8, <3>2, <3>3
  <2>3. k[w] > 0
    BY <1>3, <2>2
  <2>4. BeginsAt(q, p, x)
    <3> SUFFICES ASSUME NEW j \in p..N
                 PROVE  q[j].message = x /\ (Leads(q[j]) <=> j = p)
      BY DEF BeginsAt, N
    <3>1. j - p + 1 \in 1..L /\ p + (j - p + 1) - 1 = j /\ (j - p + 1 = 1 <=> j = p)
      BY <1>1, <1>4, <1>8, <2>1
    <3>2. r[j].message = x /\ (Leads(r[j]) <=> j - p + 1 = 1)
      BY <1>5, <3>1
    <3>3. r[j] = q[j]
      BY <1>1, <2>1
    <3> QED BY <3>1, <3>2, <3>3
  <2>5. N - p + 1 <= k[w]
    BY <2>1, <2>2, <2>3, <2>4 DEF Partial, N
  <2>6. k[w] + 1 = Len(Parts(c.message))
    BY <1>1, <1>3, <1>4, <1>8, <2>2, <2>5 DEF L
  <2>7. x.id[2] < t2[x.id[1]]
    BY <1>2, <1>3, <2>2, <2>6
  <2>8. \A j \in 1..Len(r) : ~(j >= p + L)
    BY <1>1, <1>4, <1>8
  <2> QED BY <2>7, <2>8 DEF L
<1>9. CASE p + L - 1 \in 1..N
  <2>1. Occurs(q, p, x)
    <3> SUFFICES ASSUME NEW y \in 1..L
                 PROVE  p + y - 1 \in 1..N /\ q[p + y - 1] = Cells(x)[y]
      BY DEF Occurs, N, L
    <3>1. p + y - 1 \in 1..N
      BY <1>1, <1>4, <1>9
    <3> QED BY <1>1, <1>5, <3>1
  <2>2. p \in 1..N
    BY <1>1, <1>7, <1>9
  <2>3. /\ x.id[2] < t[x.id[1]]
        /\ \A j \in 1..N : j >= p + L /\ WriterOf(q[j]) = x.id[1] => x.id[2] < TurnOf(q[j])
    BY <2>1, <2>2 DEF AfterWhole, N, L
  <2>4. x.id[2] < t2[x.id[1]]
    <3>1. \A i, a, b \in Nat : i < a /\ a <= b => i < b
      OBVIOUS
    <3>2. t[x.id[1]] \in Nat /\ t2[x.id[1]] \in Nat /\ t[x.id[1]] <= t2[x.id[1]]
      BY <1>6
    <3> QED BY <1>6, <2>3, <3>1, <3>2, Zenon
  <2>5. WriterOf(c) = x.id[1] => x.id[2] < TurnOf(c)
    BY <2>3
  <2>6. \A j \in 1..Len(r) : j \in 1..N \/ j = N + 1
    BY <1>1
  <2> QED BY <1>1, <2>3, <2>4, <2>5, <2>6 DEF L
<1> QED BY <1>1, <1>7, <1>8, <1>9

(* After a step of w: who is in a message was in it before. *)
Unfinished(w, t, k, t2, k2) ==
  \A v \in Writers : k2[v] > 0 =>
    /\ t2[v] = t[v] /\ Script[v][t[v]].id = <<v, t[v]>>
    /\ k2[v] = IF v = w THEN k[w] + 1 ELSE k[v]

LEMMA AppendPartial ==
  ASSUME NEW q \in Seq(CellSet), NEW t \in [Writers -> Nat], NEW k \in [Writers -> Nat],
         Partial(q, t, k),
         NEW c \in CellSet, NEW r, Extended(q, c, r),
         NEW w \in Writers, w = WriterOf(c), c.message = Script[w][t[w]],
         NEW t2 \in [Writers -> Nat], NEW k2 \in [Writers -> Nat],
         IF c.part = "torn" THEN k2[w] = 0 ELSE Leads(c) <=> k[w] = 0,
         Unfinished(w, t, k, t2, k2)
  PROVE  Partial(r, t2, k2)
<1> DEFINE N == Len(q)
<1>1. N \in Nat /\ Len(r) = N + 1 /\ r[N + 1] = c /\ \A i \in 1..N : r[i] = q[i]
  BY LenProperties DEF Extended
<1>2. N \in Nat /\ Len(r) = N + 1
  BY <1>1
<1> HIDE DEF N
<1> SUFFICES ASSUME NEW v \in Writers, NEW p \in 1..Len(r), k2[v] > 0,
                    BeginsAt(r, p, Script[v][t2[v]])
             PROVE  Len(r) - p + 1 <= k2[v]
  BY DEF Partial
<1> DEFINE x == Script[v][t[v]]
<1>0. t2[v] = t[v] /\ x.id = <<v, t[v]>> /\ k2[v] = IF v = w THEN k[w] + 1 ELSE k[v]
  BY DEF Unfinished
<1>3. c.message = x /\ (Leads(c) <=> N + 1 = p)
  <2>1. N + 1 \in p..Len(r)
    BY <1>2
  <2>2. r[N + 1].message = Script[v][t2[v]] /\ (Leads(r[N + 1]) <=> N + 1 = p)
    BY <2>1 DEF BeginsAt
  <2> QED BY <1>0, <1>1, <2>2
<1> HIDE DEF x
<1>4. v = w
  BY <1>0, <1>3 DEF WriterOf
<1>5. k2[v] = k[w] + 1 /\ k[w] \in Nat /\ t2[v] = t[w]
  BY <1>0, <1>4
<1>6. CASE p = N + 1
  BY <1>2, <1>5, <1>6
<1>7. CASE p \in 1..N
  <2>1. k[w] > 0
    BY <1>2, <1>3, <1>4, <1>5, <1>7
  <2>2. BeginsAt(q, p, Script[w][t[w]])
    <3> SUFFICES ASSUME NEW j \in p..N
                 PROVE  q[j].message = Script[w][t[w]] /\ (Leads(q[j]) <=> j = p)
      BY DEF BeginsAt, N
    <3>1. j \in p..Len(r) /\ j \in 1..N
      BY <1>1, <1>7
    <3>2. r[j].message = Script[v][t2[v]] /\ (Leads(r[j]) <=> j = p)
      BY <3>1 DEF BeginsAt
    <3> QED BY <1>1, <1>4, <1>5, <3>1, <3>2
  <2>3. N - p + 1 <= k[w]
    BY <1>7, <2>1, <2>2 DEF Partial, N
  <2> QED BY <1>2, <1>5, <2>3
<1> QED BY <1>2, <1>6, <1>7

LEMMA AppendOrdered ==
  ASSUME NEW q \in Seq(CellSet), NEW d \in Seq(Returned),
         NEW t \in [Writers -> Nat], NEW k \in [Writers -> Nat], Ordered(q, t, k, d),
         NEW w \in Writers, NEW m \in Messages, m = Script[w][t[w]], m.id = <<w, t[w]>>,
         k[w] + 1 <= Len(Parts(m)),
         NEW c \in CellSet, c.message = m, NEW r, Extended(q, c, r),
         NEW t2 \in [Writers -> Nat], NEW k2 \in [Writers -> Nat],
         \A v \in Writers : t[v] <= t2[v],
         IF c.part = "torn" THEN k2[w] = 0 ELSE Leads(c) <=> k[w] = 0,
         c.part # "torn" => (k[w] + 1 = Len(Parts(m)) => t2[w] = t[w] + 1),
         Unfinished(w, t, k, t2, k2)
  PROVE  Ordered(r, t2, k2, d)
<1>1. WriterOf(c) = w /\ TurnOf(c) = t[w]
  BY DEF WriterOf, TurnOf
<1>2. Ascending(q, t) /\ AfterWhole(q, t) /\ Partial(q, t, k) /\ Past(q, t, d)
  BY DEF Ordered
<1>3. Ascending(r, t2)
  BY <1>1, <1>2, AppendAscending
<1>4. Past(r, t2, d)
  BY <1>1, <1>2, AppendPast
<1>5. AfterWhole(r, t2)
  <2>1. /\ c.message = Script[w][t[w]] /\ TurnOf(c) = t[WriterOf(c)] /\ w = WriterOf(c)
        /\ k[w] + 1 <= Len(Parts(c.message))
        /\ c.part # "torn" => (k[w] + 1 = Len(Parts(c.message)) => t2[w] = t[w] + 1)
        /\ c.part # "torn" => (Leads(c) <=> k[w] = 0)
    BY <1>1
  <2> QED BY <1>2, <2>1, AppendAfterWhole
<1>6. Partial(r, t2, k2)
  BY <1>1, <1>2, AppendPartial
<1> QED BY <1>3, <1>4, <1>5, <1>6 DEF Ordered

OrderInv == TypeInv /\ Ordered(Bytes, turn, written, delivered) /\ WholeOnceInOrder

LEMMA BytesFacts ==
  ASSUME NEW got \in Seq(CellSet), NEW rest \in Seq(CellSet)
  PROVE  /\ got \o rest \in Seq(CellSet) /\ Len(got \o rest) = Len(got) + Len(rest)
         /\ Len(got) \in Nat /\ Len(rest) \in Nat
         /\ \A i \in 1..Len(got) : (got \o rest)[i] = got[i]
         /\ \A i \in 1..Len(rest) : (got \o rest)[Len(got) + i] = rest[i]
<1>1. Len(got) \in Nat /\ Len(rest) \in Nat
  BY LenProperties
<1>2. /\ got \o rest \in Seq(CellSet) /\ Len(got \o rest) = Len(got) + Len(rest)
      /\ \A i \in 1..(Len(got) + Len(rest)) :
           (got \o rest)[i] = IF i <= Len(got) THEN got[i] ELSE rest[i - Len(got)]
  BY ConcatProperties
<1>3. ASSUME NEW i \in 1..Len(rest) PROVE (got \o rest)[Len(got) + i] = rest[i]
  <2>1. Len(got) + i \in 1..(Len(got) + Len(rest)) /\ ~(Len(got) + i <= Len(got))
        /\ Len(got) + i - Len(got) = i
    BY <1>1
  <2> QED BY <1>2, <2>1
<1>4. ASSUME NEW i \in 1..Len(got) PROVE (got \o rest)[i] = got[i]
  <2>1. i \in 1..(Len(got) + Len(rest)) /\ i <= Len(got)
    BY <1>1
  <2> QED BY <1>2, <2>1
<1> QED BY <1>1, <1>2, <1>3, <1>4

LEMMA OrderedStays ==
  ASSUME UNCHANGED format, Ordered(Bytes', turn', written', delivered')
  PROVE  Ordered(Bytes, turn, written, delivered)'
<1>1. \A m : Parts(m)' = Parts(m) /\ Cells(m)' = Cells(m)
  BY PartsStay
<1>2. Ascending(Bytes, turn)' /\ Partial(Bytes, turn, written)' /\ Past(Bytes, turn, delivered)'
  BY DEF Ordered, Ascending, Partial, Past, BeginsAt
<1>3. AfterWhole(Bytes, turn)'
  BY <1>1 DEF Ordered, AfterWhole, Occurs
<1> QED BY <1>2, <1>3 DEF Ordered

(* A write adds a cell to those in transit. *)
LEMMA WriteBytes ==
  ASSUME NEW c \in CellSet, stream \in Seq(CellSet), reader.got \in Seq(CellSet),
         stream' = Append(stream, c), UNCHANGED reading
  PROVE  Bytes \in Seq(CellSet) /\ Extended(Bytes, c, Bytes')
<1>1. reader' = reader
  BY DEF reading
<1>2. Len(stream') = Len(stream) + 1 /\ stream'[Len(stream) + 1] = c
      /\ \A i \in 1..Len(stream) : stream'[i] = stream[i]
  BY AppendProperties
<1> DEFINE got == reader.got
           A == Len(got)
           B == Len(stream)
<1>3. /\ Bytes \in Seq(CellSet) /\ Len(Bytes) = A + B
      /\ A \in Nat /\ B \in Nat
      /\ \A i \in 1..A : Bytes[i] = got[i]
      /\ \A i \in 1..B : Bytes[A + i] = stream[i]
  BY BytesFacts DEF Bytes
<1>4. /\ Len(Bytes') = A + Len(stream')
      /\ \A i \in 1..A : Bytes'[i] = got[i]
      /\ \A i \in 1..Len(stream') : Bytes'[A + i] = stream'[i]
  <2>1. stream' \in Seq(CellSet)
    BY AppendProperties
  <2>2. Bytes' = got \o stream'
    BY <1>1 DEF Bytes
  <2>3. got \in Seq(CellSet)
    OBVIOUS
  <2> HIDE DEF got
  <2>4. /\ Len(got \o stream') = Len(got) + Len(stream')
        /\ \A i \in 1..Len(got) : (got \o stream')[i] = got[i]
        /\ \A i \in 1..Len(stream') : (got \o stream')[Len(got) + i] = stream'[i]
    BY <2>1, <2>3, BytesFacts
  <2> QED BY <2>2, <2>4
<1> HIDE DEF got, A, B
<1>5. Len(stream') = B + 1 /\ stream'[B + 1] = c /\ \A i \in 1..B : stream'[i] = stream[i]
  BY <1>2 DEF B
<1>6. Len(Bytes') = Len(Bytes) + 1
  BY <1>3, <1>4, <1>5
<1>7. Bytes'[Len(Bytes) + 1] = c
  <2>1. B + 1 \in 1..Len(stream') /\ A + (B + 1) = Len(Bytes) + 1
    BY <1>3, <1>5
  <2> QED BY <1>4, <1>5, <2>1
<1>8. ASSUME NEW i \in 1..Len(Bytes) PROVE Bytes'[i] = Bytes[i]
  <2>1. CASE i \in 1..A
    BY <1>3, <1>4, <2>1
  <2>2. CASE i - A \in 1..B
    <3>1. i - A \in 1..Len(stream') /\ A + (i - A) = i
      BY <1>3, <1>5, <2>2
    <3> QED BY <1>3, <1>4, <1>5, <2>2, <3>1
  <2> QED BY <1>3, <2>1, <2>2
<1> QED BY <1>3, <1>6, <1>7, <1>8 DEF Extended

LEMMA WriteOrdered ==
  ASSUME OrderInv, NEW w \in Writers, Write(w)
  PROVE  OrderInv'
<1> DEFINE m == Current(w)
           c == Cells(m)[written[w] + 1]
           done == written[w] + 1 = Len(Parts(m))
<1>1. /\ Busy(w) /\ m \in Messages /\ m.id = <<w, turn[w]>>
      /\ written[w] + 1 \in 1..Len(Parts(m))
      /\ stream' = Append(stream, c)
      /\ written' = [written EXCEPT ![w] = IF done THEN 0 ELSE written[w] + 1]
      /\ turn' = IF done THEN [turn EXCEPT ![w] = @ + 1] ELSE turn
      /\ UNCHANGED <<format, reading>>
  BY WriteFacts DEF OrderInv, TypeInv
<1>2. TypeInv'
  BY WriteTyped DEF OrderInv
<1>3. /\ reader.got \in Seq(CellSet) /\ stream \in Seq(CellSet) /\ delivered \in Seq(Returned)
      /\ turn \in [Writers -> Nat] /\ written \in [Writers -> Nat]
      /\ turn' \in [Writers -> Nat] /\ written' \in [Writers -> Nat]
      /\ stream' \in Seq(CellSet)
  BY <1>2 DEF OrderInv, TypeInv, ReaderInv, WriterInv
<1>4. m = Script[w][turn[w]]
  BY DEF Current
<1>5. /\ c \in CellSet /\ c.message = m /\ c.part # "torn"
      /\ Leads(c) <=> written[w] + 1 = 1
      /\ Len(Parts(m)) \in Nat
  <2>1. m \in Messages /\ written[w] + 1 \in 1..Len(Parts(m))
    BY <1>1
  <2> HIDE DEF m, done
  <2>2. /\ Cells(m)[written[w] + 1]
             = [message |-> m, part |-> Parts(m)[written[w] + 1]]
        /\ Cells(m)[written[w] + 1] \in CellSet
        /\ Cells(m)[written[w] + 1].part # "torn"
        /\ Leads(Cells(m)[written[w] + 1]) <=> written[w] + 1 = 1
        /\ Len(Parts(m)) \in Nat
    BY <2>1, CellsFacts
  <2> QED BY <2>2
<1> HIDE DEF m, c, done
<1>6. /\ Bytes \in Seq(CellSet) /\ Extended(Bytes, c, Bytes')
      /\ written[w] + 1 <= Len(Parts(m)) /\ (Leads(c) <=> written[w] = 0)
  BY <1>1, <1>3, <1>5, WriteBytes
<1>7. /\ \A v \in Writers : turn[v] <= turn'[v]
      /\ written[w] + 1 = Len(Parts(m)) => turn'[w] = turn[w] + 1
  BY <1>1, <1>3 DEF done
<1>8. Unfinished(w, turn, written, turn', written')
  <2> SUFFICES ASSUME NEW v \in Writers, written'[v] > 0
               PROVE  /\ turn'[v] = turn[v] /\ Script[v][turn[v]].id = <<v, turn[v]>>
                      /\ written'[v] = IF v = w THEN written[w] + 1 ELSE written[v]
    BY DEF Unfinished
  <2>1. CASE v = w
    BY <1>1, <1>3, <1>4, <2>1
  <2>2. CASE v # w
    <3>1. turn'[v] = turn[v] /\ written'[v] = written[v]
      BY <1>1, <1>3, <2>2
    <3>2. Current(v).id = <<v, turn[v]>>
      BY <3>1, CurrentFacts DEF OrderInv, TypeInv, WriterInv
    <3> QED BY <2>2, <3>1, <3>2 DEF Current
  <2> QED BY <2>1, <2>2
<1>9. Ordered(Bytes, turn, written, delivered)
  BY DEF OrderInv
<1>10. Ordered(Bytes', turn', written', delivered)
  BY <1>1, <1>3, <1>4, <1>5, <1>6, <1>7, <1>8, <1>9, AppendOrdered
<1>11. UNCHANGED <<format, delivered>>
  BY <1>1 DEF reading
<1>12. Ordered(Bytes, turn, written, delivered)'
  BY <1>10, <1>11, OrderedStays
<1>13. WholeOnceInOrder'
  BY <1>11 DEF OrderInv, WholeOnceInOrder
<1> QED BY <1>2, <1>12, <1>13 DEF OrderInv

LEMMA FailOrdered ==
  ASSUME OrderInv, NEW w \in Writers, Fail(w)
  PROVE  OrderInv'
<1> DEFINE m == Current(w)
           c == Torn(m)
<1>1. /\ Busy(w) /\ written' = [written EXCEPT ![w] = 0]
      /\ turn' = turn \/ turn' = [turn EXCEPT ![w] = Len(Script[w]) + 1]
      /\ UNCHANGED <<format, reading>>
      /\ stream' = stream \/ stream' = Append(stream, c)
      /\ c \in CellSet /\ c.part = "torn" /\ c.message = m
  BY FailFacts DEF OrderInv, TypeInv
<1>2. TypeInv'
  BY FailTyped DEF OrderInv
<1>3. /\ Bytes \in Seq(CellSet) /\ delivered \in Seq(Returned)
      /\ reader.got \in Seq(CellSet) /\ stream \in Seq(CellSet)
      /\ turn \in [Writers -> Nat] /\ written \in [Writers -> Nat]
      /\ turn' \in [Writers -> Nat] /\ written' \in [Writers -> Nat]
  <2>1. Bytes \in Seq(CellSet)
    BY BytesFacts DEF Bytes, OrderInv, TypeInv, ReaderInv
  <2> QED BY <1>2, <2>1 DEF OrderInv, TypeInv, ReaderInv, WriterInv
<1>4. \A v \in Writers : /\ turn[v] <= turn'[v]
                         /\ written'[v] > 0 => /\ v # w /\ written'[v] = written[v]
                                               /\ turn'[v] = turn[v]
  <2>1. Len(Script[w]) \in Nat
    BY ScriptFacts
  <2> QED BY <1>1, <1>3, <2>1 DEF Busy
<1>5. Ordered(Bytes, turn, written, delivered)
  BY DEF OrderInv
<1>6. UNCHANGED <<format, delivered, reader>>
  BY <1>1 DEF reading
<1>7. m \in Messages /\ m.id = <<w, turn[w]>> /\ m = Script[w][turn[w]]
  BY <1>1, CurrentFacts DEF OrderInv, TypeInv, WriterInv, Current
<1>8. written[w] + 1 <= Len(Parts(m))
  <2>1. written[w] > 0 => written[w] < Len(Parts(m))
    BY DEF OrderInv, TypeInv, WriterInv
  <2>2. Len(Parts(m)) \in Nat /\ Len(Parts(m)) >= 2
    BY <1>7, CellsFacts
  <2> QED BY <1>3, <2>1, <2>2
<1> HIDE DEF m, c
<1>9. ASSUME stream' = stream
      PROVE  Ordered(Bytes, turn, written, delivered)'
  <2>0. \A v \in Writers : /\ turn[v] <= turn'[v]
                           /\ written'[v] > 0 => written'[v] = written[v] /\ turn'[v] = turn[v]
    BY <1>4
  <2>1. Ordered(Bytes, turn', written', delivered)
    BY <1>3, <1>5, <2>0, RaiseOrdered
  <2>2. Bytes' = Bytes
    BY <1>6, <1>9 DEF Bytes
  <2> QED BY <1>6, <2>1, <2>2, OrderedStays
<1>10. ASSUME stream' = Append(stream, c)
       PROVE  Ordered(Bytes, turn, written, delivered)'
  <2>1. Extended(Bytes, c, Bytes')
    BY <1>1, <1>3, <1>10, WriteBytes
  <2>2. Unfinished(w, turn, written, turn', written')
    <3> SUFFICES ASSUME NEW v \in Writers, written'[v] > 0
                 PROVE  /\ turn'[v] = turn[v] /\ Script[v][turn[v]].id = <<v, turn[v]>>
                        /\ v # w /\ written'[v] = written[v]
      BY DEF Unfinished
    <3>1. turn'[v] = turn[v] /\ v # w /\ written'[v] = written[v]
      BY <1>4
    <3>2. Current(v).id = <<v, turn[v]>>
      BY <3>1, CurrentFacts DEF OrderInv, TypeInv, WriterInv
    <3> QED BY <3>1, <3>2 DEF Current
  <2>3. written'[w] = 0 /\ \A v \in Writers : turn[v] <= turn'[v]
    BY <1>1, <1>3, <1>4
  <2>4. Ordered(Bytes', turn', written', delivered)
    <3>1. c \in CellSet /\ c.message = m
          /\ (IF c.part = "torn" THEN written'[w] = 0 ELSE Leads(c) <=> written[w] = 0)
          /\ (c.part # "torn"
               => (written[w] + 1 = Len(Parts(m)) => turn'[w] = turn[w] + 1))
      BY <1>1, <2>3
    <3> QED BY <1>3, <1>5, <1>7, <1>8, <2>1, <2>2, <2>3, <3>1, AppendOrdered
  <2> QED BY <1>6, <2>4, OrderedStays
<1>11. WholeOnceInOrder'
  BY <1>6 DEF OrderInv, WholeOnceInOrder
<1> QED BY <1>1, <1>2, <1>9, <1>10, <1>11 DEF OrderInv

(* What the reader takes off the stream leaves the cells in transit in place, *)
(* or takes away those it had and one more.                                  *)
LEMMA ReadBytes ==
  ASSUME ReaderInv, stream # <<>>, stream' = Tail(stream), reader'.got \in Seq(CellSet)
  PROVE  /\ Bytes \in Seq(CellSet) /\ Bytes' \in Seq(CellSet)
         /\ reader'.got = Append(reader.got, Head(stream)) => Without(Bytes, 0, Bytes')
         /\ reader'.got = <<>> => Without(Bytes, Len(reader.got) + 1, Bytes')
         /\ \A i \in 1..Len(Append(reader.got, Head(stream))) :
              /\ i \in 1..Len(Bytes) /\ Bytes[i] = Append(reader.got, Head(stream))[i]
         /\ Len(Append(reader.got, Head(stream))) = Len(reader.got) + 1
<1> DEFINE g == reader.got
           h == Head(stream)
           A == Len(g)
           B == Len(stream)
           q == Bytes
           r == Bytes'
<1>1. /\ h \in CellSet /\ Tail(stream) \in Seq(CellSet) /\ B \in Nat /\ B >= 1
      /\ Len(Tail(stream)) = B - 1 /\ h = stream[1]
      /\ \A i \in 1..(B - 1) : Tail(stream)[i] = stream[i + 1]
  BY HeadTailProperties, LenProperties, EmptySeq DEF ReaderInv
<1>2. /\ A \in Nat /\ Append(g, h) \in Seq(CellSet) /\ Len(Append(g, h)) = A + 1
      /\ Append(g, h)[A + 1] = h /\ \A i \in 1..A : Append(g, h)[i] = g[i]
  BY <1>1, AppendProperties, LenProperties DEF ReaderInv
<1>3. /\ q \in Seq(CellSet) /\ Len(q) = A + B
      /\ \A i \in 1..A : q[i] = g[i]
      /\ \A i \in 1..B : q[A + i] = stream[i]
  BY BytesFacts DEF Bytes, ReaderInv
<1>4. /\ r \in Seq(CellSet) /\ Len(r) = Len(reader'.got) + (B - 1)
      /\ \A i \in 1..Len(reader'.got) : r[i] = reader'.got[i]
      /\ \A i \in 1..(B - 1) : r[Len(reader'.got) + i] = Tail(stream)[i]
  <2>1. /\ r \in Seq(CellSet) /\ Len(r) = Len(reader'.got) + Len(Tail(stream))
        /\ \A i \in 1..Len(reader'.got) : r[i] = reader'.got[i]
        /\ \A i \in 1..Len(Tail(stream)) : r[Len(reader'.got) + i] = Tail(stream)[i]
    BY <1>1, BytesFacts DEF Bytes
  <2> QED BY <1>1, <2>1
<1> DEFINE a == Append(g, h)
<1> HIDE DEF A, B, h, q, r, a
<1>9. A \in Nat /\ B \in Nat /\ B >= 1 /\ Len(a) = A + 1
  BY <1>1, <1>2 DEF a
<1>5. \A i \in 1..Len(a) : i \in 1..Len(q) /\ q[i] = a[i]
  <2> SUFFICES ASSUME NEW i \in 1..(A + 1) PROVE i \in 1..Len(q) /\ q[i] = a[i]
    BY <1>2 DEF a
  <2>1. CASE i \in 1..A
    BY <1>1, <1>2, <1>3, <2>1 DEF a
  <2>2. CASE i = A + 1
    <3>1. q[A + 1] = stream[1]
      BY <1>1, <1>3
    <3> QED BY <1>1, <1>2, <1>3, <2>2, <3>1 DEF a
  <2> QED BY <1>2, <2>1, <2>2
<1>6. ASSUME NEW i \in 1..(B - 1) PROVE Tail(stream)[i] = q[(A + 1) + i]
  <2>1. i + 1 \in 1..B /\ A + (i + 1) = (A + 1) + i
    BY <1>1, <1>2
  <2> QED BY <1>1, <1>3, <2>1
<1>7. ASSUME reader'.got = a PROVE Without(q, 0, r)
  <2>1. Len(r) = Len(q) /\ Len(q) \in Nat
    BY <1>3, <1>4, <1>7, <1>9
  <2>2. ASSUME NEW i \in 1..Len(r) PROVE r[i] = q[i + 0]
    <3>1. CASE i \in 1..(A + 1)
      BY <1>4, <1>5, <1>7, <1>9, <3>1
    <3>2. CASE i - (A + 1) \in 1..(B - 1)
      <4> DEFINE u == i - (A + 1)
      <4>1. i = (A + 1) + u
        BY <1>9
      <4>2. u \in 1..(B - 1)
        BY <3>2
      <4> HIDE DEF u
      <4>3. r[(A + 1) + u] = Tail(stream)[u]
        BY <1>4, <1>7, <1>9, <4>2
      <4>4. Tail(stream)[u] = q[(A + 1) + u]
        BY <1>6, <4>2
      <4>5. i + 0 = i
        OBVIOUS
      <4> QED BY <4>1, <4>3, <4>4, <4>5
    <3>3. i + 0 = i /\ (i \in 1..(A + 1) \/ i - (A + 1) \in 1..(B - 1))
      BY <1>1, <1>2, <1>3, <2>1
    <3> QED BY <3>1, <3>2, <3>3
  <2> QED BY <2>1, <2>2 DEF Without
<1>8. ASSUME reader'.got = <<>> PROVE Without(q, A + 1, r)
  <2>1. Len(reader'.got) = 0
    BY <1>8, EmptySeq
  <2>2. Len(r) = Len(q) - (A + 1) /\ A + 1 \in 0..Len(q) /\ Len(r) = B - 1
    BY <1>1, <1>2, <1>3, <1>4, <2>1
  <2>3. ASSUME NEW i \in 1..Len(r) PROVE r[i] = q[i + (A + 1)]
    <3>1. 0 + i = i /\ (A + 1) + i = i + (A + 1) /\ i \in 1..(B - 1)
      BY <1>1, <1>2, <2>2
    <3>2. r[0 + i] = Tail(stream)[i]
      BY <1>4, <2>1, <3>1
    <3>3. Tail(stream)[i] = q[(A + 1) + i]
      BY <1>6, <3>1
    <3> QED BY <3>1, <3>2, <3>3
  <2> QED BY <2>2, <2>3 DEF Without
<1> QED BY <1>2, <1>3, <1>4, <1>5, <1>7, <1>8 DEF A, h, q, r, a

LEMMA DropStep ==
  ASSUME OrderInv, TypeInv', UNCHANGED <<format, turn, written, delivered>>,
         Bytes \in Seq(CellSet), Bytes' \in Seq(CellSet), NEW n, Without(Bytes, n, Bytes')
  PROVE  OrderInv'
<1>1. turn \in [Writers -> Nat] /\ written \in [Writers -> Nat]
  BY DEF OrderInv, TypeInv, WriterInv
<1>2. Ordered(Bytes, turn, written, delivered)
  BY DEF OrderInv
<1>3. Ordered(Bytes', turn, written, delivered)
  BY <1>1, <1>2, DropOrdered
<1>4. Ordered(Bytes, turn, written, delivered)'
  BY <1>3, OrderedStays
<1> QED BY <1>4 DEF OrderInv, WholeOnceInOrder

LEMMA ReadOrdered == OrderInv /\ Read => OrderInv'
<1> SUFFICES ASSUME OrderInv, Read PROVE OrderInv'
  OBVIOUS
<1> DEFINE got == Append(reader.got, Head(stream))
<1>1. /\ stream # <<>> /\ stream' = Tail(stream)
      /\ Keeps(got) \/ Returns(got) \/ Raises
      /\ UNCHANGED <<format, writing>>
  BY ReadFacts DEF OrderInv, TypeInv
<1>2. TypeInv'
  BY ReadTyped DEF OrderInv
<1>3. /\ Bytes \in Seq(CellSet) /\ Bytes' \in Seq(CellSet)
      /\ reader'.got = got => Without(Bytes, 0, Bytes')
      /\ reader'.got = <<>> => Without(Bytes, Len(reader.got) + 1, Bytes')
      /\ \A i \in 1..Len(got) : i \in 1..Len(Bytes) /\ Bytes[i] = got[i]
      /\ Len(got) = Len(reader.got) + 1
  BY <1>1, <1>2, ReadBytes DEF OrderInv, TypeInv, ReaderInv
<1>4. UNCHANGED <<format, turn, written>>
  BY <1>1 DEF writing
<1>5. got \in Seq(CellSet) /\ got # <<>> /\ Len(reader.got) \in Nat
  <2>1. reader.got \in Seq(CellSet) /\ Head(stream) \in CellSet
    BY <1>1, HeadTailProperties DEF OrderInv, TypeInv, ReaderInv
  <2> QED BY <2>1, AppendProperties, LenProperties
<1> HIDE DEF got
<1>6. CASE Keeps(got)
  BY <1>2, <1>3, <1>4, <1>6, DropStep DEF Keeps
<1>7. CASE Raises
  BY <1>2, <1>3, <1>4, <1>7, DropStep DEF Raises
<1>8. CASE Returns(got)
  <2> DEFINE x == Result(got)
             N == Len(delivered)
  <2>1. delivered \in Seq(Returned) /\ turn \in [Writers -> Nat] /\ written \in [Writers -> Nat]
    BY DEF OrderInv, TypeInv, WriterInv, ReaderInv
  <2>2. x \in Returned /\ (x # Corrupt => x = got[1].message /\ got = Cells(got[1].message))
    BY <1>5, ResultTyped
  <2>3. /\ N \in Nat /\ Len(delivered') = N + 1 /\ delivered'[N + 1] = x
        /\ \A i \in 1..N : delivered'[i] = delivered[i]
    BY <1>8, <2>1, <2>2, AppendProperties, LenProperties DEF Returns
  <2> HIDE DEF x, N
  <2>4. Without(Bytes, Len(reader.got) + 1, Bytes')
    BY <1>3, <1>8 DEF Returns
  <2>5. Ordered(Bytes, turn, written, delivered)
    BY DEF OrderInv
  <2>6. Ordered(Bytes', turn, written, delivered)
    BY <1>3, <2>1, <2>4, <2>5, DropOrdered
  <2>7. ASSUME x # Corrupt
        PROVE  /\ x.id[2] < turn[x.id[1]]
               /\ \A j \in 1..Len(Bytes') : WriterOf(Bytes'[j]) = x.id[1] => x.id[2] < TurnOf(Bytes'[j])
               /\ WriterOf(Bytes[1]) = x.id[1] /\ TurnOf(Bytes[1]) = x.id[2] /\ 1 \in 1..Len(Bytes)
    <3>1. x \in Messages /\ got = Cells(x)
      BY <2>2, <2>7 DEF Returned
    <3>2. Len(got) = Len(Parts(x)) /\ Len(got) \in Nat /\ Len(got) >= 2
      BY <3>1, CellsFacts
    <3>3. \A i \in 1..Len(got) : 1 + i - 1 = i
      BY <3>2
    <3>4. Occurs(Bytes, 1, x)
      BY <1>3, <3>1, <3>2, <3>3 DEF Occurs
    <3>5. 1 \in 1..Len(Bytes) /\ Bytes[1] = Cells(x)[1]
      <4>1. 1 \in 1..Len(got)
        BY <3>2
      <4> QED BY <1>3, <3>1, <4>1
    <3>6. /\ x.id[2] < turn[x.id[1]]
          /\ \A j \in 1..Len(Bytes) :
               j >= 1 + Len(Parts(x)) /\ WriterOf(Bytes[j]) = x.id[1] => x.id[2] < TurnOf(Bytes[j])
      BY <2>5, <3>1, <3>4, <3>5 DEF Ordered, AfterWhole
    <3>7. Bytes[1].message = x
      <4>1. 1 \in 1..Len(Parts(x))
        BY <3>2
      <4>2. Cells(x)[1] = [message |-> x, part |-> Parts(x)[1]]
        BY <3>1, <4>1, CellsFacts
      <4> QED BY <3>5, <4>2
    <3>8. ASSUME NEW j \in 1..Len(Bytes'), WriterOf(Bytes'[j]) = x.id[1]
          PROVE  x.id[2] < TurnOf(Bytes'[j])
      <4>1. Len(Bytes) \in Nat /\ Len(Bytes') = Len(Bytes) - Len(got)
            /\ Bytes'[j] = Bytes[j + Len(got)]
        BY <1>3, <2>4, LenProperties DEF Without
      <4>2. j + Len(got) \in 1..Len(Bytes) /\ j + Len(got) >= 1 + Len(Parts(x))
        BY <3>2, <4>1
      <4> QED BY <3>6, <3>8, <4>1, <4>2
    <3> QED BY <3>5, <3>6, <3>7, <3>8 DEF WriterOf, TurnOf
  <2>8. Past(Bytes', turn, delivered')
    <3> SUFFICES ASSUME NEW i \in 1..Len(delivered'), delivered'[i] # Corrupt
                 PROVE  /\ delivered'[i].id[2] < turn[delivered'[i].id[1]]
                        /\ \A j \in 1..Len(Bytes') :
                             WriterOf(Bytes'[j]) = delivered'[i].id[1]
                               => delivered'[i].id[2] < TurnOf(Bytes'[j])
      BY DEF Past
    <3>1. CASE i = N + 1
      BY <2>3, <2>7, <3>1
    <3>2. CASE i \in 1..N
      BY <2>3, <2>6, <3>2 DEF Ordered, Past, N
    <3> QED BY <2>3, <3>1, <3>2
  <2>9. WholeOnceInOrder'
    <3> SUFFICES ASSUME NEW i \in 1..Len(delivered'), NEW j \in 1..Len(delivered'), i < j,
                        Corrupt \notin {delivered'[i], delivered'[j]},
                        delivered'[i].id[1] = delivered'[j].id[1]
                 PROVE  delivered'[i].id[2] < delivered'[j].id[2]
      <4>1. DOMAIN delivered' = 1..Len(delivered')
        BY <1>2, LenProperties DEF TypeInv, ReaderInv
      <4> QED BY <4>1 DEF WholeOnceInOrder
    <3>1. i \in 1..N
      BY <2>3
    <3>2. CASE j \in 1..N
      <4>1. DOMAIN delivered = 1..N
        BY <2>1, LenProperties DEF N
      <4> QED BY <2>3, <3>1, <3>2, <4>1 DEF OrderInv, WholeOnceInOrder
    <3>3. CASE j = N + 1
      <4>1. x # Corrupt /\ delivered[i] # Corrupt /\ x = delivered'[j]
        BY <2>3, <3>1, <3>3
      <4>2. delivered[i].id[2] < TurnOf(Bytes[1])
        BY <2>3, <2>5, <2>7, <3>1, <4>1 DEF Ordered, Past, N
      <4> QED BY <2>3, <2>7, <3>1, <4>1, <4>2
    <3> QED BY <2>3, <3>2, <3>3
  <2>10. Ordered(Bytes', turn', written', delivered')
    BY <1>4, <2>6, <2>8 DEF Ordered
  <2> QED BY <1>2, <1>4, <2>9, <2>10, OrderedStays DEF OrderInv
<1> QED BY <1>1, <1>6, <1>7, <1>8

LEMMA OrderKept == OrderInv /\ [Next]_vars => OrderInv'
<1> SUFFICES ASSUME OrderInv, [Next]_vars PROVE OrderInv'
  OBVIOUS
<1>1. TypeInv'
  BY TypeKept DEF OrderInv
<1>2. reader.got \in Seq(CellSet) /\ stream \in Seq(CellSet) /\ Bytes \in Seq(CellSet)
      /\ Bytes' \in Seq(CellSet) /\ Len(Bytes) \in Nat
  <2>1. /\ reader.got \in Seq(CellSet) /\ stream \in Seq(CellSet)
        /\ reader'.got \in Seq(CellSet) /\ stream' \in Seq(CellSet)
    BY <1>1 DEF OrderInv, TypeInv, ReaderInv
  <2>2. Bytes \in Seq(CellSet) /\ Bytes' \in Seq(CellSet)
    BY <2>1, BytesFacts DEF Bytes
  <2> QED BY <2>1, <2>2, LenProperties
<1>3. CASE CutRead
  <2>1. UNCHANGED <<format, turn, written, delivered>> /\ Bytes' = <<>> \o <<>>
    BY <1>3 DEF CutRead, NewCall, writing, Bytes
  <2>2. Bytes' = <<>> /\ Len(<<>>) = 0
    BY <2>1
  <2>3. Without(Bytes, Len(Bytes), Bytes')
    BY <1>2, <2>2 DEF Without
  <2> QED BY <1>1, <1>2, <2>1, <2>3, DropStep
<1>4. CASE ShortRead
  <2>1. /\ UNCHANGED <<format, turn, written, delivered>> /\ stream # <<>>
        /\ reader.got = <<>> /\ stream' = Tail(stream) /\ reader'.got = <<>>
    BY <1>4 DEF ShortRead, Raise, NewCall, writing
  <2>2. Without(Bytes, Len(reader.got) + 1, Bytes')
    BY <1>1, <2>1, ReadBytes DEF OrderInv, TypeInv, ReaderInv
  <2> QED BY <1>1, <1>2, <2>1, <2>2, DropStep
<1>5. CASE UNCHANGED vars
  <2>1. UNCHANGED <<format, turn, written, delivered, Bytes>>
    BY <1>5 DEF vars, writing, reading, Bytes
  <2>2. Without(Bytes, 0, Bytes')
    <3>1. \A i \in 1..Len(Bytes) : i + 0 = i
      BY <1>2
    <3> QED BY <1>2, <2>1, <3>1 DEF Without
  <2> QED BY <1>1, <1>2, <2>1, <2>2, DropStep
<1> QED BY <1>3, <1>4, <1>5, WriteOrdered, FailOrdered, ReadOrdered DEF Next

LEMMA OrderInit == Init => OrderInv
<1> SUFFICES ASSUME Init PROVE OrderInv
  OBVIOUS
<1>1. TypeInv
  BY TypeInit
<1>2. delivered = <<>> /\ Len(delivered) = 0 /\ Bytes = <<>> /\ Len(Bytes) = 0
  <2>1. Bytes = <<>> \o <<>> /\ delivered = <<>>
    BY DEF Init, NewCall, Bytes
  <2> QED BY <2>1
<1>3. Ordered(Bytes, turn, written, delivered)
  BY <1>2 DEF Ordered, Ascending, AfterWhole, Partial, Past
<1>4. WholeOnceInOrder
  BY <1>2 DEF WholeOnceInOrder
<1> QED BY <1>1, <1>3, <1>4 DEF OrderInv

(* No message is delivered whole twice, and those of one thread are delivered *)
(* in the order in which it sent them: whatever writes overlap, fail and are  *)
(* retried, and whatever reads are cut (_recv_binary, _recv_text).           *)
THEOREM StreamOrder == Spec => []WholeOnceInOrder
<1>1. OrderInv => WholeOnceInOrder
  BY DEF OrderInv
<1> QED BY OrderInit, OrderKept, <1>1, PTL DEF Spec

-----------------------------------------------------------------------------
(* The FIFO.  Until the first fault the cells in transit are those of the     *)
(* messages complete and not yet delivered, one message after the other, and *)
(* the cells written so far of the one message that is being written.        *)
(* S[n] is the number of cells in front of the n-th message of the stream.   *)
Laid(S, q, comp, d) ==
  /\ d \in 0..Len(comp) /\ S \in [1..(Len(comp) + 1) -> Nat]
  /\ \A i, j \in 1..(Len(comp) + 1) : i <= j => S[i] <= S[j]
  /\ \A n \in (d + 1)..Len(comp) :
       /\ S[n + 1] = S[n] + Len(Parts(comp[n]))
       /\ \A k \in 1..Len(Parts(comp[n])) :
            /\ S[n] - S[d + 1] + k \in 1..Len(q)
            /\ q[S[n] - S[d + 1] + k] = Cells(comp[n])[k]

(* The cells of the complete messages. *)
Behind(S, comp, d) == S[Len(comp) + 1] - S[d + 1]

Trailing(q, e, t, k) ==
  \/ (\A w \in Writers : k[w] = 0) /\ Len(q) = e
  \/ \E w \in Writers :
       /\ k[w] > 0 /\ \A v \in Writers \ {w} : k[v] = 0
       /\ Len(q) = e + k[w]
       /\ \A i \in 1..k[w] : q[e + i] = Cells(Script[w][t[w]])[i]

InTransit(S, q, comp, d, t, k) == Laid(S, q, comp, d) /\ Trailing(q, Behind(S, comp, d), t, k)

(* The first message in transit. *)
LEMMA FrontFacts ==
  ASSUME NEW S, NEW q \in Seq(CellSet), NEW comp \in Seq(Messages), NEW d,
         TypeInv, InTransit(S, q, comp, d, turn, written), Len(q) > 0
  PROVE  \E m \in Messages :
           /\ \A i \in 1..Len(q) : i <= Len(Parts(m)) => q[i] = Cells(m)[i]
           /\ Len(Parts(m)) <= Len(q) => d < Len(comp) /\ m = comp[d + 1]
<1>1. Len(q) \in Nat /\ Len(comp) \in Nat /\ d \in 0..Len(comp)
      /\ S \in [1..(Len(comp) + 1) -> Nat]
  BY LenProperties DEF InTransit, Laid
<1>2. CASE d < Len(comp)
  <2> DEFINE m == comp[d + 1]
  <2>1. d + 1 \in 1..Len(comp) /\ d + 1 \in (d + 1)..Len(comp)
    BY <1>1, <1>2
  <2>2. m \in Messages
    BY <2>1, ElementOfSeq
  <2>3. S[d + 1] \in Nat
    BY <1>1, <2>1
  <2>4. \A k \in 1..Len(Parts(m)) :
          S[d + 1] - S[d + 1] + k \in 1..Len(q) /\ q[S[d + 1] - S[d + 1] + k] = Cells(m)[k]
    BY <2>1 DEF InTransit, Laid
  <2>5. \A k \in 1..Len(Parts(m)) : S[d + 1] - S[d + 1] + k = k
    BY <2>2, <2>3, CellsFacts
  <2>6. \A k \in 1..Len(Parts(m)) : q[k] = Cells(m)[k]
    BY <2>4, <2>5
  <2>7. \A i \in 1..Len(q) : i <= Len(Parts(m)) => i \in 1..Len(Parts(m))
    BY <1>1, <2>2, CellsFacts
  <2> HIDE DEF m
  <2>8. \A i \in 1..Len(q) : i <= Len(Parts(m)) => q[i] = Cells(m)[i]
    BY <2>6, <2>7
  <2> QED BY <1>2, <2>2, <2>8 DEF m
<1>3. CASE d = Len(comp)
  <2>1. Behind(S, comp, d) = 0
    BY <1>1, <1>3 DEF Behind
  <2>2. PICK w \in Writers : /\ written[w] > 0 /\ Len(q) = 0 + written[w]
                             /\ \A i \in 1..written[w] : q[0 + i] = Cells(Script[w][turn[w]])[i]
    BY <1>1, <2>1 DEF InTransit, Trailing
  <2> DEFINE m == Current(w)
  <2>3. m \in Messages /\ written[w] < Len(Parts(m)) /\ written[w] \in Nat
    BY <2>2, CurrentFacts DEF TypeInv, WriterInv
  <2>4. Len(Parts(m)) \in Nat
    BY <2>3, CellsFacts
  <2>5. \A i \in 1..Len(q) : i \in 1..written[w] /\ 0 + i = i
    BY <2>2, <2>3
  <2>6. \A i \in 1..Len(q) : q[i] = Cells(m)[i]
    BY <2>2, <2>5 DEF Current
  <2>7. ~(Len(Parts(m)) <= Len(q))
    BY <2>2, <2>3, <2>4
  <2> QED BY <2>3, <2>6, <2>7
<1> QED BY <1>1, <1>2, <1>3

(* The first message leaves. *)
LEMMA LeaveInTransit ==
  ASSUME NEW S, NEW q \in Seq(CellSet), NEW r \in Seq(CellSet), NEW comp \in Seq(Messages),
         NEW d, NEW t, NEW k, InTransit(S, q, comp, d, t, k),
         d < Len(comp), Without(q, Len(Parts(comp[d + 1])), r),
         k \in [Writers -> Nat]
  PROVE  InTransit(S, r, comp, d + 1, t, k)
<1> DEFINE m == comp[d + 1]
           L == Len(Parts(m))
           e == Behind(S, comp, d)
           f == Behind(S, comp, d + 1)
           C == Len(comp)
<1>1. /\ Len(q) \in Nat /\ C \in Nat /\ d \in 0..C /\ S \in [1..(C + 1) -> Nat]
      /\ \A i, j \in 1..(C + 1) : i <= j => S[i] <= S[j]
  BY LenProperties DEF InTransit, Laid
<1>2. d + 1 \in 1..C /\ d + 1 \in (d + 1)..C /\ d + 2 \in 1..(C + 1) /\ d + 1 \in 0..C
      /\ C + 1 \in 1..(C + 1) /\ d + 1 \in 1..(C + 1) /\ (d + 1) + 1 = d + 2 /\ d + 1 \in Nat
  BY <1>1
<1>3. m \in Messages
  BY <1>2, ElementOfSeq
<1>4. L \in Nat
  BY <1>3, CellsFacts
<1>5. S[d + 2] = S[d + 1] + L /\ S[d + 1] \in Nat /\ S[d + 2] \in Nat /\ S[C + 1] \in Nat
  BY <1>1, <1>2 DEF InTransit, Laid
<1>6. e = S[C + 1] - S[d + 1] /\ f = S[C + 1] - S[d + 2] /\ e = f + L /\ S[d + 2] <= S[C + 1]
  BY <1>1, <1>2, <1>5 DEF Behind
<1>11. e = f + L /\ f \in Nat /\ e \in Nat
  <2>1. \A x, y, z, l \in Nat : y = x + l /\ y <= z =>
          z - x = (z - y) + l /\ z - y \in Nat /\ z - x \in Nat
    OBVIOUS
  <2>2. L \in Nat /\ S[d + 1] \in Nat /\ S[d + 2] \in Nat /\ S[C + 1] \in Nat
        /\ S[d + 2] = S[d + 1] + L /\ S[d + 2] <= S[C + 1]
    BY <1>4, <1>5, <1>6
  <2>3. /\ S[C + 1] - S[d + 1] = (S[C + 1] - S[d + 2]) + L
        /\ S[C + 1] - S[d + 2] \in Nat /\ S[C + 1] - S[d + 1] \in Nat
    BY <2>1, <2>2
  <2> HIDE DEF e, f, L, C
  <2> QED BY <1>6, <2>3
<1>7. L \in 0..Len(q) /\ Len(r) = Len(q) - L /\ \A i \in 1..Len(r) : r[i] = q[i + L]
  BY DEF Without
<1>8. /\ \A n \in (d + 1)..C :
           /\ S[n + 1] = S[n] + Len(Parts(comp[n]))
           /\ \A x \in 1..Len(Parts(comp[n])) :
                /\ S[n] - S[d + 1] + x \in 1..Len(q)
                /\ q[S[n] - S[d + 1] + x] = Cells(comp[n])[x]
      /\ Trailing(q, e, t, k)
  BY DEF InTransit, Laid
<1> HIDE DEF m, L, e, f, C
<1>9. Laid(S, r, comp, d + 1)
  <2> SUFFICES ASSUME NEW n \in (d + 2)..C
               PROVE  /\ S[n + 1] = S[n] + Len(Parts(comp[n]))
                      /\ \A x \in 1..Len(Parts(comp[n])) :
                           /\ S[n] - S[d + 2] + x \in 1..Len(r)
                           /\ r[S[n] - S[d + 2] + x] = Cells(comp[n])[x]
    BY <1>1, <1>2 DEF Laid, C
  <2>1. n \in (d + 1)..C /\ n \in 1..(C + 1) /\ d + 2 <= n
    BY <1>1
  <2>2. S[d + 2] <= S[n] /\ S[n] \in Nat
    BY <1>1, <1>2, <2>1
  <2>3. comp[n] \in Messages
    <3>1. n \in 1..Len(comp)
      BY <1>1 DEF C
    <3> QED BY <3>1, ElementOfSeq
  <2>4. Len(Parts(comp[n])) \in Nat
    BY <2>3, CellsFacts
  <2>5. ASSUME NEW x \in 1..Len(Parts(comp[n]))
        PROVE  /\ S[n] - S[d + 2] + x \in 1..Len(r)
               /\ r[S[n] - S[d + 2] + x] = Cells(comp[n])[x]
    <3> DEFINE y == S[n] - S[d + 2] + x
    <3>1. S[n] - S[d + 1] + x = y + L /\ y \in Nat \ {0}
      <4>1. \A a, b, u, l, v \in Nat : b = a + l /\ b <= u /\ v >= 1 =>
              u - a + v = (u - b + v) + l /\ u - b + v \in Nat \ {0}
        OBVIOUS
      <4>2. x \in Nat /\ x >= 1
        BY <2>4
      <4> DEFINE a == S[d + 1]
                 b == S[d + 2]
                 u == S[n]
      <4>3. a \in Nat /\ b \in Nat /\ u \in Nat /\ b = a + L /\ b <= u
        BY <1>5, <2>2
      <4> HIDE DEF a, b, u
      <4>4. u - a + x = (u - b + x) + L /\ u - b + x \in Nat \ {0}
        BY <1>4, <4>1, <4>2, <4>3
      <4> QED BY <4>4 DEF a, b, u
    <3>2. y + L \in 1..Len(q) /\ q[y + L] = Cells(comp[n])[x]
      BY <1>8, <2>1, <3>1
    <3> HIDE DEF y
    <3>3. y \in 1..Len(r)
      <4>1. \A u, v, l \in Nat : u >= 1 /\ u + l <= v => u \in 1..(v - l)
        OBVIOUS
      <4>2. y \in Nat /\ y >= 1 /\ y + L <= Len(q)
        BY <1>4, <3>1, <3>2
      <4> QED BY <1>1, <1>4, <1>7, <4>1, <4>2
    <3>4. r[y] = q[y + L]
      BY <1>7, <3>3
    <3> QED BY <3>2, <3>3, <3>4 DEF y
  <2> QED BY <1>8, <2>1, <2>5
<1>10. Trailing(r, f, t, k)
  <2>1. f \in Nat /\ e \in Nat
    BY <1>11
  <2>2. CASE (\A w \in Writers : k[w] = 0) /\ Len(q) = e
    BY <1>4, <1>7, <1>11, <2>2 DEF Trailing
  <2>3. CASE \E w \in Writers :
               /\ k[w] > 0 /\ \A v \in Writers \ {w} : k[v] = 0
               /\ Len(q) = e + k[w]
               /\ \A i \in 1..k[w] : q[e + i] = Cells(Script[w][t[w]])[i]
    <3>1. PICK w \in Writers :
               /\ k[w] > 0 /\ \A v \in Writers \ {w} : k[v] = 0
               /\ Len(q) = e + k[w]
               /\ \A i \in 1..k[w] : q[e + i] = Cells(Script[w][t[w]])[i]
      BY <2>3
    <3>2. k[w] \in Nat
      OBVIOUS
    <3>3. Len(r) = f + k[w]
      BY <1>4, <1>7, <1>11, <3>1, <3>2
    <3>4. ASSUME NEW i \in 1..k[w] PROVE r[f + i] = q[e + i]
      <4>1. f + i \in 1..Len(r) /\ (f + i) + L = e + i
        BY <1>4, <1>11, <3>2, <3>3
      <4> QED BY <1>7, <4>1
    <3> QED BY <3>1, <3>3, <3>4 DEF Trailing
  <2> QED BY <1>8, <2>2, <2>3 DEF Trailing
<1> QED BY <1>9, <1>10 DEF InTransit, f

(* With no other message begun, the cells written trail those complete. *)
LEMMA OwnTrailing ==
  ASSUME NEW q, NEW e, NEW t, NEW k \in [Writers -> Nat], Trailing(q, e, t, k),
         NEW w \in Writers, \A v \in Writers \ {w} : k[v] = 0, e \in Nat
  PROVE  /\ Len(q) = e + k[w]
         /\ \A i \in 1..k[w] : q[e + i] = Cells(Script[w][t[w]])[i]
<1>1. CASE (\A v \in Writers : k[v] = 0) /\ Len(q) = e
  <2>1. k[w] = 0 /\ 1..k[w] = {}
    BY <1>1
  <2> QED BY <1>1, <2>1
<1>2. CASE \E v \in Writers :
             /\ k[v] > 0 /\ \A u \in Writers \ {v} : k[u] = 0
             /\ Len(q) = e + k[v]
             /\ \A i \in 1..k[v] : q[e + i] = Cells(Script[v][t[v]])[i]
  <2>1. PICK v \in Writers :
             /\ k[v] > 0
             /\ Len(q) = e + k[v]
             /\ \A i \in 1..k[v] : q[e + i] = Cells(Script[v][t[v]])[i]
    BY <1>2
  <2>2. v = w
    BY <2>1
  <2> QED BY <2>1, <2>2
<1> QED BY <1>1, <1>2 DEF Trailing

(* A cell of a message that goes on. *)
LEMMA BeginInTransit ==
  ASSUME NEW S, NEW q \in Seq(CellSet), NEW comp \in Seq(Messages), NEW d,
         NEW t, NEW k \in [Writers -> Nat], InTransit(S, q, comp, d, t, k),
         NEW w \in Writers, \A v \in Writers \ {w} : k[v] = 0,
         NEW m, m = Script[w][t[w]], NEW c, c = Cells(m)[k[w] + 1], NEW r, Extended(q, c, r),
         NEW k2, k2[w] = k[w] + 1, \A v \in Writers \ {w} : k2[v] = 0
  PROVE  InTransit(S, r, comp, d, t, k2)
<1> DEFINE e == Behind(S, comp, d)
           N == Len(q)
<1>1. /\ N \in Nat /\ Len(r) = N + 1 /\ r[N + 1] = c /\ \A i \in 1..N : r[i] = q[i]
  BY LenProperties DEF Extended
<1>2. e \in Nat
  <2>1. /\ Len(comp) \in Nat /\ d \in 0..Len(comp) /\ S \in [1..(Len(comp) + 1) -> Nat]
        /\ \A i, j \in 1..(Len(comp) + 1) : i <= j => S[i] <= S[j]
    BY LenProperties DEF InTransit, Laid
  <2>2. d + 1 \in 1..(Len(comp) + 1) /\ Len(comp) + 1 \in 1..(Len(comp) + 1)
        /\ d + 1 <= Len(comp) + 1
    BY <2>1
  <2>3. S[d + 1] <= S[Len(comp) + 1] /\ S[d + 1] \in Nat /\ S[Len(comp) + 1] \in Nat
    BY <2>1, <2>2
  <2> QED BY <2>3 DEF Behind
<1>3. Trailing(q, e, t, k)
  BY DEF InTransit
<1> HIDE DEF e
<1>4. N = e + k[w] /\ \A i \in 1..k[w] : q[e + i] = Cells(m)[i]
  BY <1>2, <1>3, OwnTrailing
<1> HIDE DEF N
<1>5. Laid(S, r, comp, d)
  <2>1. Laid(S, q, comp, d)
    BY DEF InTransit
  <2>2. 1..N \subseteq 1..Len(r)
    BY <1>1
  <2>3. \A n \in (d + 1)..Len(comp) : \A x \in 1..Len(Parts(comp[n])) :
          /\ S[n] - S[d + 1] + x \in 1..Len(r)
          /\ r[S[n] - S[d + 1] + x] = Cells(comp[n])[x]
    BY <1>1, <2>1, <2>2 DEF Laid, N
  <2> QED BY <2>1, <2>3 DEF Laid
<1>6. Trailing(r, e, t, k2)
  <2> DEFINE K == k[w]
  <2>1. /\ K \in Nat /\ k2[w] = K + 1 /\ \A v \in Writers \ {w} : k2[v] = 0
    OBVIOUS
  <2>2. N = e + K /\ \A i \in 1..K : q[e + i] = Cells(m)[i]
    BY <1>4
  <2>3. c = Cells(m)[K + 1]
    OBVIOUS
  <2> HIDE DEF K
  <2>4. Len(r) = e + (K + 1) /\ e + (K + 1) = N + 1
    BY <1>1, <1>2, <2>1, <2>2
  <2>5. ASSUME NEW i \in 1..(K + 1) PROVE r[e + i] = Cells(m)[i]
    <3>1. CASE i = K + 1
      BY <1>1, <2>3, <2>4, <3>1
    <3>2. CASE i \in 1..K
      <4>1. e + i \in 1..N
        BY <1>2, <2>1, <2>2, <3>2
      <4> QED BY <1>1, <2>2, <3>2, <4>1
    <3> QED BY <2>1, <3>1, <3>2
  <2> QED BY <2>1, <2>4, <2>5 DEF Trailing
<1> QED BY <1>5, <1>6 DEF InTransit, e

(* The last cell of a message. *)
LEMMA CompleteInTransit ==
  ASSUME NEW S, NEW q \in Seq(CellSet), NEW comp \in Seq(Messages), NEW d,
         NEW t, NEW k \in [Writers -> Nat], InTransit(S, q, comp, d, t, k),
         NEW w \in Writers, \A v \in Writers \ {w} : k[v] = 0,
         NEW m \in Messages, m = Script[w][t[w]], k[w] + 1 = Len(Parts(m)),
         NEW c, c = Cells(m)[k[w] + 1], NEW r, Extended(q, c, r),
         NEW t2, NEW k2, \A v \in Writers : k2[v] = 0
  PROVE  \E S2 : InTransit(S2, r, Append(comp, m), d, t2, k2)
<1> DEFINE e == Behind(S, comp, d)
           N == Len(q)
           C == Len(comp)
           L == Len(Parts(m))
           K == k[w]
           comp2 == Append(comp, m)
           S2 == [n \in 1..(C + 2) |-> IF n <= C + 1 THEN S[n] ELSE S[C + 1] + L]
<1>1. /\ N \in Nat /\ Len(r) = N + 1 /\ r[N + 1] = c /\ \A i \in 1..N : r[i] = q[i]
  BY LenProperties DEF Extended
<1>2. /\ C \in Nat /\ d \in 0..C /\ S \in [1..(C + 1) -> Nat]
      /\ \A i, j \in 1..(C + 1) : i <= j => S[i] <= S[j]
  BY LenProperties DEF InTransit, Laid
<1>3. /\ comp2 \in Seq(Messages) /\ Len(comp2) = C + 1 /\ comp2[C + 1] = m
      /\ \A n \in 1..C : comp2[n] = comp[n]
  BY AppendProperties
<1>4. L \in Nat
  BY CellsFacts
<1>5. S[d + 1] \in Nat /\ S[C + 1] \in Nat /\ e = S[C + 1] - S[d + 1] /\ e \in Nat
  <2>1. d + 1 \in 1..(C + 1) /\ C + 1 \in 1..(C + 1) /\ d + 1 <= C + 1
    BY <1>2
  <2>2. S[d + 1] <= S[C + 1] /\ S[d + 1] \in Nat /\ S[C + 1] \in Nat
    BY <1>2, <2>1
  <2> QED BY <2>2 DEF Behind
<1>6. Trailing(q, e, t, k) /\ Laid(S, q, comp, d)
  BY DEF InTransit
<1> HIDE DEF e
<1>7. N = e + K /\ \A i \in 1..K : q[e + i] = Cells(m)[i]
  <2>1. e \in Nat /\ Trailing(q, e, t, k)
    BY <1>5, <1>6
  <2> HIDE DEF N, C, L, comp2, S2
  <2>2. Len(q) = e + k[w] /\ \A i \in 1..k[w] : q[e + i] = Cells(Script[w][t[w]])[i]
    BY <2>1, OwnTrailing
  <2> QED BY <2>2 DEF N
<1>8. K \in Nat /\ K + 1 = L /\ c = Cells(m)[K + 1]
  OBVIOUS
<1>9. /\ S2 \in [1..(C + 2) -> Nat] /\ S2[C + 2] = S[C + 1] + L
      /\ \A n \in 1..(C + 1) : S2[n] = S[n]
  <2>1. C + 2 \in 1..(C + 2) /\ ~(C + 2 <= C + 1) /\ C + 1 \in 1..(C + 1)
    BY <1>2
  <2>2. \A n \in 1..(C + 2) : n <= C + 1 => n \in 1..(C + 1)
    BY <1>2
  <2>3. \A n \in 1..(C + 1) : n \in 1..(C + 2) /\ n <= C + 1
    BY <1>2
  <2> QED BY <1>2, <1>4, <2>1, <2>2, <2>3
<1> HIDE DEF N, C, L, K, comp2, S2
<1>17. N = e + K /\ e \in Nat /\ K \in Nat /\ N \in Nat /\ L = K + 1
  BY <1>1, <1>5, <1>7, <1>8
<1>10. \A i, j \in 1..(C + 2) : i <= j => S2[i] <= S2[j]
  <2> SUFFICES ASSUME NEW i \in 1..(C + 2), NEW j \in 1..(C + 2), i <= j
               PROVE  S2[i] <= S2[j]
    OBVIOUS
  <2>1. CASE j \in 1..(C + 1)
    <3>1. i \in 1..(C + 1)
      BY <1>2, <2>1
    <3> QED BY <1>2, <1>9, <2>1, <3>1
  <2>2. CASE j = C + 2 /\ i \in 1..(C + 1)
    <3>1. C + 1 \in 1..(C + 1) /\ i <= C + 1
      BY <1>2, <2>2
    <3>2. S[i] <= S[C + 1] /\ S[i] \in Nat /\ S2[i] = S[i]
      BY <1>2, <1>9, <2>2, <3>1
    <3> QED BY <1>4, <1>5, <1>9, <2>2, <3>2
  <2>3. CASE j = C + 2 /\ i = C + 2
    BY <1>4, <1>5, <1>9, <2>3
  <2> QED BY <1>2, <2>1, <2>2, <2>3
<1>11. S2[d + 1] = S[d + 1] /\ d + 1 \in 1..(C + 1) /\ C + 1 \in 1..(C + 1)
       /\ S2[C + 1] = S[C + 1]
  <2>1. d + 1 \in 1..(C + 1) /\ C + 1 \in 1..(C + 1)
    BY <1>2
  <2> QED BY <1>9, <2>1
<1>12. ASSUME NEW n \in (d + 1)..(C + 1)
       PROVE  /\ S2[n + 1] = S2[n] + Len(Parts(comp2[n]))
              /\ \A x \in 1..Len(Parts(comp2[n])) :
                   /\ S2[n] - S2[d + 1] + x \in 1..Len(r)
                   /\ r[S2[n] - S2[d + 1] + x] = Cells(comp2[n])[x]
  <2>1. CASE n \in (d + 1)..C
    <3>1. n \in 1..C /\ n \in 1..(C + 1) /\ n + 1 \in 1..(C + 1)
      BY <1>2, <2>1
    <3>2. S2[n] = S[n] /\ S2[n + 1] = S[n + 1] /\ comp2[n] = comp[n]
      BY <1>3, <1>9, <3>1
    <3>3. /\ S[n + 1] = S[n] + Len(Parts(comp[n]))
          /\ \A x \in 1..Len(Parts(comp[n])) :
               /\ S[n] - S[d + 1] + x \in 1..N
               /\ q[S[n] - S[d + 1] + x] = Cells(comp[n])[x]
      BY <1>6, <2>1 DEF Laid, C, N
    <3>4. 1..N \subseteq 1..Len(r)
      BY <1>1
    <3> QED BY <1>1, <1>11, <3>2, <3>3, <3>4
  <2>2. CASE n = C + 1
    <3>1. comp2[n] = m /\ n + 1 = C + 2 /\ S2[n] = S[C + 1] /\ S2[n] - S2[d + 1] = e
      BY <1>2, <1>3, <1>5, <1>11, <2>2
    <3>2. ASSUME NEW x \in 1..L PROVE e + x \in 1..Len(r) /\ r[e + x] = Cells(m)[x]
      <4>1. CASE x = L
        <5>1. e + x = N + 1 /\ N + 1 \in 1..(N + 1)
          BY ONLY <1>17, <4>1
        <5> QED BY <1>1, <1>8, <4>1, <5>1
      <4>2. CASE x \in 1..K
        <5>1. e + x \in 1..N /\ e + x \in 1..(N + 1)
          BY ONLY <1>17, <4>2
        <5> QED BY <1>1, <1>7, <4>2, <5>1
      <4> QED BY <1>8, <4>1, <4>2
    <3>3. S2[n + 1] = S2[n] + Len(Parts(comp2[n]))
      BY <1>9, <3>1 DEF L
    <3> QED BY <3>1, <3>2, <3>3 DEF L
  <2> QED BY <1>2, <2>1, <2>2
<1>13. d \in 0..(C + 1) /\ (C + 1) + 1 = C + 2
  BY <1>2
<1>14. Laid(S2, r, comp2, d)
  BY <1>3, <1>9, <1>10, <1>12, <1>13 DEF Laid
<1>15. Len(r) = Behind(S2, comp2, d)
  <2>1. Behind(S2, comp2, d) = (S[C + 1] + L) - S[d + 1]
    BY <1>3, <1>9, <1>11, <1>13 DEF Behind
  <2>2. Len(r) = e + L
    <3>1. Len(r) = N + 1
      BY <1>1
    <3> QED BY ONLY <1>17, <3>1
  <2>3. \A x, y, z \in Nat : (y + z) - x = (y - x) + z
    OBVIOUS
  <2> QED BY <1>4, <1>5, <2>1, <2>2, <2>3
<1>16. Trailing(r, Behind(S2, comp2, d), t2, k2)
  BY <1>15 DEF Trailing
<1> QED BY <1>14, <1>16 DEF InTransit, comp2

(* Where recv is after g cells of a message, and how many it then waits for. *)
Stage(g) ==
  IF g = 0 THEN "first" ELSE IF g = 1 THEN "second"
  ELSE IF g = 2 /\ format # "binary" THEN "third" ELSE "fill"

Fits(r, g, L) ==
  /\ r.at = Stage(g)
  /\ g > 0 => g < L
  /\ g = 1 /\ format # "binary" => r.need = 1
  /\ Stage(g) = "fill" => r.need = L - g

ReaderFits == Fits(reader, Len(reader.got), Len(Parts(reader.got[1].message)))

LEMMA ContinueFits ==
  ASSUME NEW a \in Seq(CellSet), NEW m \in Messages, a[1].message = m,
         Len(a) \in 1..Len(Parts(m)), NEW need, Continue(Stage(Len(a)), need, a),
         Len(a) = 1 /\ format # "binary" => need = 1,
         Stage(Len(a)) = "fill" => need = Len(Parts(m)) - Len(a),
         UNCHANGED format
  PROVE  \/ Keeps(a) /\ ReaderFits'
         \/ Len(a) = Len(Parts(m)) /\ Returns(a) /\ ReaderFits'
<1> DEFINE n == Len(a)
           L == Len(Parts(m))
<1>1. n \in Nat /\ n \in 1..L /\ L \in Nat /\ L >= 2 /\ (format # "binary" => L >= 3)
  <2>1. m.body \in Nat
    BY MessageFacts
  <2> QED BY <2>1, PartsFacts, CellsFacts, LenProperties
<1>2. Parts(m)' = Parts(m) /\ \A g : Stage(g)' = Stage(g)
  BY PartsStay DEF Stage
<1>3. n = L => Stage(n) = "fill"
  BY <1>1 DEF Stage
<1>4. CASE Stage(n) = "fill" /\ need = 0
  <2>1. n = L
    BY <1>1, <1>4
  <2>2. delivered' = Append(delivered, Result(a)) /\ reader' = NewCall
    BY <1>4 DEF Continue
  <2>3. reader'.got = <<>> /\ reader'.at = "first" /\ Len(reader'.got) = 0
    BY <2>2 DEF NewCall
  <2>4. ReaderFits'
    BY <2>3 DEF ReaderFits, Fits, Stage
  <2> QED BY <2>1, <2>2, <2>3, <2>4 DEF Returns
<1>5. CASE ~(Stage(n) = "fill" /\ need = 0)
  <2>1. reader' = [at |-> Stage(n), need |-> need, got |-> a] /\ UNCHANGED delivered
    BY <1>5 DEF Continue
  <2>2. reader'.at = Stage(n) /\ reader'.need = need /\ reader'.got = a
    BY <2>1
  <2>3. n < L
    BY <1>1, <1>3, <1>5
  <2>4. Parts(reader.got[1].message)' = Parts(m)
    BY <2>2 DEF Parts
  <2>5. ReaderFits'
    BY <1>2, <2>2, <2>3, <2>4 DEF ReaderFits, Fits
  <2> QED BY <2>1, <2>2, <2>5 DEF Keeps
<1> QED BY <1>4, <1>5

(* Fed the cells of one message, recv returns that message after its last. *)
LEMMA ReadFits ==
  ASSUME ReaderInv, ReaderFits, Read,
         NEW a \in Seq(CellSet), a = Append(reader.got, Head(stream)), NEW m \in Messages,
         \A i \in 1..Len(a) : i <= Len(Parts(m)) => a[i] = Cells(m)[i]
  PROVE  \/ Keeps(a) /\ ReaderFits'
         \/ Len(a) = Len(Parts(m)) /\ Returns(a) /\ ReaderFits' /\ Result(a) = m
<1> DEFINE g == Len(reader.got)
           n == Len(a)
           L == Len(Parts(m))
           c == Head(stream)
<1>1. g \in Nat /\ n = g + 1 /\ a[n] = c /\ \A i \in 1..g : a[i] = reader.got[i]
  <2>1. c \in CellSet
    BY HeadTailProperties DEF Read, ReaderInv
  <2> QED BY <2>1, AppendProperties, LenProperties DEF ReaderInv
<1>2. L \in Nat /\ L >= 2 /\ (format # "binary" => L >= 3)
  <2>1. m.body \in Nat
    BY MessageFacts
  <2> QED BY <2>1, PartsFacts, CellsFacts
<1> HIDE DEF g, n, L, c
<1>3. a[1].message = m
  <2>1. 1 \in 1..n /\ 1 <= L /\ 1 \in 1..L
    BY <1>1, <1>2
  <2>2. a[1] = Cells(m)[1] /\ Cells(m)[1] = [message |-> m, part |-> Parts(m)[1]]
    BY <2>1, CellsFacts DEF n, L
  <2> QED BY <2>2
<1>4. g > 0 => reader.got[1].message = m
  <2>1. g > 0 => 1 \in 1..g
    BY <1>1
  <2> QED BY <1>1, <1>3, <2>1
<1>5. n \in 1..L /\ g < L
  BY <1>1, <1>2, <1>4 DEF ReaderFits, Fits, g, L
<1>6. c = [message |-> m, part |-> Parts(m)[n]]
  <2>1. n \in 1..n /\ n <= L
    BY <1>1, <1>5
  <2>2. a[n] = Cells(m)[n] /\ Cells(m)[n] = [message |-> m, part |-> Parts(m)[n]]
    BY <1>5, <2>1, CellsFacts DEF n, L
  <2> QED BY <1>1, <2>2
<1>7. c.message = m /\ c.part = Parts(m)[n]
  BY <1>6
<1>8. /\ reader.at = Stage(g)
      /\ g = 1 /\ format # "binary" => reader.need = 1
      /\ g > 0 /\ Stage(g) = "fill" => reader.need = L - g
  BY <1>4 DEF ReaderFits, Fits, g, L
<1>9. /\ IF format = "binary" THEN ReadBinary(c, a) ELSE ReadText(c, a)
      /\ UNCHANGED format
  BY DEF Read, c
<1>10. \E need : /\ Continue(Stage(n), need, a)
                 /\ n = 1 /\ format # "binary" => need = 1
                 /\ Stage(n) = "fill" => need = L - n
  <2>1. m.name \in Nat /\ m.body \in Nat
    BY MessageFacts
  <2>2. CASE g > 2 \/ (g = 2 /\ format = "binary")
    <3>1. Stage(g) = "fill" /\ Stage(n) = "fill" /\ n # 1 /\ g > 0
      BY <1>1, <2>2 DEF Stage
    <3>2. Continue("fill", reader.need - 1, a)
      BY <1>8, <1>9, <3>1 DEF ReadBinary, ReadText
    <3>3. reader.need - 1 = L - n
      BY <1>1, <1>2, <1>8, <3>1
    <3> QED BY <3>1, <3>2, <3>3
  <2>3. CASE g = 0 /\ format = "binary"
    <3>1. Stage(g) = "first" /\ Stage(n) = "second" /\ c.part = "prefix"
      BY <1>1, <1>7, <2>3, PartsFacts DEF Stage
    <3>2. Continue("second", 0, a)
      BY <1>8, <1>9, <2>3, <3>1 DEF ReadBinary
    <3> QED BY <2>3, <3>1, <3>2
  <2>4. CASE g = 1 /\ format = "binary"
    <3>1. Stage(g) = "second" /\ Stage(n) = "fill" /\ n = 2
      BY <1>1, <2>4 DEF Stage
    <3>2. c = [message |-> a[1].message, part |-> "rest"] /\ L - 2 = m.name + m.body
      <4>1. L = 2 + m.name + m.body /\ Parts(m)[2] = "rest"
        BY <2>4, PartsFacts DEF L
      <4>2. L - 2 = m.name + m.body
        BY <2>1, <4>1
      <4> QED BY <1>3, <1>6, <3>1, <4>1, <4>2
    <3>3. Continue("fill", Following(m), a)
      BY <1>7, <1>8, <1>9, <2>4, <3>1, <3>2 DEF ReadBinary
    <3> QED BY <3>1, <3>2, <3>3 DEF Following
  <2>5. CASE g = 0 /\ format # "binary"
    <3>1. Stage(g) = "first" /\ Stage(n) = "second" /\ c.part = "length"
      BY <1>1, <1>7, <2>5, PartsFacts DEF Stage
    <3>2. Continue("second", 1, a)
      BY <1>8, <1>9, <2>5, <3>1 DEF ReadText
    <3> QED BY <3>1, <3>2
  <2>6. CASE g = 1 /\ format # "binary"
    <3>1. Stage(g) = "second" /\ Stage(n) = "third" /\ n = 2 /\ c.part = "meta"
      BY <1>1, <1>7, <2>6, PartsFacts DEF Stage
    <3>2. Continue("third", 0, a)
      <4>1. reader.at = "second" /\ reader.need = 1 /\ reader.need - 1 = 0
        BY <1>8, <2>6, <3>1
      <4>2. \/ Continue(IF reader.need = 1 THEN "third" ELSE "second", reader.need - 1, a)
            \/ c.part # "meta" /\ Raise
        BY <1>9, <2>6, <4>1 DEF ReadText
      <4> QED BY <3>1, <4>1, <4>2
    <3> QED BY <3>1, <3>2
  <2>7. CASE g = 2 /\ format # "binary"
    <3>1. Stage(g) = "third" /\ Stage(n) = "fill" /\ n = 3 /\ c.part = "size"
      BY <1>1, <1>7, <2>7, PartsFacts DEF Stage
    <3>2. Continue("fill", m.body, a)
      BY <1>7, <1>8, <1>9, <2>7, <3>1 DEF ReadText
    <3>3. L - 3 = m.body
      BY <2>1, <2>7, PartsFacts DEF L
    <3> QED BY <3>1, <3>2, <3>3
  <2> QED BY <1>1, <2>2, <2>3, <2>4, <2>5, <2>6, <2>7
<1>11. n = L => Result(a) = m
  <2> SUFFICES ASSUME n = L PROVE Result(a) = m
    OBVIOUS
  <2>1. /\ Cells(m) \in Seq(CellSet) /\ Len(Cells(m)) = L
    BY CellsFacts DEF L
  <2>2. \A i \in 1..Len(a) : i <= L
    BY <1>2 DEF n
  <2>3. \A i \in 1..Len(a) : a[i] = Cells(m)[i]
    BY <2>2 DEF L
  <2>4. a = Cells(m)
    BY <2>1, <2>3, SeqEqual DEF n
  <2> QED BY <1>3, <2>4 DEF Result
<1>12. PICK need : /\ Continue(Stage(Len(a)), need, a)
                   /\ Len(a) = 1 /\ format # "binary" => need = 1
                   /\ Stage(Len(a)) = "fill" => need = Len(Parts(m)) - Len(a)
  BY <1>10 DEF n, L
<1>13. Len(a) \in 1..Len(Parts(m))
  BY <1>5 DEF n, L
<1>14. \/ Keeps(a) /\ ReaderFits'
       \/ Len(a) = Len(Parts(m)) /\ Returns(a) /\ ReaderFits'
  BY <1>3, <1>9, <1>12, <1>13, ContinueFits
<1> QED BY <1>11, <1>14 DEF n, L

FifoInv ==
  /\ TypeInv /\ faulty \in BOOLEAN
  /\ ~faulty => /\ ReaderFits
                /\ \E S : InTransit(S, Bytes, complete, Len(delivered), turn, written)

LEMMA TransitStays ==
  ASSUME UNCHANGED format, NEW S,
         InTransit(S, Bytes', complete', Len(delivered)', turn', written')
  PROVE  (\E X : InTransit(X, Bytes, complete, Len(delivered), turn, written))'
<1>1. \A m : Parts(m)' = Parts(m) /\ Cells(m)' = Cells(m)
  BY PartsStay
<1>2. Laid(S, Bytes, complete, Len(delivered))'
  BY <1>1 DEF InTransit, Laid
<1>3. Trailing(Bytes, Behind(S, complete, Len(delivered)), turn, written)'
  BY <1>1 DEF InTransit, Trailing, Behind
<1> QED BY <1>2, <1>3 DEF InTransit

(* The messages complete and not delivered, when one more is. *)
LEMMA QueueGrows ==
  ASSUME NEW comp \in Seq(Messages), NEW d \in 0..Len(comp), NEW m \in Messages
  PROVE  SubSeq(Append(comp, m), d + 1, Len(Append(comp, m)))
           = Append(SubSeq(comp, d + 1, Len(comp)), m)
<1> DEFINE C == Len(comp)
           comp2 == Append(comp, m)
           q == SubSeq(comp, d + 1, C)
           r == SubSeq(comp2, d + 1, C + 1)
<1>1. /\ C \in Nat /\ comp2 \in Seq(Messages) /\ Len(comp2) = C + 1 /\ comp2[C + 1] = m
      /\ \A n \in 1..C : comp2[n] = comp[n]
  BY AppendProperties, LenProperties
<1>2. d + 1 \in Int /\ C \in Int /\ C + 1 \in Int /\ d \in Nat
  BY <1>1
<1>3. \A i \in (d + 1)..C : comp[i] \in Messages
  <2>1. \A i \in (d + 1)..C : i \in 1..C
    BY <1>1
  <2> QED BY <2>1, ElementOfSeq
<1>4. \A i \in (d + 1)..(C + 1) : comp2[i] \in Messages
  <2>1. \A i \in (d + 1)..(C + 1) : i \in 1..Len(comp2)
    BY <1>1
  <2> QED BY <1>1, <2>1, ElementOfSeq
<1>5. /\ q \in Seq(Messages) /\ Len(q) = IF d + 1 <= C THEN C - (d + 1) + 1 ELSE 0
      /\ \A i \in 1..(C - (d + 1) + 1) : q[i] = comp[(d + 1) + i - 1]
  BY <1>2, <1>3, SubSeqProperties
<1>6. /\ r \in Seq(Messages) /\ Len(r) = IF d + 1 <= C + 1 THEN (C + 1) - (d + 1) + 1 ELSE 0
      /\ \A i \in 1..((C + 1) - (d + 1) + 1) : r[i] = comp2[(d + 1) + i - 1]
  BY <1>2, <1>4, SubSeqProperties
<1> DEFINE n == C - d
           a == Append(q, m)
<1>7. n \in Nat /\ C - (d + 1) + 1 = n /\ (C + 1) - (d + 1) + 1 = n + 1
      /\ Len(q) = n /\ Len(r) = n + 1
  <2>1. d <= C
    BY <1>1
  <2>2. C - (d + 1) + 1 = n /\ (C + 1) - (d + 1) + 1 = n + 1 /\ n \in Nat
    BY <1>1, <1>2, <2>1
  <2>3. (d + 1 <= C <=> n > 0) /\ d + 1 <= C + 1
    BY <1>1, <1>2, <2>1
  <2> DEFINE lq == Len(q)
             lr == Len(r)
  <2>4. /\ lq = IF d + 1 <= C THEN C - (d + 1) + 1 ELSE 0
        /\ lr = IF d + 1 <= C + 1 THEN (C + 1) - (d + 1) + 1 ELSE 0
    BY <1>5, <1>6
  <2> HIDE DEF lq, lr, n
  <2>5. lq = n /\ lr = n + 1
    BY ONLY <2>2, <2>3, <2>4
  <2> QED BY <2>2, <2>5 DEF lq, lr
<1> HIDE DEF n, q, r, comp2
<1>8. a \in Seq(Messages) /\ Len(a) = n + 1 /\ a[n + 1] = m /\ \A i \in 1..n : a[i] = q[i]
  <2>1. /\ a \in Seq(Messages) /\ Len(a) = Len(q) + 1 /\ a[Len(q) + 1] = m
        /\ \A i \in 1..Len(q) : a[i] = q[i]
    BY <1>5, AppendProperties
  <2>2. Len(q) = n
    BY <1>7
  <2> QED BY <2>1, <2>2
<1> HIDE DEF a
<1>9. ASSUME NEW i \in 1..(n + 1) PROVE r[i] = a[i]
  <2>1. CASE i = n + 1
    <3>1. (d + 1) + i - 1 = C + 1
      BY <1>1, <1>2, <2>1 DEF n
    <3> QED BY <1>1, <1>6, <1>7, <1>8, <2>1, <3>1
  <2>2. CASE i \in 1..n
    <3>1. (d + 1) + i - 1 \in 1..C
      BY <1>1, <1>2, <2>2 DEF n
    <3> QED BY <1>1, <1>5, <1>6, <1>7, <1>8, <2>2, <3>1
  <2> QED BY <1>7, <2>1, <2>2
<1>10. r = a
  BY <1>6, <1>7, <1>8, <1>9, SeqEqual
<1>11. Len(comp2) = C + 1
  BY <1>1 DEF comp2
<1> QED BY <1>10, <1>11 DEF r, a, q, comp2

(* What the steps show: the invariant, and a step of the FIFO. *)
FifoStep == FifoInv' /\ [Fifo!Next]_(Fifo!vars)

LEMMA BrokenStep ==
  ASSUME TypeInv', faulty' = TRUE
  PROVE  FifoStep
BY DEF FifoStep, FifoInv, Fifo!Next, Fifo!Break

LEMMA WriteFifo ==
  ASSUME FifoInv, NEW w \in Writers, Write(w)
  PROVE  FifoStep
<1> DEFINE m == Current(w)
           c == Cells(m)[written[w] + 1]
           done == written[w] + 1 = Len(Parts(m))
           d == Len(delivered)
<1>1. /\ m \in Messages /\ written[w] + 1 \in 1..Len(Parts(m))
      /\ stream' = Append(stream, c)
      /\ faulty' = (faulty \/ Overlaps(w))
      /\ written' = [written EXCEPT ![w] = IF done THEN 0 ELSE written[w] + 1]
      /\ turn' = IF done THEN [turn EXCEPT ![w] = @ + 1] ELSE turn
      /\ complete' = IF done THEN Append(complete, m) ELSE complete
      /\ UNCHANGED <<format, reading>>
  BY WriteFacts DEF FifoInv, TypeInv
<1>2. TypeInv'
  BY WriteTyped DEF FifoInv
<1>3. CASE faulty \/ Overlaps(w)
  BY <1>1, <1>2, <1>3, BrokenStep DEF FifoInv
<1>4. CASE ~faulty /\ ~Overlaps(w)
  <2>1. faulty = FALSE /\ faulty' = FALSE
    BY <1>1, <1>4 DEF FifoInv
  <2>2. /\ stream \in Seq(CellSet) /\ reader.got \in Seq(CellSet) /\ c \in CellSet
        /\ complete \in Seq(Messages) /\ written \in [Writers -> Nat]
        /\ m = Script[w][turn[w]]
    BY <1>1, CellsFacts DEF FifoInv, TypeInv, WriterInv, ReaderInv, Current
  <2>3. \A v \in Writers \ {w} : written[v] = 0
    BY <1>4, <2>2 DEF Overlaps
  <2>4. Bytes \in Seq(CellSet) /\ Extended(Bytes, c, Bytes')
    BY <1>1, <2>2, WriteBytes
  <2>5. PICK S : InTransit(S, Bytes, complete, d, turn, written)
    BY <2>1 DEF FifoInv
  <2>6. UNCHANGED <<format, reader, delivered, d>>
    BY <1>1 DEF reading
  <2>7. ReaderFits'
    BY <2>1, <2>6 DEF FifoInv, ReaderFits, Fits, Stage, Parts
  <2> HIDE DEF m, d
  <2>8. CASE done
    <3>1. /\ \A v \in Writers : written'[v] = 0
          /\ complete' = Append(complete, m)
      BY <1>1, <2>2, <2>3, <2>8
    <3>2. written[w] + 1 = Len(Parts(m))
      BY <2>8
    <3> HIDE DEF done
    <3>3. PICK S2 : InTransit(S2, Bytes', Append(complete, m), d, turn', written')
      BY <1>1, <2>2, <2>3, <2>4, <2>5, <3>1, <3>2, CompleteInTransit
    <3>4. InTransit(S2, Bytes', complete', Len(delivered)', turn', written')
      BY <2>6, <3>1, <3>3 DEF d
    <3>5. FifoInv'
      BY <1>2, <2>1, <2>6, <2>7, <3>4, TransitStays DEF FifoInv
    <3>6. d \in 0..Len(complete)
      BY <2>5 DEF InTransit, Laid
    <3>7. SubSeq(complete', Len(delivered') + 1, Len(complete'))
            = Append(SubSeq(complete, Len(delivered) + 1, Len(complete)), m)
      BY <1>1, <2>2, <2>6, <3>1, <3>6, QueueGrows DEF d
    <3>8. Fifo!Write(m)
      BY <2>1, <2>6, <3>7 DEF Fifo!Write
    <3> QED BY <1>1, <3>5, <3>8 DEF FifoStep, Fifo!Next
  <2>9. CASE ~done
    <3>1. /\ written'[w] = written[w] + 1 /\ \A v \in Writers \ {w} : written'[v] = 0
          /\ complete' = complete /\ turn' = turn
      BY <1>1, <2>2, <2>3, <2>9
    <3> HIDE DEF done
    <3>2. InTransit(S, Bytes', complete, d, turn, written')
      BY <2>2, <2>3, <2>4, <2>5, <3>1, BeginInTransit
    <3>3. InTransit(S, Bytes', complete', Len(delivered)', turn', written')
      BY <2>6, <3>1, <3>2 DEF d
    <3>4. FifoInv'
      BY <1>2, <2>1, <2>6, <2>7, <3>3, TransitStays DEF FifoInv
    <3>5. UNCHANGED Fifo!vars
      BY <2>1, <2>6, <3>1 DEF Fifo!vars
    <3> QED BY <3>4, <3>5 DEF FifoStep
  <2> QED BY <2>8, <2>9
<1> QED BY <1>3, <1>4 DEF FifoInv

LEMMA FailFifo ==
  ASSUME FifoInv, NEW w \in Writers, Fail(w)
  PROVE  FifoStep
<1>1. /\ written' = [written EXCEPT ![w] = 0]
      /\ turn' = turn \/ turn' = [turn EXCEPT ![w] = Len(Script[w]) + 1]
      /\ UNCHANGED <<format, reading, complete>>
      /\ \/ faulty' = TRUE
         \/ stream' = stream /\ faulty' = (faulty \/ written[w] > 0)
  BY FailFacts DEF FifoInv, TypeInv
<1>2. TypeInv'
  BY FailTyped DEF FifoInv
<1>3. CASE faulty' = TRUE
  BY <1>2, <1>3, BrokenStep
<1>4. CASE faulty' # TRUE /\ stream' = stream /\ faulty' = (faulty \/ written[w] > 0)
  <2>1. /\ faulty = FALSE /\ faulty' = FALSE
        /\ ~(written[w] > 0)
        /\ turn \in [Writers -> Nat \ {0}] /\ written \in [Writers -> Nat]
    BY <1>1, <1>4 DEF FifoInv, TypeInv, WriterInv
  <2>2. written' = written /\ \A v \in Writers : written[v] > 0 => turn'[v] = turn[v]
    BY <1>1, <1>4, <2>1
  <2>3. UNCHANGED <<format, reader, stream, complete, delivered, Bytes>>
    BY <1>1, <1>4 DEF reading, Bytes
  <2>4. PICK S : InTransit(S, Bytes, complete, Len(delivered), turn, written)
    BY <2>1 DEF FifoInv
  <2>5. InTransit(S, Bytes, complete, Len(delivered), turn', written)
    BY <2>2, <2>4 DEF InTransit, Trailing
  <2>6. InTransit(S, Bytes', complete', Len(delivered)', turn', written')
    BY <2>2, <2>3, <2>5
  <2>7. ReaderFits'
    BY <2>1, <2>3 DEF FifoInv, ReaderFits, Fits, Stage, Parts
  <2>8. FifoInv'
    BY <1>2, <2>1, <2>3, <2>6, <2>7, TransitStays DEF FifoInv
  <2>9. UNCHANGED Fifo!vars
    BY <2>1, <2>3 DEF Fifo!vars
  <2> QED BY <2>8, <2>9 DEF FifoStep
<1> QED BY <1>1, <1>3, <1>4

LEMMA ReadFifo == FifoInv /\ Read => FifoStep
<1> SUFFICES ASSUME FifoInv, Read PROVE FifoStep
  OBVIOUS
<1> DEFINE a == Append(reader.got, Head(stream))
           d == Len(delivered)
<1>1. /\ stream # <<>> /\ stream' = Tail(stream)
      /\ UNCHANGED <<format, writing, faulty>>
  BY DEF Read
<1>2. TypeInv'
  BY ReadTyped DEF FifoInv
<1>3. CASE faulty
  BY <1>1, <1>2, <1>3, BrokenStep DEF FifoInv
<1>4. CASE ~faulty
  <2>1. faulty = FALSE /\ faulty' = FALSE /\ ReaderFits
    BY <1>1, <1>4 DEF FifoInv
  <2>2. PICK S : InTransit(S, Bytes, complete, d, turn, written)
    BY <2>1 DEF FifoInv
  <2>3. /\ Bytes \in Seq(CellSet) /\ Bytes' \in Seq(CellSet)
        /\ reader'.got = a => Without(Bytes, 0, Bytes')
        /\ reader'.got = <<>> => Without(Bytes, Len(reader.got) + 1, Bytes')
        /\ \A i \in 1..Len(a) : i \in 1..Len(Bytes) /\ Bytes[i] = a[i]
        /\ Len(a) = Len(reader.got) + 1
    BY <1>1, <1>2, ReadBytes DEF FifoInv, TypeInv, ReaderInv
  <2>4. /\ a \in Seq(CellSet) /\ Len(reader.got) \in Nat
        /\ delivered \in Seq(Returned) /\ complete \in Seq(Messages)
        /\ written \in [Writers -> Nat]
    <3>1. reader.got \in Seq(CellSet) /\ Head(stream) \in CellSet
      BY <1>1, HeadTailProperties DEF FifoInv, TypeInv, ReaderInv
    <3> QED BY <3>1, AppendProperties, LenProperties
        DEF FifoInv, TypeInv, ReaderInv, WriterInv
  <2>5. a = Append(reader.got, Head(stream))
    OBVIOUS
  <2> HIDE DEF a, d
  <2>6. Len(Bytes) > 0 /\ Len(Bytes) \in Nat
    <3>1. 1 \in 1..Len(a)
      BY <2>3, <2>4
    <3> QED BY <2>3, <3>1, LenProperties
  <2>7. PICK m \in Messages :
           /\ \A i \in 1..Len(Bytes) : i <= Len(Parts(m)) => Bytes[i] = Cells(m)[i]
           /\ Len(Parts(m)) <= Len(Bytes) => d < Len(complete) /\ m = complete[d + 1]
    BY <2>2, <2>3, <2>4, <2>6, FrontFacts DEF FifoInv
  <2>8. \A i \in 1..Len(a) : i <= Len(Parts(m)) => a[i] = Cells(m)[i]
    BY <2>3, <2>7
  <2>9. \/ Keeps(a) /\ ReaderFits'
        \/ Len(a) = Len(Parts(m)) /\ Returns(a) /\ ReaderFits' /\ Result(a) = m
    BY <2>1, <2>4, <2>5, <2>8, ReadFits DEF FifoInv, TypeInv
  <2>10. UNCHANGED <<format, turn, written, complete>>
    BY <1>1 DEF writing
  <2>11. CASE Keeps(a) /\ ReaderFits'
    <3>1. UNCHANGED delivered /\ Without(Bytes, 0, Bytes')
      BY <2>3, <2>11 DEF Keeps
    <3>2. Bytes' = Bytes
      <4>1. Len(Bytes') = Len(Bytes)
        BY <2>6, <3>1 DEF Without
      <4>2. \A i \in 1..Len(Bytes') : i + 0 = i /\ Bytes'[i] = Bytes[i + 0]
        BY <2>6, <3>1, <4>1 DEF Without
      <4>3. \A i \in 1..Len(Bytes') : Bytes'[i] = Bytes[i]
        BY <4>2
      <4> QED BY <2>3, <4>1, <4>3, SeqEqual
    <3>3. InTransit(S, Bytes', complete', Len(delivered)', turn', written')
      BY <2>2, <2>10, <3>1, <3>2 DEF d
    <3>4. FifoInv'
      BY <1>2, <2>1, <2>10, <2>11, <3>3, TransitStays DEF FifoInv
    <3>5. UNCHANGED Fifo!vars
      BY <2>1, <2>10, <3>1 DEF Fifo!vars
    <3> QED BY <3>4, <3>5 DEF FifoStep
  <2>12. CASE Len(a) = Len(Parts(m)) /\ Returns(a) /\ ReaderFits' /\ Result(a) = m
    <3>1. delivered' = Append(delivered, m) /\ Without(Bytes, Len(Parts(m)), Bytes')
      BY <2>3, <2>12 DEF Returns
    <3>2. Len(Parts(m)) <= Len(Bytes)
      <4>1. Len(a) \in 1..Len(a)
        BY <2>3, <2>4
      <4>2. Len(a) \in 1..Len(Bytes)
        BY <2>3, <4>1
      <4> QED BY <2>6, <2>12, <4>2
    <3>3. d < Len(complete) /\ m = complete[d + 1]
      BY <2>7, <3>2
    <3>4. InTransit(S, Bytes', complete, d + 1, turn, written)
      BY <2>2, <2>3, <2>4, <3>1, <3>3, LeaveInTransit
    <3>5. Len(delivered') = d + 1
      <4>1. m \in Returned
        BY DEF Returned
      <4> QED BY <2>4, <3>1, <4>1, AppendProperties DEF d
    <3>6. InTransit(S, Bytes', complete', Len(delivered)', turn', written')
      BY <2>10, <3>4, <3>5
    <3>7. FifoInv'
      BY <1>2, <2>1, <2>10, <2>12, <3>6, TransitStays DEF FifoInv
    <3> DEFINE C == Len(complete)
               queue == SubSeq(complete, d + 1, C)
    <3>8. d + 1 \in 1..C /\ C \in (d + 1)..C
      <4>1. d \in Nat /\ C \in Nat
        BY <2>4, LenProperties DEF d
      <4> QED BY <3>3, <4>1
    <3>9. Head(queue) = complete[d + 1] /\ Tail(queue) = SubSeq(complete, (d + 1) + 1, C)
      BY <2>4, <3>8, HeadTailOfSubSeq
    <3>10. queue # <<>>
      <4>1. \A i \in (d + 1)..C : complete[i] \in Messages
        <5>1. \A i \in (d + 1)..C : i \in 1..C
          BY <3>8
        <5> QED BY <2>4, <5>1, ElementOfSeq
      <4>2. Len(queue) = C - (d + 1) + 1
        BY <3>8, <4>1, SubSeqProperties
      <4>3. Len(queue) # 0
        BY <3>8, <4>2
      <4> QED BY <4>3, EmptySeq
    <3>11. SubSeq(complete', Len(delivered') + 1, Len(complete')) = Tail(queue)
      BY <2>10, <3>5, <3>9
    <3>12. Fifo!Deliver
      BY <2>1, <3>1, <3>3, <3>9, <3>10, <3>11 DEF Fifo!Deliver, d
    <3> QED BY <3>7, <3>12 DEF FifoStep, Fifo!Next
  <2> QED BY <2>9, <2>11, <2>12
<1> QED BY <1>3, <1>4

LEMMA FifoKept == FifoInv /\ [Next]_vars => FifoStep
<1> SUFFICES ASSUME FifoInv, [Next]_vars PROVE FifoStep
  OBVIOUS
<1>1. TypeInv'
  BY TypeKept DEF FifoInv
<1>2. CASE CutRead \/ ShortRead
  BY <1>1, <1>2, BrokenStep DEF CutRead, ShortRead
<1>3. CASE UNCHANGED vars
  <2>1. UNCHANGED <<format, turn, written, complete, delivered, reader, stream, faulty, Bytes>>
    BY <1>3 DEF vars, writing, reading, Bytes
  <2>2. UNCHANGED Fifo!vars
    BY <2>1 DEF Fifo!vars
  <2>3. CASE faulty
    BY <1>1, <2>1, <2>2, <2>3 DEF FifoInv, FifoStep
  <2>4. CASE ~faulty
    <3>1. PICK S : InTransit(S, Bytes, complete, Len(delivered), turn, written)
      BY <2>4 DEF FifoInv
    <3>2. InTransit(S, Bytes', complete', Len(delivered)', turn', written')
      BY <2>1, <3>1
    <3>3. ReaderFits'
      BY <2>1, <2>4 DEF FifoInv, ReaderFits, Fits, Stage, Parts
    <3>4. FifoInv'
      BY <1>1, <2>1, <3>2, <3>3, TransitStays DEF FifoInv
    <3> QED BY <2>2, <3>4 DEF FifoStep
  <2> QED BY <2>3, <2>4
<1> QED BY <1>2, <1>3, WriteFifo, FailFifo, ReadFifo DEF Next

LEMMA FifoInit == Init => FifoInv /\ Fifo!Init
<1> SUFFICES ASSUME Init PROVE FifoInv /\ Fifo!Init
  OBVIOUS
<1>1. /\ delivered = <<>> /\ complete = <<>> /\ stream = <<>> /\ reader = NewCall
      /\ faulty = FALSE /\ written = [w \in Writers |-> 0]
  BY DEF Init
<1>2. Bytes = <<>> /\ Len(Bytes) = 0 /\ Len(delivered) = 0 /\ Len(complete) = 0
      /\ Len(reader.got) = 0 /\ reader.at = "first"
  <2>1. Bytes = <<>> \o <<>> /\ reader.got = <<>>
    BY <1>1 DEF NewCall, Bytes
  <2> QED BY <1>1, <2>1 DEF NewCall
<1>3. ReaderFits
  BY <1>2 DEF ReaderFits, Fits, Stage
<1>4. \E S : InTransit(S, Bytes, complete, Len(delivered), turn, written)
  <2> DEFINE S == [n \in {1} |-> 0]
  <2>1. S \in [1..(0 + 1) -> Nat] /\ S[1] = 0 /\ 1..(0 + 1) = {1} /\ (0 + 1)..0 = {}
    OBVIOUS
  <2> HIDE DEF S
  <2>2. Laid(S, Bytes, complete, Len(delivered))
    BY <1>2, <2>1 DEF Laid
  <2>3. Behind(S, complete, Len(delivered)) = 0
    BY <1>2, <2>1 DEF Behind
  <2>4. Trailing(Bytes, 0, turn, written)
    BY <1>1, <1>2 DEF Trailing
  <2> QED BY <2>2, <2>3, <2>4 DEF InTransit
<1>5. SubSeq(complete, Len(delivered) + 1, Len(complete)) = <<>>
  BY <1>2, SubSeqEmpty
<1> QED BY <1>1, <1>3, <1>4, <1>5, TypeInit DEF FifoInv, Fifo!Init

(* Until the first fault, what one end writes the other is given: whole       *)
(* messages, each once, in the order in which they were written.             *)
THEOREM StreamIsFifo == Spec => ImplementsFifo
<1>1. FifoInv /\ [Next]_vars => FifoInv' /\ [Fifo!Next]_(Fifo!vars)
  BY FifoKept DEF FifoStep
<1> QED BY FifoInit, <1>1, PTL DEF Spec, ImplementsFifo, Fifo!Spec
=============================================================================
