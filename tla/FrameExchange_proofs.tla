------------------------ MODULE FrameExchange_proofs ------------------------
(***************************************************************************)
(* What becomes of a frame's data, for any names, sizes and timestamps,    *)
(* any fragment size and field width, any number of workers and any        *)
(* failures: the jobs, the matches and what is published are of the frame  *)
(* they should be of.  The argument: what the codecs encode comes back     *)
(* (AddressReturns, TextReturns, BinaryReturns, PiecesJoin), so a job can  *)
(* only be Made(f) of a frame f, if the server holds, at every message,    *)
(* the fragments sent before it (WireInv); and all that is queued, held    *)
(* by a worker, in a file or on its way down is about such a job           *)
(* (HoldInv).                                                              *)
(*                                                                         *)
(* At the end, the deadlines after which the client waits no more for an   *)
(* answer (AckDeadlines).                                                  *)
(***************************************************************************)
EXTENDS FrameExchange, AckDeadlines, SequenceTheorems, FiniteSetTheorems,
        WellFoundedInduction, TLAPS

Kinds == {"data", "eof", "ack", "error"}
Channels == {"data", "control"}

(* What names and addresses are made of.  (That a literal is in STRING is    *)
(* not known to the provers.)                                                *)
Words ==
  STRING \union ToSet(Digits) \union Kinds \union Channels
    \union {"|", "/", ":", "final", ".drc", ".decoded", ".decoded.ply"}

-----------------------------------------------------------------------------
(* Numbers, and the digits that stand for them. *)

LEMMA Quotient ==
  ASSUME NEW a \in Nat, NEW b \in Nat \ {0}
  PROVE  /\ a \div b \in Nat
         /\ b * (a \div b) <= a
         /\ a < b * (a \div b) + b
OBVIOUS

LEMMA Product ==
  ASSUME NEW a \in Nat, NEW b \in Nat, NEW c \in Nat
  PROVE  /\ a * c \in Nat /\ a * c = c * a
         /\ a <= b => a * c <= b * c
         /\ (a + 1) * c = a * c + c
         /\ a > 0 => (a - 1) * c = a * c - c
OBVIOUS

LEMMA Remainder ==
  ASSUME NEW a \in Nat, NEW b \in Nat \ {0}
  PROVE  a % b \in 0..(b - 1) /\ (a < b => a % b = a) /\ a % b <= a
OBVIOUS

LEMMA DigitsFacts ==
  ASSUME NEW f \in 0..9
  PROVE  /\ Digits[f + 1] \in ToSet(Digits)
         /\ Digits[f + 1] # "|" /\ Digits[f + 1] # "/"
         /\ \A i \in 1..Len(Digits) : Digits[i] = Digits[f + 1] <=> i = f + 1
<1>1. Len(Digits) = 10 /\ DOMAIN Digits = 1..10
  BY DEF Digits
<1>2. /\ Digits[1] = "0" /\ Digits[2] = "1" /\ Digits[3] = "2" /\ Digits[4] = "3"
      /\ Digits[5] = "4" /\ Digits[6] = "5" /\ Digits[7] = "6" /\ Digits[8] = "7"
      /\ Digits[9] = "8" /\ Digits[10] = "9"
  BY DEF Digits
<1>3. \A i \in 1..10 : \/ i = 1 \/ i = 2 \/ i = 3 \/ i = 4 \/ i = 5
                       \/ i = 6 \/ i = 7 \/ i = 8 \/ i = 9 \/ i = 10
  OBVIOUS
<1>4. f + 1 \in 1..10
  OBVIOUS
<1>5. Digits[f + 1] \in ToSet(Digits)
  BY <1>1, <1>4 DEF ToSet
<1>6. Digits[f + 1] # "|" /\ Digits[f + 1] # "/"
  <2>1. Digits[f + 1] \in {"0", "1", "2", "3", "4", "5", "6", "7", "8", "9"}
    BY <1>2, <1>3, <1>4
  <2>2. \A x \in {"0", "1", "2", "3", "4", "5", "6", "7", "8", "9"} : x # "|" /\ x # "/"
    OBVIOUS
  <2> QED BY <2>1, <2>2
<1>7. \A i, j \in 1..10 : Digits[i] = Digits[j] => i = j
  BY <1>2, <1>3
<1> QED BY <1>1, <1>4, <1>5, <1>6, <1>7

(* The first place of a sequence where an element stands. *)
LEMMA FirstPlace ==
  ASSUME NEW s, Len(s) \in Nat, NEW x, NEW n \in 1..Len(s), s[n] = x,
         \A i \in 1..(n - 1) : s[i] # x
  PROVE  At(s, x) = n /\ Contains(s, x)
<1> DEFINE I == {i \in 1..Len(s) : s[i] = x}
<1>1. n \in I /\ \A i \in I : n <= i
  OBVIOUS
<1>2. \A m \in I : (\A i \in I : m <= i) => m = n
  BY <1>1
<1>3. Min(I) = n
  BY <1>1, <1>2 DEF Min
<1>4. At(s, x) = IF I # {} THEN Min(I) ELSE 0
  BY DEF At, SelectInSeq
<1> QED BY <1>1, <1>3, <1>4 DEF Contains

LEMMA ParsedDigit ==
  ASSUME NEW f \in 0..9
  PROVE  Parsed(<<Digits[f + 1]>>) = f
<1> DEFINE I == {i \in 1..Len(Digits) : Digits[i] = Digits[f + 1]}
<1>1. Len(Digits) = 10
  BY DEF Digits
<1>2. I = {f + 1}
  BY <1>1, DigitsFacts
<1>3. Min(I) = f + 1
  BY <1>2 DEF Min
<1>4. SelectInSeq(Digits, LAMBDA d : d = Digits[f + 1])
        = IF I # {} THEN Min(I) ELSE 0
  BY DEF SelectInSeq
<1>5. SelectInSeq(Digits, LAMBDA d : d = Digits[f + 1]) = f + 1
  BY <1>2, <1>3, <1>4
<1> HIDE DEF I
<1>6. Len(<<Digits[f + 1]>>) = 1 /\ <<Digits[f + 1]>>[1] = Digits[f + 1]
  OBVIOUS
<1> QED BY <1>5, <1>6, DigitsFacts DEF Parsed

(* Every set of numbers that is not empty has a least one. *)
LEMMA LeastOf ==
  ASSUME NEW T, T \subseteq Nat, T # {}
  PROVE  \E i \in T : \A j \in Nat : j < i => j \notin T
<1>1. IsWellFoundedOn(OpToRel(<, Nat), Nat)
  BY NatLessThanWellFounded
<1>2. PICK i \in T : \A j \in Nat : <<j, i>> \in OpToRel(<, Nat) => ~(j \in T)
  BY <1>1, WFMin
<1> QED BY <1>2 DEF OpToRel

-----------------------------------------------------------------------------
(* Addresses and messages: what comes back from the wire. *)

(* A sequence that begins with two elements, the second of which is the      *)
(* first delimiter, is cut after it.                                         *)
LEMMA Cut ==
  ASSUME NEW a \in Words, NEW d \in Words, a # d, NEW rest \in Seq(Words)
  PROVE  /\ <<a, d>> \o rest \in Seq(Words)
         /\ Len(<<a, d>> \o rest) = Len(rest) + 2
         /\ Contains(<<a, d>> \o rest, d)
         /\ Before(<<a, d>> \o rest, d) = <<a>>
         /\ After(<<a, d>> \o rest, d) = rest
<1> DEFINE s == <<a, d>> \o rest
<1>1. <<a, d>> \in Seq(Words) /\ Len(<<a, d>>) = 2
  OBVIOUS
<1>2. /\ s \in Seq(Words) /\ Len(s) = Len(rest) + 2
      /\ s[1] = a /\ s[2] = d
      /\ \A i \in 1..Len(rest) : s[i + 2] = rest[i]
  BY <1>1
<1>3. Len(rest) \in Nat
  OBVIOUS
<1> HIDE DEF s
<1>4. At(s, d) = 2 /\ Contains(s, d)
  <2>1. 2 \in 1..Len(s) /\ Len(s) \in Nat
    BY <1>2, <1>3
  <2>2. \A i \in 1..(2 - 1) : s[i] # d
    BY <1>2
  <2> QED BY <2>1, <2>2, <1>2, FirstPlace
<1>5. Before(s, d) = <<a>>
  <2>1. Before(s, d) = SubSeq(s, 1, 1)
    BY <1>4 DEF Before
  <2>2. /\ SubSeq(s, 1, 1) \in Seq(Words) /\ Len(SubSeq(s, 1, 1)) = 1
        /\ SubSeq(s, 1, 1)[1] = s[1]
    <3>1. \A i \in 1..1 : s[i] \in Words
      BY <1>2
    <3> QED BY <3>1, SubSeqProperties
  <2>3. <<a>> \in Seq(Words) /\ Len(<<a>>) = 1 /\ <<a>>[1] = a
    OBVIOUS
  <2>4. \A i \in 1..1 : SubSeq(s, 1, 1)[i] = <<a>>[i]
    BY <2>2, <2>3, <1>2
  <2> QED BY <2>1, <2>2, <2>3, <2>4, SeqEqual
<1>6. After(s, d) = rest
  <2>1. After(s, d) = SubSeq(s, 3, Len(rest) + 2)
    BY <1>2, <1>4 DEF After
  <2>2. \A i \in 3..(Len(rest) + 2) : s[i] \in Words
    BY <1>2, <1>3, ElementOfSeq
  <2>3. /\ SubSeq(s, 3, Len(rest) + 2) \in Seq(Words)
        /\ Len(SubSeq(s, 3, Len(rest) + 2)) = Len(rest)
        /\ \A i \in 1..Len(rest) : SubSeq(s, 3, Len(rest) + 2)[i] = s[3 + i - 1]
    BY <1>3, <2>2, SubSeqProperties
  <2>4. \A i \in 1..Len(rest) : SubSeq(s, 3, Len(rest) + 2)[i] = rest[i]
    BY <1>2, <1>3, <2>3
  <2> QED BY <2>1, <2>3, <2>4, SeqEqual
<1> QED BY <1>2, <1>4, <1>5, <1>6 DEF s

(* decode_frame_address undoes encode_frame_address, whatever the name.      *)
LEMMA AddressReturns ==
  ASSUME NEW f \in 0..9, NEW name \in Seq(Words), NEW channel \in Channels
  PROVE  /\ DecodeFrameAddress(EncodeFrameAddress(f, name, channel))
               = [sequence |-> f, name |-> name]
         /\ EncodeFrameAddress(f, name, channel) \in Seq(Words) \ {<<>>}
<1> DEFINE token == <<Digits[f + 1], "|">> \o name
           raw == <<channel, "/">> \o token
<1>1. f # None
  BY NoneAssumption
<1>2. Digits[f + 1] \in Words /\ "|" \in Words /\ "/" \in Words /\ channel \in Words
  BY DigitsFacts DEF Words
<1>3. /\ token \in Seq(Words) /\ Len(token) = Len(name) + 2
      /\ Contains(token, "|") /\ Before(token, "|") = <<Digits[f + 1]>>
      /\ After(token, "|") = name
  BY <1>2, DigitsFacts, Cut
<1> HIDE DEF token
<1>4. channel # "/"
  BY DEF Channels
<1>5. raw \in Seq(Words) /\ Len(raw) = Len(token) + 2
      /\ Contains(raw, "/") /\ After(raw, "/") = token
  BY <1>2, <1>3, <1>4, Cut
<1> HIDE DEF raw
<1>6. token # <<>> /\ raw # <<>>
  BY <1>3, <1>5
<1>7. EncodeFrameAddress(f, name, channel) = raw
  BY <1>1, <1>6 DEF EncodeFrameAddress, token, raw
<1>8. Parsed(Before(token, "|")) = f
  BY <1>3, ParsedDigit
<1>9. DecodeFrameAddress(raw) = [sequence |-> f, name |-> name]
  BY <1>1, <1>3, <1>5, <1>8 DEF DecodeFrameAddress
<1> QED BY <1>5, <1>6, <1>7, <1>9

(* In text a message comes back with its kind, its name and its payload. *)
LEMMA TextReturns ==
  ASSUME NEW m, m.kind \in Kinds, m.name \in Seq(Words) \ {<<>>}
  PROVE  FromText(ToText(m)) = Message(m.kind, m.name, m.payload, None)
<1> DEFINE meta == <<m.kind, ":">> \o m.name
<1>1. m.kind \in Words /\ ":" \in Words /\ m.kind # ":"
  BY DEF Words, Kinds
<1>2. /\ Contains(meta, ":") /\ Before(meta, ":") = <<m.kind>>
      /\ After(meta, ":") = m.name
  BY <1>1, Cut
<1>3. ToText(m) = [meta |-> meta, payload |-> m.payload]
  BY DEF ToText
<1> HIDE DEF meta
<1>4. <<m.kind>>[1] = m.kind
  OBVIOUS
<1> QED BY <1>2, <1>3, <1>4 DEF FromText

(* In binary one without a fragment header comes back as it is, but for the  *)
(* sequence None, which is sent as 0.                                        *)
LEMMA BinaryReturns ==
  ASSUME NEW kind, NEW name, NEW payload, NEW sequence \in Nat \union {None}
  PROVE  LET m == FromBinary(ToBinary(Message(kind, name, payload, sequence)))
         IN  /\ m.kind = kind /\ m.name = name /\ m.payload = payload
             /\ m.sequence = Or(sequence, 0) /\ m.stamp = 0
             /\ ~m.fragmented
<1> DEFINE x == Message(kind, name, payload, sequence)
           bytes == ToBinary(x)
<1>1. /\ x.kind = kind /\ x.name = name /\ x.payload = payload
      /\ x.sequence = sequence /\ x.fragmented = FALSE /\ x.total = None
      /\ x.stamp = None /\ x.version = 2
  BY DEF Message
<1> HIDE DEF x
<1>2. FragmentInfo(x) = None
  BY <1>1 DEF FragmentInfo
<1>3. More(x) = FALSE
  BY <1>2 DEF More
<1>4. bytes = [version |-> 2, kind |-> kind, sequence |-> Or(sequence, 0),
               name |-> name, payload |-> payload, stamp |-> 0, more |-> FALSE,
               fragment |-> None]
  BY <1>1, <1>2, <1>3 DEF ToBinary, Or
<1> HIDE DEF bytes
<1>5. /\ FromBinary(bytes).kind = kind /\ FromBinary(bytes).name = name
      /\ FromBinary(bytes).payload = payload
      /\ FromBinary(bytes).sequence = Or(sequence, 0)
      /\ FromBinary(bytes).stamp = 0 /\ ~FromBinary(bytes).fragmented
  BY <1>4 DEF FromBinary
<1> QED BY <1>5 DEF x, bytes

-----------------------------------------------------------------------------
(* Fragments *)

(* How many fragments iter_fragments makes, and the last unit of the i-th.   *)
Number(length, size) ==
  IF size = 0 \/ length <= size THEN 1 ELSE (length + size - 1) \div size
Start(size, i) == (i - 1) * size
Stop(length, size, i) == IF i = Number(length, size) THEN length ELSE i * size

LEMMA NumberFacts ==
  ASSUME NEW length \in Nat \ {0}, NEW size \in Nat
  PROVE  LET n == Number(length, size)
         IN  /\ n \in Nat \ {0}
             /\ \A i \in 1..n :
                  /\ Stop(length, size, i) \in i..length
                  /\ Start(size, i) \in Nat
                  /\ Start(size, i) < Stop(length, size, i)
                  /\ i > 1 => Start(size, i) = Stop(length, size, i - 1)
             /\ Stop(length, size, n) = length
<1> DEFINE n == Number(length, size)
<1>1. CASE size = 0 \/ length <= size
  <2>1. n = 1
    BY <1>1 DEF Number
  <2>2. Stop(length, size, 1) = length
    BY <2>1 DEF Stop
  <2>3. (1 - 1) * size = 0
    OBVIOUS
  <2> HIDE DEF n
  <2> QED BY <2>1, <2>2, <2>3 DEF n, Start
<1>2. CASE ~(size = 0 \/ length <= size)
  <2>1. size \in Nat \ {0} /\ size < length /\ length + size - 1 \in Nat
    BY <1>2
  <2>2. n = (length + size - 1) \div size
    BY <1>2 DEF Number
  <2>3. /\ n \in Nat /\ size * n <= length + size - 1
        /\ length + size - 1 < size * n + size
    BY <2>1, <2>2, Quotient
  <2> HIDE DEF n
  <2>4. n * size = size * n /\ n * size \in Nat
    BY <2>1, <2>3, Product
  <2>5. n > 0
    <3>1. CASE n = 0
      <4>1. size * n = 0
        BY <3>1
      <4> QED BY <4>1, <2>1, <2>3
    <3> QED BY <3>1, <2>3
  <2>6. (n - 1) * size = n * size - size
    BY <2>1, <2>3, <2>5, Product
  <2>7. (n - 1) * size < length
    BY <2>1, <2>3, <2>4, <2>6
  <2>8. Stop(length, size, n) = length
    BY DEF Stop, n
  <2>9. ASSUME NEW i \in 1..n
        PROVE  /\ Stop(length, size, i) \in i..length
               /\ (i - 1) * size \in Nat
               /\ (i - 1) * size < Stop(length, size, i)
               /\ i > 1 => (i - 1) * size = Stop(length, size, i - 1)
    <3>1. i \in Nat /\ i - 1 \in Nat /\ i <= n /\ i > 0
      BY <2>3
    <3>2. (i - 1) * size \in Nat /\ (i - 1) * size = i * size - size /\ i * size \in Nat
      BY <3>1, <2>1, Product
    <3>3. i > 1 => (i - 1) * size = Stop(length, size, i - 1)
      BY <3>1 DEF Stop, n
    <3>4. 1 * i <= size * i /\ size * i = i * size
      BY <3>1, <2>1, Product
    <3>5. i <= i * size
      BY <3>1, <3>4
    <3>6. CASE i = n
      <4>1. Stop(length, size, i) = length
        BY <3>6, <2>8
      <4>2. (i - 1) * size < length
        BY <3>6, <2>7
      <4>3. n <= length
        <5>1. n - 1 \in Nat /\ 1 * (n - 1) <= size * (n - 1) /\ size * (n - 1) = (n - 1) * size
          BY <2>1, <2>3, <2>5, Product
        <5> QED BY <5>1, <2>7, <2>3
      <4> QED BY <4>1, <4>2, <4>3, <3>1, <3>2, <3>3, <3>6
    <3>7. CASE i # n
      <4>1. Stop(length, size, i) = i * size
        BY <3>7 DEF Stop, n
      <4>2. i <= n - 1 /\ n - 1 \in Nat
        BY <3>1, <3>7, <2>3
      <4>3. i * size <= (n - 1) * size /\ (n - 1) * size \in Nat
        BY <4>2, <3>1, <2>1, Product
      <4>4. i * size < length
        BY <4>3, <3>2, <2>7
      <4> QED BY <4>1, <4>4, <3>1, <3>2, <3>3, <3>5, <2>1
    <3> QED BY <3>6, <3>7
  <2>10. \A i \in 1..n : Start(size, i) = (i - 1) * size
    BY DEF Start
  <2> QED BY <2>3, <2>5, <2>8, <2>9, <2>10 DEF n
<1> QED BY <1>1, <1>2

(* The fragments of a payload: pieces that follow one another. *)
Piece(p, size, i) ==
  SubSeq(p, Start(size, i) + 1, Stop(Len(p), size, i))

LEMMA FragmentsAre ==
  ASSUME NEW S, NEW p \in Seq(S), p # <<>>, NEW size \in Nat
  PROVE  /\ IterFragments(p, size)
               = [i \in 1..Number(Len(p), size) |->
                    [payload |-> Piece(p, size, i), index |-> i - 1,
                     total |-> Number(Len(p), size), length |-> Len(p)]]
         /\ Len(IterFragments(p, size)) = Number(Len(p), size)
<1> DEFINE n == Number(Len(p), size)
<1>1. n \in Nat \ {0}
  <2>1. Len(p) \in Nat \ {0}
    OBVIOUS
  <2> QED BY <2>1, NumberFacts
<1>2. IterFragments(p, size)
        = [i \in 1..n |->
             [payload |-> Piece(p, size, i), index |-> i - 1, total |-> n, length |-> Len(p)]]
  BY DEF IterFragments, Number, Start, Stop, Piece
<1> HIDE DEF n
<1>3. Len(IterFragments(p, size)) = n
  BY <1>1, <1>2
<1> QED BY <1>2, <1>3 DEF n

(* What FlattenSeq unfolds to. *)
LEMMA Flattened ==
  ASSUME NEW s, NEW n \in Nat \ {0}, Len(s) = n
  PROVE  FlattenSeq(s)
           = (CHOOSE g : g = [i \in 1..n |-> IF i = 1 THEN s[i] ELSE g[i - 1] \o s[i]])[n]
BY DEF FlattenSeq

(* Joined, the first n pieces of a payload are its beginning. *)
LEMMA PiecesJoin ==
  ASSUME NEW S, NEW p \in Seq(S), p # <<>>, NEW size \in Nat,
         NEW n \in 1..Number(Len(p), size), NEW s, s = [i \in 1..n |-> Piece(p, size, i)]
  PROVE  FlattenSeq(s) = SubSeq(p, 1, Stop(Len(p), size, n))
<1> DEFINE Upto(i) == SubSeq(p, 1, Stop(Len(p), size, i))
           Solves(g) == g = [i \in 1..n |-> IF i = 1 THEN s[i] ELSE g[i - 1] \o s[i]]
           h == [i \in 1..n |-> Upto(i)]
<1>1. Len(p) \in Nat \ {0}
  OBVIOUS
<1>2. /\ Number(Len(p), size) \in Nat /\ n \in Nat \ {0}
      /\ \A i \in 1..Number(Len(p), size) :
           /\ Stop(Len(p), size, i) \in i..Len(p)
           /\ Start(size, i) \in Nat
           /\ Start(size, i) < Stop(Len(p), size, i)
           /\ i > 1 => Start(size, i) = Stop(Len(p), size, i - 1)
  <2>1. /\ Number(Len(p), size) \in Nat \ {0}
        /\ \A i \in 1..Number(Len(p), size) :
             /\ Stop(Len(p), size, i) \in i..Len(p)
             /\ Start(size, i) \in Nat
             /\ Start(size, i) < Stop(Len(p), size, i)
             /\ i > 1 => Start(size, i) = Stop(Len(p), size, i - 1)
    BY ONLY <1>1, size \in Nat, NumberFacts
  <2> QED BY <2>1
<1>3. Len(s) = n
  BY <1>2
<1>4. s[1] = Upto(1)
  <2>1. Start(size, 1) + 1 = 1
    BY <1>1 DEF Start
  <2>2. s[1] = Piece(p, size, 1)
    BY <1>2
  <2> QED BY <2>1, <2>2 DEF Piece
<1>5. ASSUME NEW i \in 1..n, i # 1
      PROVE  Upto(i - 1) \o s[i] = Upto(i)
  <2> DEFINE k == Start(size, i)
             e == Stop(Len(p), size, i)
  <2>1. i \in 1..Number(Len(p), size) /\ i > 1
    BY <1>2, <1>5
  <2>2. k \in Nat /\ k < e /\ e \in i..Len(p) /\ k = Stop(Len(p), size, i - 1)
    BY <1>2, <2>1
  <2>3. s[i] = SubSeq(p, k + 1, e)
    BY <1>5 DEF Piece
  <2>4. Upto(i - 1) = SubSeq(p, 1, k)
    BY <2>2
  <2> HIDE DEF k, e
  <2>5. SubSeq(p, 1, k) \o SubSeq(p, k + 1, e) = SubSeq(p, 1, e)
    <3>1. 1 \in 1..(Len(p) + 1) /\ k \in (1 - 1)..Len(p) /\ e \in k..Len(p)
      BY <1>1, <1>2, <2>1, <2>2
    <3> QED BY <3>1, ConcatAdjacentSubSeq
  <2> QED BY <2>3, <2>4, <2>5 DEF e
<1>6. Solves(h)
  <2>1. h = [i \in 1..n |-> IF i = 1 THEN s[i] ELSE Upto(i - 1) \o s[i]]
    BY <1>4, <1>5
  <2>2. ASSUME NEW i \in 1..n, i # 1 PROVE h[i - 1] = Upto(i - 1)
    <3>1. i - 1 \in 1..n
      BY <1>2, <2>2
    <3> HIDE DEF Upto
    <3> QED BY <3>1
  <2> HIDE DEF Upto
  <2>3. DOMAIN h = 1..n
    OBVIOUS
  <2> HIDE DEF h
  <2> QED BY <2>1, <2>2
<1> DEFINE c == CHOOSE g : Solves(g)
<1>7. Solves(c)
  BY <1>6
<1>8. FlattenSeq(s) = c[n]
  BY ONLY <1>2, <1>3, Flattened, Zenon
<1> HIDE DEF c, h
<1>9. c[n] = Upto(n)
  <2> DEFINE Wrong == {i \in 1..n : c[i] # Upto(i)}
  <2>1. \A i \in 1..n : c[i] = IF i = 1 THEN s[i] ELSE c[i - 1] \o s[i]
    BY <1>7
  <2>2. Wrong = {}
    <3>1. SUFFICES ASSUME Wrong # {} PROVE FALSE
      OBVIOUS
    <3>2. PICK i \in Wrong : \A j \in Nat : j < i => j \notin Wrong
      <4>1. Wrong \subseteq Nat
        BY <1>2
      <4> QED BY <3>1, <4>1, LeastOf
    <3>3. i \in 1..n /\ c[i] # Upto(i)
      OBVIOUS
    <3>4. i # 1
      BY <2>1, <3>3, <1>4
    <3>5. i - 1 \in 1..n /\ i - 1 \in Nat /\ i - 1 < i
      BY <1>2, <3>3, <3>4
    <3>6. c[i - 1] = Upto(i - 1)
      BY <3>2, <3>5
    <3> HIDE DEF Upto, Wrong
    <3> QED BY <2>1, <3>3, <3>4, <3>6, <1>5
  <2> HIDE DEF Upto
  <2>3. n \in 1..n
    BY <1>2
  <2> QED BY <2>2, <2>3
<1> QED BY <1>8, <1>9

-----------------------------------------------------------------------------
(* What is sent, and what the server reads. *)

FragmentSize == IF Binary THEN setting.size ELSE 0

(* The fragments of frame f, and how many the header says it has. *)
Total(f) == Number(Size[f], FragmentSize)
Stated(f) == IF Binary THEN Total(f) % Modulus ELSE 1
Part(f, i) == Piece(Payload(f), FragmentSize, i)
Address(f) == EncodeFrameAddress(f, Name[f], "data")

(* The job that is made of frame f, if any: as many fragments as stated.     *)
Made(f) ==
  [sequence |-> f, name |-> Name[f],
   payload |-> SubSeq(Payload(f), 1, Stop(Size[f], FragmentSize, Stated(f))),
   length |-> Size[f], stamp |-> IF Binary THEN Stamp[f] ELSE 0]
Decodable == {f \in Frames : Stated(f) > 0}

LEMMA FrameFacts ==
  ASSUME NEW f \in Frames
  PROVE  /\ f \in 0..9 /\ f \in Nat /\ f # None /\ f < Count /\ Count \in Nat
         /\ Name[f] \in Seq(Words) \ {<<>>}
         /\ Last(Name[f]) # ".decoded" /\ Last(Name[f]) # ".decoded.ply"
         /\ Size[f] \in Nat \ {0} /\ Stamp[f] \in Nat
<1>1. Count \in 1..10 /\ f \in 0..(Count - 1)
  BY FramesAssumption DEF Frames
<1>2. Name[f] \in Seq(STRING) \ {<<>>}
  BY FramesAssumption
<1>3. Name[f] \in Seq(Words)
  BY <1>2, SeqMonotonic DEF Words
<1>4. f \in 0..9 /\ f \in Nat /\ f < Count /\ Count \in Nat
  BY <1>1
<1>5. f # None
  BY <1>4, NoneAssumption
<1> QED BY <1>2, <1>3, <1>4, <1>5, FramesAssumption

(* The units of a payload name their frame. *)
LEMMA PayloadFacts ==
  ASSUME NEW f \in Frames
  PROVE  /\ Payload(f) \in Seq({"drc"} \X {f} \X Nat) /\ Payload(f) # <<>>
         /\ Len(Payload(f)) = Size[f]
         /\ \A n \in 1..Size[f] : FrameOf(SubSeq(Payload(f), 1, n)) = f
         /\ SubSeq(Payload(f), 1, Size[f]) = Payload(f)
<1> DEFINE p == Payload(f)
           S == {"drc"} \X {f} \X Nat
<1>1. Size[f] \in Nat \ {0}
  BY FrameFacts
<1>2. p \in Seq(S) /\ Len(p) = Size[f] /\ \A i \in 1..Size[f] : p[i] = <<"drc", f, i>>
  BY <1>1 DEF Payload
<1> HIDE DEF p
<1>3. ASSUME NEW n \in 1..Size[f] PROVE FrameOf(SubSeq(p, 1, n)) = f
  <2>1. \A i \in 1..n : p[i] \in S
    BY <1>1, <1>2
  <2>2. \A i \in 1..(n - 1 + 1) : SubSeq(p, 1, n)[i] = p[1 + i - 1]
    BY <1>1, <2>1, SubSeqProperties
  <2>3. SubSeq(p, 1, n)[1] = p[1] /\ p[1] = <<"drc", f, 1>>
    BY <1>1, <1>2, <2>2
  <2> QED BY <2>3 DEF FrameOf
<1>4. SubSeq(p, 1, Len(p)) = p
  BY <1>2, SubSeqFull
<1> QED BY <1>1, <1>2, <1>3, <1>4 DEF p

LEMMA TotalFacts ==
  ASSUME setting \in Settings, NEW f \in Frames
  PROVE  /\ FragmentSize \in Nat
         /\ Total(f) \in Nat \ {0} /\ Stated(f) \in 0..Total(f)
         /\ Fragments(f) = Total(f)
         /\ ~Binary => Total(f) = 1
         /\ Binary => Stated(f) < Modulus /\ (Total(f) < Modulus => Stated(f) = Total(f))
         /\ Len(Messages(f)) = Total(f) /\ DOMAIN Messages(f) = 1..Total(f)
         /\ \A i \in 1..Total(f) :
              Messages(f)[i] = [kind |-> "data", name |-> Address(f), payload |-> Part(f, i),
                                sequence |-> f, fragmented |-> Total(f) > 1,
                                index |-> i - 1, total |-> Total(f), length |-> Size[f],
                                stamp |-> Stamp[f], version |-> setting.header]
<1>1. FragmentSize \in Nat
  BY SettingsAssumption DEF FragmentSize
<1>2. Size[f] \in Nat \ {0}
  BY FrameFacts
<1>3. Total(f) \in Nat \ {0}
  BY <1>1, <1>2, NumberFacts DEF Total
<1>4. /\ IterFragments(Payload(f), FragmentSize)
           = [i \in 1..Total(f) |->
                [payload |-> Part(f, i), index |-> i - 1, total |-> Total(f),
                 length |-> Size[f]]]
      /\ Len(IterFragments(Payload(f), FragmentSize)) = Total(f)
  <2>1. /\ Payload(f) \in Seq({"drc"} \X {f} \X Nat) /\ Payload(f) # <<>>
        /\ Len(Payload(f)) = Size[f]
    BY PayloadFacts
  <2>2. /\ IterFragments(Payload(f), FragmentSize)
              = [i \in 1..Number(Len(Payload(f)), FragmentSize) |->
                   [payload |-> Piece(Payload(f), FragmentSize, i), index |-> i - 1,
                    total |-> Number(Len(Payload(f)), FragmentSize),
                    length |-> Len(Payload(f))]]
        /\ Len(IterFragments(Payload(f), FragmentSize))
             = Number(Len(Payload(f)), FragmentSize)
    BY <1>1, <2>1, FragmentsAre
  <2> QED BY <2>1, <2>2 DEF Total, Part
<1>5. Fragments(f) = Total(f)
  BY <1>4 DEF Fragments, FragmentSize
<1>6. ~Binary => Total(f) = 1
  BY DEF Total, Number, FragmentSize
<1>7. /\ Stated(f) \in 0..Total(f)
      /\ Binary => Stated(f) < Modulus /\ (Total(f) < Modulus => Stated(f) = Total(f))
  BY <1>3, <1>6, ModulusAssumption, Remainder DEF Stated
<1>8. Messages(f)
        = [i \in 1..Total(f) |->
             [kind |-> "data", name |-> Address(f), payload |-> Part(f, i),
              sequence |-> f, fragmented |-> Total(f) > 1,
              index |-> i - 1, total |-> Total(f), length |-> Size[f],
              stamp |-> Stamp[f], version |-> setting.header]]
  <2>1. DOMAIN IterFragments(Payload(f), FragmentSize) = 1..Total(f)
    BY <1>4
  <2> QED BY <1>4, <2>1 DEF Messages, Address, FragmentSize
<1>9. Len(Messages(f)) = Total(f)
  BY <1>3, <1>8
<1> QED BY <1>1, <1>3, <1>5, <1>6, <1>7, <1>8, <1>9

(* What a job is made of is the frame it is about; all of it, when the       *)
(* number of fragments fits in the header.                                   *)
LEMMA MadeFacts ==
  ASSUME setting \in Settings, NEW f \in Decodable
  PROVE  /\ f \in Frames /\ FrameOf(Made(f).payload) = f
         /\ Total(f) < Modulus => Made(f) = JobOf(f)
<1>1. f \in Frames /\ Stated(f) > 0
  BY DEF Decodable
<1>2. /\ FragmentSize \in Nat /\ Size[f] \in Nat \ {0} /\ Stated(f) \in 1..Total(f)
      /\ Total(f) \in Nat \ {0}
  BY <1>1, TotalFacts, FrameFacts
<1>3. Stop(Size[f], FragmentSize, Stated(f)) \in 1..Size[f]
  <2>1. Stop(Size[f], FragmentSize, Stated(f)) \in Stated(f)..Size[f]
    BY <1>2, NumberFacts DEF Total
  <2> QED BY <1>2, <2>1
<1>4. FrameOf(Made(f).payload) = f
  BY <1>1, <1>3, PayloadFacts DEF Made
<1>5. ASSUME Total(f) < Modulus PROVE Made(f) = JobOf(f)
  <2>1. Stated(f) = Total(f)
    BY <1>1, <1>5, TotalFacts DEF Stated
  <2>2. Stop(Size[f], FragmentSize, Stated(f)) = Size[f]
    BY <1>2, <2>1, NumberFacts DEF Total
  <2> QED BY <1>1, <2>2, PayloadFacts DEF Made, JobOf
<1> QED BY <1>1, <1>4, <1>5

(* What the server reads of fragment i of frame f, if it can read it.        *)
LEMMA DataReturns ==
  ASSUME setting \in Settings, NEW f \in Frames, NEW i \in 1..Total(f), NEW m,
         m = FromWire(ToWire(Messages(f)[i])), m # None
  PROVE  /\ m.kind = "data" /\ m.name = Address(f)
         /\ SequenceOf(m, DecodeFrameAddress(m.name)) = f
         /\ DecodeFrameAddress(m.name).sequence = f
         /\ DecodeFrameAddress(m.name).name = Name[f]
         /\ m.payload = Part(f, i)
         /\ ~Binary => i = 1 /\ m.length = None /\ m.stamp = None /\ m.payload = Payload(f)
         /\ Binary => /\ m.fragmented /\ m.index = (i - 1) % Modulus
                      /\ m.total = Stated(f) /\ m.length = Size[f] /\ m.stamp = Stamp[f]
                      /\ Stated(f) > 0 /\ (i - 1) % Modulus < Stated(f)
<1> DEFINE x == Messages(f)[i]
           address == DecodeFrameAddress(Address(f))
<1>1. /\ Total(f) \in Nat \ {0} /\ i \in Nat \ {0} /\ i <= Total(f)
      /\ Size[f] \in Nat \ {0} /\ Stamp[f] \in Nat /\ f \in Nat /\ f # None
  BY TotalFacts, FrameFacts
<1>2. x = [kind |-> "data", name |-> Address(f), payload |-> Part(f, i),
           sequence |-> f, fragmented |-> Total(f) > 1,
           index |-> i - 1, total |-> Total(f), length |-> Size[f],
           stamp |-> Stamp[f], version |-> setting.header]
  BY TotalFacts
<1>3. /\ address = [sequence |-> f, name |-> Name[f]]
      /\ Address(f) \in Seq(Words) \ {<<>>}
  BY AddressReturns, FrameFacts DEF Address, Channels
<1> HIDE DEF x, address
<1>4. CASE ~Binary
  <2>1. m = Message("data", Address(f), Part(f, i), None)
    <3>1. x.kind \in Kinds /\ x.name \in Seq(Words) \ {<<>>}
      BY <1>2, <1>3 DEF Kinds
    <3>2. FromText(ToText(x)) = Message(x.kind, x.name, x.payload, None)
      BY <3>1, TextReturns
    <3> QED BY <3>2, <1>2, <1>4 DEF FromWire, ToWire, x
  <2>2. /\ m.kind = "data" /\ m.name = Address(f) /\ m.payload = Part(f, i)
        /\ m.sequence = None /\ m.length = None /\ m.stamp = None
    BY <2>1 DEF Message
  <2>3. i = 1
    BY <1>1, <1>4, TotalFacts
  <2>4. Part(f, 1) = Payload(f)
    <3>1. FragmentSize = 0 /\ Total(f) = 1
      BY <1>4, TotalFacts DEF FragmentSize
    <3>2. Start(0, 1) = 0 /\ Stop(Size[f], 0, 1) = Size[f]
      BY <3>1 DEF Start, Stop, Total
    <3>3. 0 + 1 = 1
      OBVIOUS
    <3> QED BY <3>1, <3>2, <3>3, PayloadFacts DEF Part, Piece
  <2> QED BY <1>3, <1>4, <2>2, <2>3, <2>4 DEF SequenceOf, address
<1>5. CASE Binary
  <2>1. FragmentInfo(x) = [index |-> i - 1, total |-> Total(f), length |-> Size[f]]
    <3>1. i - 1 \in Nat /\ i - 1 # None /\ Total(f) # None /\ Size[f] # None
      BY <1>1, NoneAssumption
    <3>2. Or(i - 1, 0) = i - 1 /\ Or(Total(f), 1) = Total(f)
      BY <1>1, <3>1 DEF Or
    <3>3. x.total \notin {None, 0} /\ x.length # None
      BY <1>1, <1>2, <3>1
    <3> QED BY <1>2, <3>2, <3>3 DEF FragmentInfo
  <2>2. FragmentInfo(x) # None
    <3>1. FragmentInfo(x) \in FragmentInfos
      BY <1>1, <2>1 DEF FragmentInfos
    <3> QED BY <3>1, NoneAssumption
  <2> DEFINE packed == [index |-> (i - 1) % Modulus, total |-> Total(f) % Modulus,
                        length |-> Size[f]]
  <2>3. Packed(FragmentInfo(x)) = packed
    BY <2>1 DEF Packed
  <2>4. packed # None
    <3>1. (i - 1) % Modulus \in Nat /\ Total(f) % Modulus \in Nat
      BY <1>1, ModulusAssumption, Remainder
    <3>2. packed \in FragmentInfos
      BY <1>1, <3>1 DEF FragmentInfos
    <3> QED BY <3>2, NoneAssumption
  <2> DEFINE bytes == ToBinary(x)
  <2> HIDE DEF packed
  <2>5. /\ bytes.version = setting.header /\ bytes.kind = "data"
        /\ bytes.sequence = Or(f, 0) /\ bytes.name = Address(f)
        /\ bytes.payload = Part(f, i) /\ bytes.stamp = Or(Stamp[f], 0)
        /\ bytes.fragment = packed
    BY <1>2, <2>2, <2>3 DEF ToBinary
  <2>6. Or(f, 0) = f /\ Or(Stamp[f], 0) = Stamp[f]
    BY <1>1, NoneAssumption DEF Or
  <2> HIDE DEF bytes
  <2>7. m = FromBinary(bytes)
    BY <1>5 DEF FromWire, ToWire, x, bytes
  <2>8. bytes.version = 2 /\ Valid(packed)
    BY <2>4, <2>5, <2>7 DEF FromBinary
  <2>9. /\ m.kind = "data" /\ m.name = Address(f) /\ m.payload = Part(f, i)
        /\ m.sequence = f /\ m.fragmented /\ m.index = packed.index
        /\ m.total = packed.total /\ m.length = packed.length /\ m.stamp = Stamp[f]
    <3>1. m = [kind |-> bytes.kind, name |-> bytes.name, payload |-> bytes.payload,
               sequence |-> bytes.sequence,
               fragmented |-> bytes.more \/ bytes.fragment # None,
               index |-> bytes.fragment.index, total |-> bytes.fragment.total,
               length |-> bytes.fragment.length, stamp |-> bytes.stamp, version |-> 2]
      BY <2>4, <2>5, <2>7, <2>8 DEF FromBinary
    <3>2. m.fragmented
      <4>1. m.fragmented = (bytes.more \/ bytes.fragment # None)
        BY <3>1
      <4>2. bytes.fragment # None
        BY <2>4, <2>5
      <4> QED BY <4>1, <4>2
    <3> QED BY <3>1, <3>2, <2>5, <2>6
  <2>10. Stated(f) = Total(f) % Modulus
    BY <1>5 DEF Stated
  <2>11. Stated(f) > 0 /\ (i - 1) % Modulus < Stated(f)
    BY <2>8, <2>10 DEF Valid, packed
  <2> QED BY <1>1, <1>3, <1>5, <2>9, <2>10, <2>11 DEF SequenceOf, packed, address
<1> QED BY <1>4, <1>5

(* The end of the transmission is read as such. *)
LEMMA EofReturns ==
  ASSUME NEW m, m = FromWire(ToWire(Eof))
  PROVE  m.kind = "eof"
<1> DEFINE name == EncodeFrameAddress(None, <<"final">>, "control")
<1>1. name \in Seq(Words) \ {<<>>}
  <2>1. <<>> \o <<"final">> = <<"final">> /\ <<"final">> # <<>>
    OBVIOUS
  <2>2. name = <<"control", "/">> \o <<"final">>
    BY <2>1 DEF EncodeFrameAddress
  <2>3. <<"control", "/">> \in Seq(Words) /\ <<"final">> \in Seq(Words)
    BY DEF Words, Channels
  <2>4. name \in Seq(Words) /\ Len(name) = 3
    <3>1. /\ <<"control", "/">> \o <<"final">> \in Seq(Words)
          /\ Len(<<"control", "/">> \o <<"final">>)
               = Len(<<"control", "/">>) + Len(<<"final">>)
      BY <2>3, ConcatProperties
    <3>2. Len(<<"control", "/">>) = 2 /\ Len(<<"final">>) = 1
      OBVIOUS
    <3> HIDE DEF name
    <3> QED BY <2>2, <3>1, <3>2
  <2>5. name # <<>>
    <3> HIDE DEF name
    <3> QED BY <2>4
  <2> QED BY <2>4, <2>5
<1> HIDE DEF name
<1>2. Eof = Message("eof", name, <<>>, None)
  BY DEF Eof, name
<1>3. CASE Binary
  <2>1. FromBinary(ToBinary(Eof)).kind = "eof"
    BY <1>2, BinaryReturns
  <2> QED BY <1>3, <2>1 DEF FromWire, ToWire
<1>4. CASE ~Binary
  <2>1. Eof.kind = "eof" /\ Eof.name = name /\ Eof.kind \in Kinds
    BY <1>2 DEF Message, Kinds
  <2>2. FromText(ToText(Eof)) = Message("eof", name, Eof.payload, None)
    BY <1>1, <2>1, TextReturns
  <2> QED BY <1>4, <2>2 DEF FromWire, ToWire, Message
<1> QED BY <1>3, <1>4

-----------------------------------------------------------------------------
(* What the server answers, and what the client reads of it. *)

(* The messages that may be on the way down: of the pipeline about the jobs  *)
(* it makes, or of the legacy loop about any frame.                          *)
FromPipeline ==
  {Answer(Ack(Made(f)), f) : f \in Decodable}
    \union {Answer(ErrorReply(Made(f)), f) : f \in Decodable}
    \union {Answer(Reply(Made(f), Points(f)), f) : f \in Decodable}
    \union {Closed}
LegacyAck(f) == Message("ack", EncodeFrameAddress(f, Name[f], "control"), <<>>, None)
LegacyError(f) == Message("error", EncodeFrameAddress(f, Name[f], "control"), <<>>, None)
LegacyReply(f) ==
  Message("data", EncodeFrameAddress(f, Append(Name[f], ".decoded"), "data"), Points(f), None)
FromLegacy ==
  {Answer(LegacyAck(f), f) : f \in Frames}
    \union {Answer(LegacyError(f), f) : f \in Frames}
    \union {Answer(LegacyReply(f), f) : f \in Frames}
    \union {Answer(Eof, None)}
Answers == FromPipeline \union (IF setting.handler = "legacy" THEN FromLegacy ELSE {})

(* x is what should be published for its frame. *)
Exact(x) ==
  LET f == x.frame
  IN  /\ x.decoded = Points(f) /\ x.name = Append(Name[f], ".decoded.ply")
      /\ x.sequence = f /\ x.stamp = IF Binary THEN Stamp[f] ELSE 0

(* m says what it is about, in its sequence; and its name is the name of no  *)
(* other frame.                                                              *)
Tells(m, f) ==
  /\ SequenceOf(m, DecodeFrameAddress(m.name)) = f
  /\ m.kind = "ack" \/ \A g \in Frames : Name[g] = DecodeFrameAddress(m.name).name => g = f

LEMMA NameFacts ==
  ASSUME NEW f \in Frames, NEW suffix \in {".decoded", ".decoded.ply"}
  PROVE  /\ ReplyName(Name[f], suffix) = Append(Name[f], suffix)
         /\ Append(Name[f], suffix) \in Seq(Words) \ {<<>>}
         /\ \A g \in Frames : Name[g] # Append(Name[f], suffix)
         /\ \A g \in Frames : Name[g] = Name[f] => g = f
<1>1. ReplyName(Name[f], suffix) = Append(Name[f], suffix)
  BY FrameFacts DEF ReplyName
<1>2. suffix \in Words
  BY DEF Words
<1>3. /\ Append(Name[f], suffix) \in Seq(Words) /\ Append(Name[f], suffix) # <<>>
      /\ Len(Append(Name[f], suffix)) = Len(Name[f]) + 1
      /\ Append(Name[f], suffix)[Len(Name[f]) + 1] = suffix
  BY <1>2, FrameFacts, AppendProperties
<1>4. Last(Append(Name[f], suffix)) = suffix
  BY <1>3 DEF Last
<1>5. \A g \in Frames : Name[g] # Append(Name[f], suffix)
  BY <1>4, FrameFacts
<1>6. \A g \in Frames : Name[g] = Name[f] => g = f
  BY FramesAssumption
<1> QED BY <1>1, <1>3, <1>5, <1>6

(* An answer comes back with its kind, its address and its payload. *)
LEMMA AnswerReturns ==
  ASSUME NEW f \in Frames, NEW name \in Seq(Words), NEW channel \in Channels,
         NEW kind \in Kinds, NEW payload, NEW sequence \in {f, None}, NEW m,
         m = FromWire(ToWire(Message(kind, EncodeFrameAddress(f, name, channel),
                                     payload, sequence)))
  PROVE  /\ m.kind = kind /\ m.payload = payload
         /\ DecodeFrameAddress(m.name).name = name
         /\ (sequence = f \/ ~Binary) => SequenceOf(m, DecodeFrameAddress(m.name)) = f
<1> DEFINE raw == EncodeFrameAddress(f, name, channel)
           x == Message(kind, raw, payload, sequence)
<1>1. f \in 0..9 /\ f \in Nat /\ f # None
  BY FrameFacts
<1>2. /\ DecodeFrameAddress(raw) = [sequence |-> f, name |-> name]
      /\ raw \in Seq(Words) \ {<<>>}
  BY <1>1, AddressReturns
<1> HIDE DEF raw
<1>3. x.kind = kind /\ x.name = raw /\ x.payload = payload /\ x.sequence = sequence
  BY DEF Message
<1> HIDE DEF x
<1>4. CASE Binary
  <2>1. sequence \in Nat \union {None}
    BY <1>1
  <2>2. /\ m.kind = kind /\ m.name = raw /\ m.payload = payload
        /\ m.sequence = Or(sequence, 0)
    BY <1>4, <2>1, BinaryReturns DEF FromWire, ToWire, x, raw
  <2>3. Or(f, 0) = f
    BY <1>1 DEF Or
  <2> QED BY <1>1, <1>2, <1>4, <2>2, <2>3 DEF SequenceOf
<1>5. CASE ~Binary
  <2>1. m = Message(kind, raw, payload, None)
    <3>1. FromText(ToText(x)) = Message(x.kind, x.name, x.payload, None)
      BY <1>2, <1>3, TextReturns
    <3> QED BY <1>3, <1>5, <3>1 DEF FromWire, ToWire, x, raw
  <2>2. m.kind = kind /\ m.name = raw /\ m.payload = payload /\ m.sequence = None
    BY <2>1 DEF Message
  <2> QED BY <1>2, <2>2 DEF SequenceOf
<1> QED BY <1>4, <1>5

LEMMA Triple ==
  ASSUME NEW a, NEW b, NEW c
  PROVE  <<a>> \o <<b>> \o <<c>> = <<a, b, c>>
<1> DEFINE S == {a, b, c}
<1>1. <<a>> \in Seq(S) /\ <<b>> \in Seq(S) /\ <<c>> \in Seq(S) /\ <<a, b, c>> \in Seq(S)
  OBVIOUS
<1>2. /\ Len(<<a>>) = 1 /\ Len(<<b>>) = 1 /\ Len(<<c>>) = 1 /\ Len(<<a, b, c>>) = 3
      /\ <<a>>[1] = a /\ <<b>>[1] = b /\ <<c>>[1] = c
      /\ <<a, b, c>>[1] = a /\ <<a, b, c>>[2] = b /\ <<a, b, c>>[3] = c
  OBVIOUS
<1> HIDE DEF S
<1> DEFINE ab == <<a>> \o <<b>>
           abc == ab \o <<c>>
<1>3. ab \in Seq(S) /\ Len(ab) = 2 /\ ab[1] = a /\ ab[2] = b
  BY <1>1, <1>2, ConcatProperties
<1> HIDE DEF ab
<1>4. abc \in Seq(S) /\ Len(abc) = 3 /\ abc[1] = a /\ abc[2] = b /\ abc[3] = c
  BY <1>1, <1>2, <1>3, ConcatProperties
<1>5. \A i \in 1..3 : abc[i] = <<a, b, c>>[i]
  <2>1. \A i \in 1..3 : i = 1 \/ i = 2 \/ i = 3
    OBVIOUS
  <2> QED BY <1>2, <1>4, <2>1
<1> HIDE DEF abc
<1>6. abc = <<a, b, c>>
  BY <1>1, <1>2, <1>4, <1>5, SeqEqual
<1> QED BY <1>6 DEF abc, ab

(* A response is parsed to what was composed. *)
LEMMA ResponseReturns ==
  ASSUME NEW f, NEW sequence, NEW stamp
  PROVE  ParseResponse(ComposeResponse(sequence, stamp, Points(f), Metrics))
           = [sequence |-> sequence, stamp |-> stamp, decoded |-> Points(f)]
<1> DEFINE body == <<<<"response", sequence, stamp, 1, 1>>, <<"points", f>>, <<"metrics">>>>
<1>1. ComposeResponse(sequence, stamp, Points(f), Metrics) = body
  <2>1. Len(Points(f)) = 1 /\ Len(Metrics) = 1
    BY DEF Points, Metrics
  <2>2. <<<<"response", sequence, stamp, 1, 1>>>> \o <<<<"points", f>>>> \o <<<<"metrics">>>>
          = body
    BY Triple
  <2> QED BY <2>1, <2>2 DEF ComposeResponse, Points, Metrics
<1>2. /\ body # <<>> /\ Len(body) = 3 /\ body[1][1] = "response" /\ body[1][2] = sequence
      /\ body[1][3] = stamp /\ body[1][4] = 1 /\ body[1][5] = 1
  OBVIOUS
<1>3. SubSeq(body, 2, 2) = Points(f)
  <2> DEFINE S == {body[1], body[2], body[3]}
  <2>1. body \in Seq(S)
    OBVIOUS
  <2>2. body[2] = <<"points", f>> /\ \A i \in 2..2 : body[i] \in S
    OBVIOUS
  <2> HIDE DEF body, S
  <2>3. /\ SubSeq(body, 2, 2) \in Seq(S) /\ Len(SubSeq(body, 2, 2)) = 1
        /\ \A i \in 1..1 : SubSeq(body, 2, 2)[i] = body[2 + i - 1]
    BY <2>2, SubSeqProperties
  <2>4. <<body[2]>> \in Seq(S) /\ Len(<<body[2]>>) = 1 /\ <<body[2]>>[1] = body[2]
    BY DEF S
  <2>5. SubSeq(body, 2, 2) = <<body[2]>>
    <3>1. \A i \in 1..1 : SubSeq(body, 2, 2)[i] = <<body[2]>>[i]
      BY <2>3, <2>4
    <3> QED BY <2>3, <2>4, <3>1, SeqEqual
  <2> QED BY <2>2, <2>5 DEF Points
<1> HIDE DEF body
<1>4. ParseResponse(body) = [sequence |-> sequence, stamp |-> stamp, decoded |-> Points(f)]
  <2>1. ~(body = <<>> \/ body[1][1] # "response" \/ Len(body) - 1 < body[1][4] + body[1][5])
    BY <1>2
  <2>2. body[1][4] + 1 = 2
    BY <1>2
  <2> QED BY <1>2, <1>3, <2>1, <2>2 DEF ParseResponse
<1> QED BY <1>1, <1>4

(* What the client reads of an answer of the pipeline. *)
LEMMA PipelineAnswer ==
  ASSUME setting \in Settings, NEW d \in FromPipeline, d # Closed, NEW m,
         m = FromWire(d.bytes)
  PROVE  /\ d.about \in Frames /\ m.kind \in {"ack", "error", "data"}
         /\ Tells(m, d.about)
         /\ m.kind = "data" => \A x \in Publication(m, d.about) : Exact(x)
<1>1. CASE d \in {Answer(Ack(Made(f)), f) : f \in Decodable}
  <2>1. PICK f \in Decodable : d = Answer(Ack(Made(f)), f)
    BY <1>1
  <2>2. f \in Frames
    BY DEF Decodable
  <2>3. /\ d.about = f
        /\ m = FromWire(ToWire(Message("ack", EncodeFrameAddress(f, Name[f], "control"),
                                       <<>>, f)))
    BY <2>1 DEF Answer, Ack, Made
  <2>4. Name[f] \in Seq(Words) /\ "control" \in Channels /\ "ack" \in Kinds
    BY <2>2, FrameFacts DEF Channels, Kinds
  <2>5. m.kind = "ack" /\ SequenceOf(m, DecodeFrameAddress(m.name)) = f
    BY <2>2, <2>3, <2>4, AnswerReturns
  <2> QED BY <2>2, <2>3, <2>5 DEF Tells
<1>2. CASE d \in {Answer(ErrorReply(Made(f)), f) : f \in Decodable}
  <2>1. PICK f \in Decodable : d = Answer(ErrorReply(Made(f)), f)
    BY <1>2
  <2>2. f \in Frames
    BY DEF Decodable
  <2>3. /\ d.about = f
        /\ m = FromWire(ToWire(Message("error", EncodeFrameAddress(f, Name[f], "control"),
                                       <<>>, f)))
    BY <2>1 DEF Answer, ErrorReply, Made
  <2>4. Name[f] \in Seq(Words) /\ "control" \in Channels /\ "error" \in Kinds
    BY <2>2, FrameFacts DEF Channels, Kinds
  <2>5. /\ m.kind = "error" /\ SequenceOf(m, DecodeFrameAddress(m.name)) = f
        /\ DecodeFrameAddress(m.name).name = Name[f]
    BY <2>2, <2>3, <2>4, AnswerReturns
  <2> QED BY <2>2, <2>3, <2>5, NameFacts DEF Tells
<1>3. CASE d \in {Answer(Reply(Made(f), Points(f)), f) : f \in Decodable}
  <2>1. PICK f \in Decodable : d = Answer(Reply(Made(f), Points(f)), f)
    BY <1>3
  <2>2. f \in Frames /\ f \in Nat /\ f # None
    BY FrameFacts DEF Decodable
  <2> DEFINE name == Append(Name[f], ".decoded.ply")
             stamp == IF Binary THEN Stamp[f] ELSE 0
             body == ComposeResponse(f, stamp, Points(f), Metrics)
  <2>3. /\ Made(f).sequence = f /\ Made(f).name = Name[f] /\ Made(f).stamp = stamp
    BY DEF Made
  <2>4. Or(Made(f).sequence, 0) = f
    BY <2>2, <2>3 DEF Or
  <2>5. /\ ReplyName(Made(f).name, ".decoded.ply") = name
        /\ name \in Seq(Words) \ {<<>>} /\ \A g \in Frames : Name[g] # name
    BY <2>2, <2>3, NameFacts
  <2>6. Reply(Made(f), Points(f)) = Message("data", EncodeFrameAddress(f, name, "data"), body, f)
    BY <2>3, <2>4, <2>5 DEF Reply
  <2> HIDE DEF name, stamp, body
  <2>7. /\ d.about = f
        /\ m = FromWire(ToWire(Message("data", EncodeFrameAddress(f, name, "data"), body, f)))
    BY <2>1, <2>6 DEF Answer
  <2>8. "data" \in Channels /\ "data" \in Kinds
    BY DEF Channels, Kinds
  <2>9. /\ m.kind = "data" /\ SequenceOf(m, DecodeFrameAddress(m.name)) = f
        /\ DecodeFrameAddress(m.name).name = name /\ m.payload = body
    BY <2>2, <2>5, <2>7, <2>8, AnswerReturns
  <2>10. ParseResponse(m.payload) = [sequence |-> f, stamp |-> stamp, decoded |-> Points(f)]
    BY <2>9, ResponseReturns DEF body
  <2>11. \A x \in Publication(m, f) : Exact(x)
    <3>1. SUFFICES ASSUME NEW x \in Publication(m, f) PROVE Exact(x)
      OBVIOUS
    <3>2. name # <<>>
      BY <2>5
    <3>3. x = [frame |-> f, name |-> name, sequence |-> f, stamp |-> stamp,
               decoded |-> Points(f)]
      BY <2>9, <2>10, <3>2 DEF Publication
    <3>4. /\ x.frame = f /\ x.name = name /\ x.sequence = f /\ x.stamp = stamp
          /\ x.decoded = Points(f)
      BY <3>3
    <3> QED BY <3>4 DEF Exact, name, stamp
  <2>12. Tells(m, f)
    BY <2>5, <2>9 DEF Tells
  <2> QED BY <2>2, <2>7, <2>9, <2>11, <2>12
<1> QED BY <1>1, <1>2, <1>3 DEF FromPipeline

(* What it reads of an answer of the legacy loop: nothing that it publishes. *)
LEMMA LegacyAnswer ==
  ASSUME setting \in Settings, NEW d \in FromLegacy, NEW m,
         m = FromWire(d.bytes)
  PROVE  /\ m.kind \in {"ack", "error", "data", "eof"}
         /\ m.kind = "data" => \A f : Publication(m, f) = {}
         /\ ~Binary /\ m.kind # "eof" => d.about \in Frames /\ Tells(m, d.about)
<1>1. CASE d \in {Answer(LegacyAck(f), f) : f \in Frames}
  <2>1. PICK f \in Frames : d = Answer(LegacyAck(f), f)
    BY <1>1
  <2>2. /\ d.about = f
        /\ m = FromWire(ToWire(Message("ack", EncodeFrameAddress(f, Name[f], "control"),
                                       <<>>, None)))
    BY <2>1 DEF Answer, LegacyAck
  <2>3. Name[f] \in Seq(Words) /\ "control" \in Channels /\ "ack" \in Kinds
    BY FrameFacts DEF Channels, Kinds
  <2>4. /\ m.kind = "ack"
        /\ ~Binary => SequenceOf(m, DecodeFrameAddress(m.name)) = f
    BY <2>2, <2>3, AnswerReturns
  <2> QED BY <2>2, <2>4 DEF Tells
<1>2. CASE d \in {Answer(LegacyError(f), f) : f \in Frames}
  <2>1. PICK f \in Frames : d = Answer(LegacyError(f), f)
    BY <1>2
  <2>2. /\ d.about = f
        /\ m = FromWire(ToWire(Message("error", EncodeFrameAddress(f, Name[f], "control"),
                                       <<>>, None)))
    BY <2>1 DEF Answer, LegacyError
  <2>3. Name[f] \in Seq(Words) /\ "control" \in Channels /\ "error" \in Kinds
    BY FrameFacts DEF Channels, Kinds
  <2>4. /\ m.kind = "error" /\ DecodeFrameAddress(m.name).name = Name[f]
        /\ ~Binary => SequenceOf(m, DecodeFrameAddress(m.name)) = f
    BY <2>2, <2>3, AnswerReturns
  <2> QED BY <2>2, <2>4, NameFacts DEF Tells
<1>3. CASE d \in {Answer(LegacyReply(f), f) : f \in Frames}
  <2>1. PICK f \in Frames : d = Answer(LegacyReply(f), f)
    BY <1>3
  <2> DEFINE name == Append(Name[f], ".decoded")
  <2>2. name \in Seq(Words) /\ \A g \in Frames : Name[g] # name
    BY NameFacts
  <2> HIDE DEF name
  <2>3. /\ d.about = f
        /\ m = FromWire(ToWire(Message("data", EncodeFrameAddress(f, name, "data"),
                                       Points(f), None)))
    BY <2>1 DEF Answer, LegacyReply, name
  <2>4. "data" \in Channels /\ "data" \in Kinds
    BY DEF Channels, Kinds
  <2>5. /\ m.kind = "data" /\ DecodeFrameAddress(m.name).name = name
        /\ m.payload = Points(f)
        /\ ~Binary => SequenceOf(m, DecodeFrameAddress(m.name)) = f
    BY <2>2, <2>3, <2>4, AnswerReturns
  <2>6. Points(f)[1][1] # "response"
    BY DEF Points
  <2>7. ParseResponse(m.payload) = None
    BY <2>5, <2>6 DEF ParseResponse
  <2>8. \A g : Publication(m, g) = {}
    BY <2>7 DEF Publication
  <2> QED BY <2>2, <2>3, <2>5, <2>8 DEF Tells
<1>4. CASE d = Answer(Eof, None)
  <2>1. m = FromWire(ToWire(Eof))
    BY <1>4 DEF Answer
  <2>2. m.kind = "eof"
    BY <2>1, EofReturns
  <2> QED BY <2>2
<1> QED BY <1>1, <1>2, <1>3, <1>4 DEF FromLegacy

(* A reply is matched with the frame it is about, or with none. *)
LEMMA CandidateIs ==
  ASSUME NEW m, NEW f \in Frames, Tells(m, f), m.kind # "ack", inflight \subseteq Frames
  PROVE  Candidate(m) \in {f, None}
<1> DEFINE name == DecodeFrameAddress(m.name).name
           sequence == SequenceOf(m, DecodeFrameAddress(m.name))
<1>1. sequence = f /\ \A g \in Frames : Name[g] = name => g = f
  BY DEF Tells
<1>2. Candidate(m) = IF f \in inflight THEN f
                     ELSE IF NameMatches(name) # {}
                     THEN CHOOSE g \in inflight : g \in NameMatches(name)
                     ELSE None
  BY <1>1 DEF Candidate
<1> HIDE DEF name, sequence
<1>3. CASE f \in inflight
  BY <1>2, <1>3
<1>4. CASE f \notin inflight
  <2>1. NameMatches(name) = {}
    BY <1>1, <1>4 DEF NameMatches
  <2> QED BY <1>2, <1>4, <2>1
<1> QED BY <1>3, <1>4

-----------------------------------------------------------------------------
(* The inductive invariant *)

JobSet == {Made(f) : f \in Decodable}
Outcomes ==
  {[job |-> Made(f), decoded |-> None] : f \in Decodable}
    \union {[job |-> Made(f), decoded |-> Points(f)] : f \in Decodable}
Working == {[at |-> a, job |-> j] : a \in {"written", "run"}, j \in JobSet}
WorkSet == {Idle, [at |-> "left"]} \union Working

(* A file holds what its name says, for every frame of that name. *)
FilesHold ==
  \A x \in DOMAIN disk : \E f \in Decodable :
    \/ x = Drc(Made(f)) /\ disk[x] = Made(f).payload
    \/ x = Ply(Made(f)) /\ disk[x] = Points(f)

HoldInv ==
  /\ setting \in Settings
  /\ inflight \subseteq Frames
  /\ down \in Seq(Answers)
  /\ decodeQ \in Seq(JobSet) /\ sendQ \in Seq(Outcomes)
  /\ work \in [Workers -> WorkSet]
  /\ jobs \in Seq(JobSet)
  /\ FilesHold

(* Where the transmission is: at which fragment of which frame, or before or *)
(* after the end.                                                            *)
Places ==
  {q \in Nat \X Nat : q[1] \in Frames /\ q[2] \in 1..Total(q[1])}
    \union {<<Count, 1>>, <<Count, 2>>}
Follower(q) ==
  IF q[1] \in Frames
  THEN IF q[2] < Total(q[1]) THEN <<q[1], q[2] + 1>> ELSE <<q[1] + 1, 1>>
  ELSE <<Count, 2>>

(* network_sender has the rest of its frame before it. *)
SenderInv ==
  /\ next \in 0..Count
  /\ \/ sender = "idle"
     \/ sender = "sent" /\ next < Count
     \/ sender = "eof" /\ next = Count
     \/ /\ sender = "sending" /\ next < Count
        /\ outbox \in Seq({Messages(next)[i] : i \in 1..Total(next)})
        /\ Len(outbox) \in 1..Total(next)
        /\ \A k \in 1..Len(outbox) :
             outbox[k] = Messages(next)[Total(next) - Len(outbox) + k]
SenderAt ==
  IF sender = "sending" THEN <<next, Total(next) - Len(outbox) + 1>>
  ELSE IF sender = "sent" THEN <<next + 1, 1>>
  ELSE IF sender = "eof" THEN <<Count, 2>>
  ELSE <<next, 1>>

Sent(q) == IF q[1] \in Frames THEN ToWire(Messages(q[1])[q[2]]) ELSE ToWire(Eof)
Wires == {Sent(q) : q \in Places}

(* The wire holds what was sent between the place of the server, p[1], and   *)
(* that of the sender.                                                       *)
Line(p) ==
  /\ p \in [1..(Len(up) + 1) -> Places]
  /\ \A k \in 1..Len(up) : p[k + 1] = Follower(p[k]) /\ up[k] = Sent(p[k])
  /\ p[Len(up) + 1] = SenderAt

(* The pipeline has what it was sent of the frame under way, and has made    *)
(* its jobs of the frames before it.                                         *)
Gathered(f, n) ==
  /\ DOMAIN partial = {f}
  /\ partial[f].total = Stated(f)
  /\ DOMAIN partial[f].chunks = 0..(n - 1)
  /\ \A k \in 0..(n - 1) : partial[f].chunks[k] = Part(f, k + 1)
Heard(q) ==
  /\ q[1] \in Frames => q[2] <= Stated(q[1]) + 1
  /\ IF q[1] \in Frames /\ Binary /\ q[2] \in 2..Stated(q[1])
     THEN Gathered(q[1], q[2] - 1)
     ELSE DOMAIN partial = {}
  /\ \A n \in 1..Len(jobs) :
       \/ jobs[n].sequence < q[1]
       \/ jobs[n].sequence = q[1] /\ q[2] > Stated(q[1])
WireInv ==
  /\ up \in Seq(Wires)
  /\ \E p : Line(p) /\ (setting.handler = "pipeline" /\ serving = "open" => Heard(p[1]))

(* One job per frame. *)
JobsDiffer ==
  \A i, j \in 1..Len(jobs) : jobs[i].sequence = jobs[j].sequence => i = j

IInv ==
  /\ HoldInv /\ SenderInv /\ WireInv /\ JobsDiffer
  /\ AnswersMatch /\ PublishedExact

-----------------------------------------------------------------------------
(* What the command lines determine does not change. *)
LEMMA Stays ==
  ASSUME setting' = setting
  PROVE  /\ Binary' = Binary
         /\ \A f : /\ Total(f)' = Total(f) /\ Stated(f)' = Stated(f)
                   /\ Made(f)' = Made(f) /\ Messages(f)' = Messages(f)
         /\ \A f, i : Part(f, i)' = Part(f, i)
         /\ \A m : ToWire(m)' = ToWire(m)
         /\ \A q : Sent(q)' = Sent(q) /\ Follower(q)' = Follower(q)
         /\ Places' = Places /\ Wires' = Wires
         /\ Decodable' = Decodable /\ JobSet' = JobSet /\ Outcomes' = Outcomes
         /\ WorkSet' = WorkSet /\ Answers' = Answers
<1>1. Binary' = Binary
  BY DEF Binary
<1>2. FragmentSize' = FragmentSize
  BY DEF FragmentSize, Binary
<1>3. \A f : Total(f)' = Total(f)
  BY <1>2 DEF Total
<1>4. \A f : Stated(f)' = Stated(f)
  BY <1>1, <1>3 DEF Stated
<1>5. \A f : Made(f)' = Made(f)
  BY <1>1, <1>2, <1>4 DEF Made
<1>6. \A f, i : Part(f, i)' = Part(f, i)
  BY <1>2 DEF Part
<1>7. \A f : Messages(f)' = Messages(f)
  BY DEF Messages, Binary
<1>8. \A m : ToWire(m)' = ToWire(m)
  BY <1>1 DEF ToWire
<1>9. Decodable' = Decodable
  BY <1>4 DEF Decodable
<1>10. JobSet' = JobSet
  BY <1>5, <1>9 DEF JobSet
<1>11. Outcomes' = Outcomes
  BY <1>5, <1>9 DEF Outcomes
<1>12. WorkSet' = WorkSet
  BY <1>10 DEF WorkSet, Working
<1>13. \A q : Follower(q)' = Follower(q)
  BY <1>3 DEF Follower
<1>14. Places' = Places
  BY <1>3 DEF Places
<1>15. \A q : Sent(q)' = Sent(q)
  BY <1>7, <1>1 DEF Sent, ToWire
<1>16. Wires' = Wires
  BY <1>14, <1>15 DEF Wires
<1>17. Answers' = Answers
  BY <1>1, <1>5, <1>9 DEF Answers, FromPipeline, FromLegacy, Answer, ToWire
<1> QED BY <1>1, <1>3, <1>4, <1>5, <1>6, <1>7, <1>8, <1>9, <1>10, <1>11, <1>12, <1>13,
           <1>14, <1>15, <1>16, <1>17

LEMMA PlaceFacts ==
  ASSUME setting \in Settings, NEW q \in Places
  PROVE  /\ Follower(q) \in Places /\ Sent(q) \in Wires
         /\ q[1] \in Nat /\ q[2] \in Nat \ {0}
         /\ q[1] \in Frames => q[2] \in 1..Total(q[1]) /\ q[1] < Count
         /\ q[1] \notin Frames => q[1] = Count
<1>1. Count \in 1..10 /\ Frames = 0..(Count - 1)
  BY FramesAssumption DEF Frames
<1>2. Sent(q) \in Wires
  BY DEF Wires
<1>3. CASE q \in Nat \X Nat /\ q[1] \in Frames /\ q[2] \in 1..Total(q[1])
  <2>1. Total(q[1]) \in Nat \ {0} /\ q[1] < Count
    BY <1>3, TotalFacts, FrameFacts
  <2>2. CASE q[2] < Total(q[1])
    <3>1. Follower(q) = <<q[1], q[2] + 1>>
      BY <1>3, <2>2 DEF Follower
    <3>2. q[2] + 1 \in 1..Total(q[1]) /\ q[2] + 1 \in Nat
      BY <1>3, <2>1, <2>2
    <3> QED BY <1>2, <1>3, <2>1, <3>1, <3>2 DEF Places
  <2>3. CASE ~(q[2] < Total(q[1]))
    <3>1. Follower(q) = <<q[1] + 1, 1>>
      BY <1>3, <2>3 DEF Follower
    <3>2. CASE q[1] + 1 \in Frames
      <4>1. Total(q[1] + 1) \in Nat \ {0}
        BY <3>2, TotalFacts
      <4> QED BY <1>2, <1>3, <2>1, <3>1, <3>2, <4>1 DEF Places
    <3>3. CASE q[1] + 1 \notin Frames
      <4>1. q[1] + 1 = Count
        BY <1>1, <1>3, <3>3
      <4> QED BY <1>2, <1>3, <2>1, <3>1, <4>1 DEF Places
    <3> QED BY <3>2, <3>3
  <2> QED BY <2>2, <2>3
<1>4. CASE q \in {<<Count, 1>>, <<Count, 2>>}
  <2>1. q[1] = Count /\ q[2] \in {1, 2} /\ Count \notin Frames
    BY <1>1, <1>4
  <2>2. Follower(q) = <<Count, 2>>
    BY <2>1 DEF Follower
  <2>3. Follower(q) \in Places
    BY <2>2 DEF Places
  <2> QED BY <1>1, <1>2, <2>1, <2>3
<1> QED BY <1>3, <1>4 DEF Places

(* The transmission is not touched, and the reader goes no further. *)
LEMMA WireStays ==
  ASSUME HoldInv, SenderInv, WireInv, setting' = setting,
         UNCHANGED <<sender, outbox, next, up>>,
         serving' = "open" => UNCHANGED <<serving, partial, jobs>>
  PROVE  SenderInv' /\ WireInv'
<1>1. SenderInv'
  BY Stays DEF SenderInv
<1>2. up' \in Seq(Wires')
  BY Stays DEF WireInv
<1>3. PICK p : Line(p) /\ (setting.handler = "pipeline" /\ serving = "open" => Heard(p[1]))
  BY DEF WireInv
<1>4. SenderAt' = SenderAt
  BY Stays DEF SenderAt
<1>5. Line(p)'
  BY <1>3, <1>4, Stays DEF Line
<1>6. ASSUME setting.handler = "pipeline", serving' = "open" PROVE Heard(p[1])'
  <2>1. Heard(p[1]) /\ UNCHANGED <<serving, partial, jobs>>
    BY <1>3, <1>6
  <2> QED BY <2>1, Stays DEF Heard, Gathered
<1> QED BY <1>1, <1>2, <1>5, <1>6 DEF WireInv

(* The server takes the first message, at place p[1]. *)
LEMMA LineMoves ==
  ASSUME setting \in Settings, setting' = setting, NEW p, Line(p),
         up \in Seq(Wires), up # <<>>, up' = Tail(up),
         UNCHANGED <<sender, outbox, next>>
  PROVE  /\ p[1] \in Places /\ Head(up) = Sent(p[1])
         /\ up' \in Seq(Wires')
         /\ \E r : Line(r)' /\ r[1] = Follower(p[1])
<1>1. Len(up) \in Nat \ {0} /\ 1 \in 1..Len(up)
  BY EmptySeq, LenProperties
<1>2. /\ up' \in Seq(Wires) /\ Len(up') = Len(up) - 1
      /\ \A k \in 1..Len(up') : up'[k] = up[k + 1]
  BY HeadTailProperties
<1>3. Head(up) = up[1]
  BY <1>1
<1>4. p \in [1..(Len(up) + 1) -> Places]
  BY DEF Line
<1>5. p[1] \in Places /\ up[1] = Sent(p[1]) /\ p[1 + 1] = Follower(p[1])
  BY <1>1, <1>4 DEF Line
<1>r. PICK r : r = [k \in 1..(Len(up') + 1) |-> p[k + 1]]
  OBVIOUS
<1>6. SenderAt' = SenderAt
  BY Stays DEF SenderAt
<1>7. Line(r)'
  <2>1. r \in [1..(Len(up') + 1) -> Places']
    <3>1. \A k \in 1..(Len(up') + 1) : k + 1 \in 1..(Len(up) + 1)
      BY <1>1, <1>2
    <3> QED BY <1>4, <3>1, <1>r, Stays
  <2>2. ASSUME NEW k \in 1..Len(up')
        PROVE  r[k + 1] = Follower(r[k])' /\ up'[k] = Sent(r[k])'
    <3>1. k + 1 \in 1..Len(up) /\ k + 1 \in 1..(Len(up') + 1) /\ k \in 1..(Len(up') + 1)
      BY <1>1, <1>2
    <3>2. p[k + 1 + 1] = Follower(p[k + 1]) /\ up[k + 1] = Sent(p[k + 1])
      BY <3>1 DEF Line
    <3>3. r[k + 1] = p[k + 1 + 1] /\ r[k] = p[k + 1]
      BY <3>1, <1>r
    <3> QED BY <3>2, <3>3, <1>2, Stays
  <2>3. r[Len(up') + 1] = SenderAt'
    <3>1. Len(up') + 1 \in 1..(Len(up') + 1) /\ Len(up') + 1 + 1 = Len(up) + 1
      BY <1>1, <1>2
    <3>2. p[Len(up) + 1] = SenderAt
      BY DEF Line
    <3> QED BY <3>1, <3>2, <1>6, <1>r
  <2> QED BY <2>1, <2>2, <2>3 DEF Line
<1>8. r[1] = Follower(p[1])
  <2>1. 1 \in 1..(Len(up') + 1) /\ 1 + 1 = 2
    BY <1>1, <1>2
  <2> QED BY <2>1, <1>5, <1>r
<1> QED BY <1>2, <1>3, <1>5, <1>7, <1>8, Stays

(* The sender puts one message more on the wire. *)
LEMMA LineGrows ==
  ASSUME setting \in Settings, setting' = setting, NEW p, Line(p), up \in Seq(Wires),
         up' = Append(up, Sent(SenderAt)), SenderAt' = Follower(SenderAt)
  PROVE  up' \in Seq(Wires') /\ \E r : Line(r)' /\ r[1] = p[1]
<1>1. Len(up) \in Nat
  OBVIOUS
<1>2. p \in [1..(Len(up) + 1) -> Places] /\ p[Len(up) + 1] = SenderAt
  BY DEF Line
<1>3. SenderAt \in Places
  BY <1>1, <1>2
<1>4. Sent(SenderAt) \in Wires /\ Follower(SenderAt) \in Places
  BY <1>3, PlaceFacts
<1>5. /\ up' \in Seq(Wires) /\ Len(up') = Len(up) + 1
      /\ \A k \in 1..Len(up) : up'[k] = up[k]
      /\ up'[Len(up) + 1] = Sent(SenderAt)
  BY <1>4, AppendProperties
<1>r. PICK r : r = [k \in 1..(Len(up') + 1) |->
                      IF k = Len(up) + 2 THEN Follower(SenderAt) ELSE p[k]]
  OBVIOUS
<1>6. \A k \in 1..(Len(up) + 1) : r[k] = p[k]
  BY <1>1, <1>5, <1>r
<1>7. r[Len(up) + 2] = Follower(SenderAt)
  BY <1>1, <1>5, <1>r
<1>8. r \in [1..(Len(up') + 1) -> Places']
  <2>1. \A k \in 1..(Len(up') + 1) : k # Len(up) + 2 => k \in 1..(Len(up) + 1)
    BY <1>1, <1>5
  <2> QED BY <1>2, <1>4, <2>1, <1>r, Stays
<1>9. ASSUME NEW k \in 1..Len(up')
      PROVE  r[k + 1] = Follower(r[k])' /\ up'[k] = Sent(r[k])'
  <2>1. CASE k \in 1..Len(up)
    <3>1. k \in 1..(Len(up) + 1) /\ k + 1 \in 1..(Len(up) + 1)
      BY <1>1, <2>1
    <3>2. p[k + 1] = Follower(p[k]) /\ up[k] = Sent(p[k])
      BY <2>1 DEF Line
    <3> QED BY <1>5, <1>6, <2>1, <3>1, <3>2, Stays
  <2>2. CASE k = Len(up) + 1
    <3>1. r[k] = SenderAt /\ k + 1 = Len(up) + 2
      BY <1>1, <1>2, <1>6, <2>2
    <3> QED BY <1>5, <1>7, <2>2, <3>1, Stays
  <2> QED BY <1>1, <1>5, <2>1, <2>2
<1>10. r[Len(up') + 1] = SenderAt'
  <2>1. Len(up') + 1 = Len(up) + 2
    BY <1>1, <1>5
  <2> QED BY <1>7, <2>1
<1>11. Line(r)'
  BY <1>8, <1>9, <1>10 DEF Line
<1>12. r[1] = p[1]
  BY <1>1, <1>6
<1> QED BY <1>5, <1>11, <1>12, Stays

(* What an action leaves alone stays as it should be. *)
LEMMA HoldStays ==
  ASSUME HoldInv, setting' = setting, inflight' \subseteq Frames,
         UNCHANGED <<down, decodeQ, sendQ, work, jobs, disk>>
  PROVE  HoldInv'
<1>1. FilesHold'
  BY Stays DEF HoldInv, FilesHold
<1> QED BY <1>1, Stays DEF HoldInv

LEMMA ResultsStay ==
  ASSUME AnswersMatch, PublishedExact, setting' = setting, UNCHANGED results
  PROVE  AnswersMatch' /\ PublishedExact'
BY DEF AnswersMatch, PublishedExact, results, Binary

LEMMA InitInv == Init => IInv
<1> SUFFICES ASSUME Init PROVE IInv
  OBVIOUS
<1>1. Count \in 1..10 /\ 0 \in Frames /\ 0 \in 0..Count
  BY FramesAssumption DEF Frames
<1>2. setting \in Settings
  BY DEF Init
<1>3. HoldInv
  <2>1. work \in [Workers -> WorkSet]
    BY DEF Init, WorkSet
  <2>2. FilesHold
    <3>1. DOMAIN disk = {}
      BY DEF Init
    <3> QED BY <3>1 DEF FilesHold
  <2>3. /\ down \in Seq(Answers) /\ decodeQ \in Seq(JobSet) /\ sendQ \in Seq(Outcomes)
        /\ jobs \in Seq(JobSet) /\ inflight \subseteq Frames
    BY EmptySeq DEF Init
  <2> QED BY <1>2, <2>1, <2>2, <2>3 DEF HoldInv
<1>4. SenderInv
  BY <1>1 DEF Init, SenderInv
<1>5. WireInv
  <2> DEFINE p == [k \in 1..1 |-> <<0, 1>>]
  <2>1. up \in Seq(Wires) /\ Len(up) = 0
    BY EmptySeq DEF Init
  <2>2. <<0, 1>> \in Places
    <3>1. 1 \in 1..Total(0)
      BY <1>1, <1>2, TotalFacts
    <3> QED BY <1>1, <3>1 DEF Places
  <2>3. SenderAt = <<0, 1>>
    BY DEF Init, SenderAt
  <2>4. Line(p)
    BY <2>1, <2>2, <2>3 DEF Line
  <2>5. Heard(p[1])
    <3>1. p[1] = <<0, 1>> /\ DOMAIN partial = {} /\ Len(jobs) = 0
      BY EmptySeq DEF Init
    <3>2. 1 <= Stated(0) + 1 /\ 1 \notin 2..Stated(0)
      BY <1>1, <1>2, TotalFacts
    <3> HIDE DEF p
    <3> QED BY <3>1, <3>2 DEF Heard
  <2> HIDE DEF p
  <2> QED BY <2>1, <2>4, <2>5 DEF WireInv
<1>6. JobsDiffer
  BY EmptySeq DEF Init, JobsDiffer
<1>7. AnswersMatch /\ PublishedExact
  BY DEF Init, AnswersMatch, PublishedExact
<1> QED BY <1>3, <1>4, <1>5, <1>6, <1>7 DEF IInv

-----------------------------------------------------------------------------
(* The client's sender *)

LEMMA BeginFrameKeeps ==
  ASSUME IInv, BeginFrame
  PROVE  IInv'
<1>1. setting \in Settings /\ setting' = setting
  BY DEF IInv, HoldInv, BeginFrame
<1>2. next \in Frames
  BY FramesAssumption DEF IInv, SenderInv, BeginFrame, Frames
<1>3. HoldInv'
  BY HoldStays DEF IInv, HoldInv, BeginFrame, server
<1>4. outbox' = Messages(next) /\ Len(outbox') = Total(next) /\ Total(next) \in Nat \ {0}
  BY <1>1, <1>2, TotalFacts DEF BeginFrame
<1>5. SenderInv'
  <2>1. outbox' \in Seq({Messages(next)[i] : i \in 1..Total(next)})
    <3>1. DOMAIN Messages(next) = 1..Total(next)
      BY <1>1, <1>2, TotalFacts
    <3>2. Messages(next) = [i \in 1..Total(next) |-> Messages(next)[i]]
      <4>1. Messages(next) = [i \in DOMAIN Messages(next) |-> Messages(next)[i]]
        BY DEF Messages
      <4> QED BY <3>1, <4>1
    <3> QED BY <1>4, <3>1, <3>2, IsASeq
  <2>2. \A k \in 1..Len(outbox') :
          outbox'[k] = Messages(next)[Total(next) - Len(outbox') + k]
    BY <1>4
  <2> QED BY <1>1, <1>4, <2>1, <2>2, Stays DEF IInv, SenderInv, BeginFrame
<1>6. WireInv'
  <2>1. SenderAt' = SenderAt
    BY <1>1, <1>4, Stays DEF SenderAt, BeginFrame
  <2>2. PICK p : Line(p) /\ (setting.handler = "pipeline" /\ serving = "open" => Heard(p[1]))
    BY DEF IInv, WireInv
  <2>3. Line(p)'
    BY <1>1, <2>1, <2>2, Stays DEF Line, BeginFrame
  <2>4. UNCHANGED <<serving, partial, jobs, up>>
    BY DEF BeginFrame, server
  <2>5. Heard(p[1]) => Heard(p[1])'
    BY <1>1, <2>4, Stays DEF Heard, Gathered
  <2> QED BY <1>1, <2>2, <2>3, <2>4, <2>5, Stays DEF IInv, WireInv
<1>7. JobsDiffer'
  BY DEF IInv, JobsDiffer, BeginFrame, server
<1> QED BY <1>1, <1>3, <1>5, <1>6, <1>7, ResultsStay DEF IInv, BeginFrame

LEMMA SendFragmentKeeps ==
  ASSUME IInv, SendFragment
  PROVE  IInv'
<1>1. setting \in Settings /\ setting' = setting
  BY DEF IInv, HoldInv, SendFragment
<1>2. /\ sender = "sending" /\ next < Count /\ next \in 0..Count /\ next' = next
      /\ outbox \in Seq({Messages(next)[i] : i \in 1..Total(next)})
      /\ Len(outbox) \in 1..Total(next)
      /\ \A k \in 1..Len(outbox) :
           outbox[k] = Messages(next)[Total(next) - Len(outbox) + k]
  BY DEF IInv, SenderInv, SendFragment
<1>3. next \in Frames
  BY <1>2, FramesAssumption DEF Frames
<1>4. Total(next) \in Nat \ {0} /\ Len(outbox) \in Nat \ {0} /\ outbox # <<>>
  BY <1>1, <1>2, <1>3, TotalFacts, EmptySeq
<1>5. HoldInv'
  BY HoldStays DEF IInv, HoldInv, SendFragment, server
<1>6. /\ outbox' = Tail(outbox) /\ Len(outbox') = Len(outbox) - 1
      /\ outbox' \in Seq({Messages(next)[i] : i \in 1..Total(next)})
      /\ \A k \in 1..Len(outbox') : outbox'[k] = outbox[k + 1]
      /\ sender' = IF Tail(outbox) = <<>> THEN "sent" ELSE "sending"
  BY <1>2, <1>4, HeadTailProperties DEF SendFragment
<1>7. outbox' = <<>> <=> Len(outbox) = 1
  <2> DEFINE S == {Messages(next)[i] : i \in 1..Total(next)}
  <2>1. outbox' \in Seq(S)
    BY <1>6
  <2> HIDE DEF S
  <2>2. outbox' = <<>> <=> Len(outbox') = 0
    BY <2>1, EmptySeq
  <2>3. Len(outbox') = Len(outbox) - 1 /\ Len(outbox) \in Nat \ {0}
    BY <1>4, <1>6
  <2> QED BY ONLY <2>2, <2>3
<1>8. SenderInv'
  <2>1. CASE Len(outbox) = 1
    BY <1>2, <1>6, <1>7, <2>1 DEF SenderInv
  <2>2. CASE Len(outbox) # 1
    <3>1. sender' = "sending"
      BY <1>6, <1>7, <2>2
    <3>a. Len(outbox') \in 1..Total(next)
      <4>1. Len(outbox) \in 1..Total(next) /\ Len(outbox') = Len(outbox) - 1
        BY <1>2, <1>6
      <4> QED BY ONLY <1>4, <2>2, <4>1
    <3>2. ASSUME NEW k \in 1..Len(outbox')
          PROVE  outbox'[k] = Messages(next)[Total(next) - Len(outbox') + k]
      <4>1. k + 1 \in 1..Len(outbox) /\ outbox'[k] = outbox[k + 1]
        BY <1>4, <1>6
      <4>2. Total(next) - Len(outbox) + (k + 1) = Total(next) - Len(outbox') + k
        BY <1>4, <1>6
      <4>3. outbox[k + 1] = Messages(next)[Total(next) - Len(outbox) + (k + 1)]
        BY <1>2, <4>1
      <4> QED BY <4>1, <4>2, <4>3
    <3>3. Total(next)' = Total(next) /\ Messages(next)' = Messages(next)
      BY <1>1, <1>2, Stays
    <3>4. outbox' \in Seq({Messages(next)'[i] : i \in 1..Total(next)'})
      BY <1>6, <3>3
    <3> QED BY <1>2, <3>1, <3>a, <3>2, <3>3, <3>4 DEF SenderInv
  <2> QED BY <2>1, <2>2
<1> DEFINE n == Total(next) - Len(outbox) + 1
<1>9. SenderAt = <<next, n>> /\ n \in 1..Total(next)
  BY <1>2, <1>4 DEF SenderAt
<1>10. up' = Append(up, Sent(SenderAt))
  <2>1. Head(outbox) = outbox[1]
    BY <1>4
  <2>2. outbox[1] = Messages(next)[n]
    BY <1>2, <1>4
  <2>3. up' = Append(up, ToWire(Messages(next)[n]))
    BY <2>1, <2>2 DEF SendFragment
  <2> HIDE DEF n
  <2> QED BY <1>3, <1>9, <2>3 DEF Sent
<1>11. SenderAt' = Follower(SenderAt)
  <2>1. CASE Len(outbox) = 1
    <3>1. sender' = "sent" /\ n = Total(next)
      BY <1>4, <1>6, <1>7, <2>1
    <3>2. SenderAt' = <<next + 1, 1>>
      BY <1>2, <3>1 DEF SenderAt
    <3> HIDE DEF n
    <3>3. ~(n < Total(next))
      BY <1>4, <3>1
    <3> QED BY <1>3, <1>9, <3>2, <3>3 DEF Follower
  <2>2. CASE Len(outbox) # 1
    <3>1. sender' = "sending" /\ n < Total(next)
      <4>1. sender' = "sending"
        BY <1>6, <1>7, <2>2
      <4>2. Len(outbox) \in 1..Total(next)
        BY <1>2
      <4>3. n < Total(next)
        <5>1. \A t, l \in Nat \ {0} : l # 1 => t - l + 1 < t
          OBVIOUS
        <5> QED BY ONLY <1>4, <2>2, <5>1, Zenon DEF n
      <4> QED BY <4>1, <4>3
    <3>2. Total(next) - Len(outbox') + 1 = n + 1
      BY <1>4, <1>6
    <3>3. SenderAt' = <<next, Total(next) - Len(outbox') + 1>>
      BY <1>1, <1>2, <3>1, Stays DEF SenderAt
    <3> HIDE DEF n
    <3> QED BY <1>3, <1>9, <3>1, <3>2, <3>3 DEF Follower
  <2> QED BY <2>1, <2>2
<1>12. WireInv'
  <2>1. PICK p : Line(p) /\ (setting.handler = "pipeline" /\ serving = "open" => Heard(p[1]))
    BY DEF IInv, WireInv
  <2>2. up \in Seq(Wires)
    BY DEF IInv, WireInv
  <2>3. up' \in Seq(Wires') /\ \E r : Line(r)' /\ r[1] = p[1]
    BY <1>1, <1>10, <1>11, <2>1, <2>2, LineGrows
  <2>4. UNCHANGED <<serving, partial, jobs>>
    BY DEF SendFragment, server
  <2>5. Heard(p[1]) => Heard(p[1])'
    BY <1>1, <2>4, Stays DEF Heard, Gathered
  <2>6. PICK r : Line(r)' /\ r[1] = p[1]
    BY <2>3
  <2>7. setting'.handler = "pipeline" /\ serving' = "open" => Heard(r[1])'
    BY <1>1, <2>1, <2>4, <2>5, <2>6
  <2> QED BY <2>3, <2>6, <2>7 DEF WireInv
<1>13. JobsDiffer'
  BY DEF IInv, JobsDiffer, SendFragment, server
<1> QED BY <1>1, <1>5, <1>8, <1>12, <1>13, ResultsStay DEF IInv, SendFragment

LEMMA RegisterKeeps ==
  ASSUME IInv, Register
  PROVE  IInv'
<1>1. setting \in Settings /\ setting' = setting
  BY DEF IInv, HoldInv, Register
<1>2. sender = "sent" /\ next < Count /\ next \in 0..Count
  BY DEF IInv, SenderInv, Register
<1>3. next \in Frames /\ next + 1 \in 0..Count
  BY <1>2, FramesAssumption DEF Frames
<1>4. HoldInv'
  <2>1. inflight' \subseteq Frames
    BY <1>3 DEF IInv, HoldInv, Register
  <2> QED BY <1>1, <2>1, HoldStays DEF IInv, Register, server
<1>5. SenderInv'
  BY <1>2, <1>3 DEF SenderInv, Register
<1>6. WireInv'
  <2>1. SenderAt' = SenderAt
    BY <1>2 DEF SenderAt, Register
  <2>2. PICK p : Line(p) /\ (setting.handler = "pipeline" /\ serving = "open" => Heard(p[1]))
    BY DEF IInv, WireInv
  <2>3. Line(p)'
    BY <1>1, <2>1, <2>2, Stays DEF Line, Register
  <2>4. UNCHANGED <<serving, partial, jobs, up>>
    BY DEF Register, server
  <2>5. Heard(p[1]) => Heard(p[1])'
    BY <1>1, <2>4, Stays DEF Heard, Gathered
  <2> QED BY <1>1, <2>2, <2>3, <2>4, <2>5, Stays DEF IInv, WireInv
<1>7. JobsDiffer'
  BY DEF IInv, JobsDiffer, Register, server
<1> QED BY <1>1, <1>4, <1>5, <1>6, <1>7, ResultsStay DEF IInv, Register

LEMMA SendEofKeeps ==
  ASSUME IInv, SendEof
  PROVE  IInv'
<1>1. setting \in Settings /\ setting' = setting
  BY DEF IInv, HoldInv, SendEof
<1>2. sender = "idle" /\ next = Count /\ sender' = "eof" /\ next' = next
  BY DEF IInv, SenderInv, SendEof
<1>3. Count \notin Frames /\ Count \in 0..Count
  BY FramesAssumption DEF Frames
<1>4. HoldInv'
  BY <1>1, HoldStays DEF IInv, HoldInv, SendEof, server
<1>5. SenderInv'
  BY <1>2, <1>3 DEF SenderInv
<1>6. SenderAt = <<Count, 1>> /\ SenderAt' = <<Count, 2>>
  BY <1>2 DEF SenderAt
<1>7. SenderAt' = Follower(SenderAt) /\ up' = Append(up, Sent(SenderAt))
  BY <1>3, <1>6 DEF Follower, Sent, SendEof
<1>8. WireInv'
  <2>1. PICK p : Line(p) /\ (setting.handler = "pipeline" /\ serving = "open" => Heard(p[1]))
    BY DEF IInv, WireInv
  <2>2. up \in Seq(Wires)
    BY DEF IInv, WireInv
  <2>3. up' \in Seq(Wires') /\ \E r : Line(r)' /\ r[1] = p[1]
    BY <1>1, <1>7, <2>1, <2>2, LineGrows
  <2>4. UNCHANGED <<serving, partial, jobs>>
    BY DEF SendEof, server
  <2>5. Heard(p[1]) => Heard(p[1])'
    BY <1>1, <2>4, Stays DEF Heard, Gathered
  <2>6. PICK r : Line(r)' /\ r[1] = p[1]
    BY <2>3
  <2>7. setting'.handler = "pipeline" /\ serving' = "open" => Heard(r[1])'
    BY <1>1, <2>1, <2>4, <2>5, <2>6
  <2> QED BY <2>3, <2>6, <2>7 DEF WireInv
<1>9. JobsDiffer'
  BY DEF IInv, JobsDiffer, SendEof, server
<1> QED BY <1>1, <1>4, <1>5, <1>8, <1>9, ResultsStay DEF IInv, SendEof

-----------------------------------------------------------------------------
(* The server's reader *)

(* What the server knows of a message of frame f makes the job of frame f.   *)
LEMMA JobIsMade ==
  ASSUME setting \in Settings, NEW f \in Frames, NEW m, NEW payload,
         ~Binary => m.length = None /\ m.stamp = None /\ payload = Payload(f),
         Binary => /\ m.length = Size[f] /\ m.stamp = Stamp[f]
                   /\ payload = SubSeq(Payload(f), 1, Stop(Size[f], FragmentSize, Stated(f)))
  PROVE  Job(f, Name[f], m, payload) = Made(f)
<1>1. Size[f] \in Nat \ {0} /\ Stamp[f] \in Nat /\ Size[f] # None /\ Stamp[f] # None
  BY FrameFacts, NoneAssumption
<1>2. CASE Binary
  <2>1. Or(m.length, Len(payload)) = Size[f] /\ Or(m.stamp, 0) = Stamp[f]
    BY <1>1, <1>2 DEF Or
  <2> QED BY <1>2, <2>1 DEF Job, Made
<1>3. CASE ~Binary
  <2>1. Or(m.length, Len(payload)) = Size[f] /\ Or(m.stamp, 0) = 0
    BY <1>3, PayloadFacts DEF Or
  <2>2. Stop(Size[f], FragmentSize, Stated(f)) = Size[f]
    BY <1>3, TotalFacts DEF Stop, Stated, Total
  <2>3. SubSeq(Payload(f), 1, Stop(Size[f], FragmentSize, Stated(f))) = payload
    BY <1>3, <2>2, PayloadFacts
  <2> QED BY <1>3, <2>1, <2>3 DEF Job, Made
<1> QED BY <1>2, <1>3

(* One chunk more. *)
LEMMA ChunkAdded ==
  ASSUME NEW f, NEW chunks, NEW n \in Nat, DOMAIN chunks = 0..(n - 1),
         \A k \in 0..(n - 1) : chunks[k] = Part(f, k + 1),
         NEW new, new = WithChunk(chunks, n, Part(f, n + 1))
  PROVE  /\ n \notin DOMAIN chunks /\ DOMAIN new = 0..n
         /\ \A k \in 0..n : new[k] = Part(f, k + 1)
         /\ Cardinality(DOMAIN new) = n + 1
<1>1. 0..(n - 1) \union {n} = 0..n /\ n \notin 0..(n - 1)
  OBVIOUS
<1>2. DOMAIN new = 0..n
  BY <1>1 DEF WithChunk
<1>3. \A k \in 0..n : new[k] = IF k \in 0..(n - 1) THEN chunks[k] ELSE Part(f, n + 1)
  BY <1>1 DEF WithChunk
<1>4. \A k \in 0..n : k \in 0..(n - 1) \/ k = n
  OBVIOUS
<1>5. \A k \in 0..n : new[k] = Part(f, k + 1)
  BY <1>1, <1>3, <1>4
<1>6. Cardinality(0..n) = n - 0 + 1
  <2>1. 0 \in Int /\ n \in Int /\ ~(0 > n)
    OBVIOUS
  <2>2. Cardinality(0..n) = IF 0 > n THEN 0 ELSE n - 0 + 1
    BY <2>1, FS_Interval
  <2> QED BY <2>1, <2>2
<1> QED BY <1>1, <1>2, <1>5, <1>6

(* Fragment i of frame f, read when the fragments before it are there. *)
LEMMA RecvDataIs ==
  ASSUME setting \in Settings, NEW f \in Frames, NEW i \in 1..Total(f), Heard(<<f, i>>),
         NEW m, m = FromWire(ToWire(Messages(f)[i])), m # None, RecvData(m)
  PROVE  \/ /\ ~Binary /\ i = 1 /\ Total(f) = 1 /\ Stated(f) = 1
            /\ Accept(Made(f)) /\ partial' = partial
         \/ /\ Binary /\ i = Stated(f)
            /\ Accept(Made(f)) /\ partial' = [s \in DOMAIN partial \ {f} |-> partial[s]]
         \/ /\ Binary /\ i < Stated(f) /\ DOMAIN partial' = DOMAIN partial \union {f}
            /\ partial'[f].total = Stated(f) /\ DOMAIN partial'[f].chunks = 0..(i - 1)
            /\ \A k \in 0..(i - 1) : partial'[f].chunks[k] = Part(f, k + 1)
            /\ UNCHANGED <<jobs, decodeQ, down>>
<1>1. /\ Total(f) \in Nat \ {0} /\ Stated(f) \in 0..Total(f) /\ i \in Nat \ {0}
      /\ Binary => Stated(f) < Modulus
      /\ ~Binary => Total(f) = 1 /\ Stated(f) = 1
  BY TotalFacts DEF Stated
<1>2. /\ SequenceOf(m, DecodeFrameAddress(m.name)) = f
      /\ DecodeFrameAddress(m.name).name = Name[f] /\ Name[f] # <<>>
      /\ m.payload = Part(f, i)
      /\ ~Binary => i = 1 /\ m.length = None /\ m.stamp = None /\ m.payload = Payload(f)
      /\ Binary => /\ m.fragmented /\ m.index = (i - 1) % Modulus
                   /\ m.total = Stated(f) /\ m.length = Size[f] /\ m.stamp = Stamp[f]
                   /\ Stated(f) > 0 /\ (i - 1) % Modulus < Stated(f)
  BY DataReturns, FrameFacts
<1>3. CASE ~Binary
  <2>1. Job(f, Name[f], m, m.payload) = Made(f)
    BY <1>2, <1>3, JobIsMade
  <2>2. Accept(Job(f, Name[f], m, m.payload)) /\ UNCHANGED partial
    BY <1>2, <1>3 DEF RecvData
  <2> QED BY <1>1, <1>2, <1>3, <2>1, <2>2
<1>4. CASE Binary
  <2> DEFINE old == Assembly(f, m)
             index == Or(m.index, 0)
             new == WithChunk(old.chunks, index, m.payload)
             whole == FlattenSeq([k \in 1..old.total |-> new[k - 1]])
  <2>1. i <= Stated(f)
    <3>1. i <= Stated(f) + 1
      BY DEF Heard
    <3>2. CASE i = Stated(f) + 1
      <4>1. i - 1 = Stated(f) /\ i - 1 \in Nat
        BY <1>1, <3>2
      <4>2. (i - 1) % Modulus = Stated(f)
        BY <1>1, <1>4, <4>1, ModulusAssumption, Remainder
      <4> QED BY <1>1, <1>2, <1>4, <4>2
    <3> QED BY <1>1, <3>1, <3>2
  <2>2. index = i - 1
    <3>1. i - 1 \in Nat /\ i - 1 < Modulus
      BY <1>1, <1>4, <2>1, ModulusAssumption
    <3>2. m.index = i - 1
      BY <1>2, <1>4, <3>1, ModulusAssumption, Remainder
    <3>3. i - 1 # None
      BY <3>1, NoneAssumption
    <3> QED BY <3>2, <3>3 DEF Or
  <2>3. /\ old.total = Stated(f) /\ DOMAIN old.chunks = 0..((i - 1) - 1)
        /\ \A k \in 0..((i - 1) - 1) : old.chunks[k] = Part(f, k + 1)
    <3>1. CASE i = 1
      <4>1. i \notin 2..Stated(f)
        BY <3>1
      <4>2. DOMAIN partial = {}
        BY <4>1 DEF Heard
      <4>3. old = [total |-> Or(m.total, 1), chunks |-> <<>>]
        BY <4>2 DEF Assembly
      <4>4. Or(m.total, 1) = Stated(f)
        BY <1>1, <1>2, <1>4, NoneAssumption DEF Or
      <4>5. 0..((i - 1) - 1) = {} /\ DOMAIN <<>> = {}
        BY <3>1
      <4> HIDE DEF old
      <4> QED BY <4>3, <4>4, <4>5
    <3>2. CASE i # 1
      <4>1. i \in 2..Stated(f)
        BY <1>1, <2>1, <3>2
      <4>2. Gathered(f, i - 1)
        BY <1>4, <4>1 DEF Heard
      <4>3. old = partial[f]
        BY <4>2 DEF Gathered, Assembly
      <4> QED BY <4>2, <4>3 DEF Gathered
    <3> QED BY <3>1, <3>2
  <2> HIDE DEF old, index
  <2>4. /\ index \notin DOMAIN old.chunks /\ DOMAIN new = 0..(i - 1)
        /\ \A k \in 0..(i - 1) : new[k] = Part(f, k + 1)
        /\ Cardinality(DOMAIN new) = i
    <3>1. i - 1 \in Nat /\ (i - 1) + 1 = i
      BY <1>1
    <3>2. new = WithChunk(old.chunks, i - 1, Part(f, (i - 1) + 1))
      BY <1>2, <2>2, <3>1
    <3> HIDE DEF new
    <3>3. /\ i - 1 \notin DOMAIN old.chunks /\ DOMAIN new = 0..(i - 1)
          /\ \A k \in 0..(i - 1) : new[k] = Part(f, k + 1)
          /\ Cardinality(DOMAIN new) = (i - 1) + 1
      BY <2>3, <3>1, <3>2, ChunkAdded
    <3> QED BY <2>2, <3>1, <3>3
  <2> HIDE DEF new, whole
  <2>5. \/ /\ Cardinality(DOMAIN new) = old.total
           /\ Accept(Job(f, Name[f], m, whole))
           /\ partial' = [s \in DOMAIN partial \ {f} |-> partial[s]]
        \/ /\ Cardinality(DOMAIN new) # old.total
           /\ partial' = [s \in DOMAIN partial \union {f} |->
                           IF s = f THEN [total |-> old.total, chunks |-> new]
                           ELSE partial[s]]
           /\ UNCHANGED <<jobs, decodeQ, down>>
    BY <1>2, <1>4, <2>4 DEF RecvData, old, index, new, whole
  <2>6. CASE i = Stated(f)
    <3>1. whole = SubSeq(Payload(f), 1, Stop(Size[f], FragmentSize, Stated(f)))
      <4> DEFINE s == [k \in 1..Stated(f) |-> Piece(Payload(f), FragmentSize, k)]
      <4>1. \A k \in 1..Stated(f) : new[k - 1] = Piece(Payload(f), FragmentSize, k)
        <5>1. \A k \in 1..Stated(f) : k - 1 \in 0..(i - 1) /\ (k - 1) + 1 = k
          BY <1>1, <2>6
        <5> QED BY <2>4, <5>1 DEF Part
      <4>2. whole = FlattenSeq(s)
        BY <2>3, <4>1 DEF whole
      <4>3. /\ Payload(f) \in Seq({"drc"} \X {f} \X Nat) /\ Payload(f) # <<>>
            /\ Len(Payload(f)) = Size[f] /\ FragmentSize \in Nat
        BY PayloadFacts, TotalFacts
      <4>4. Stated(f) \in 1..Number(Len(Payload(f)), FragmentSize)
        BY <1>1, <2>6, <4>3 DEF Total
      <4>5. s = [k \in 1..Stated(f) |-> Piece(Payload(f), FragmentSize, k)]
        OBVIOUS
      <4> HIDE DEF s
      <4>6. FlattenSeq(s) = SubSeq(Payload(f), 1, Stop(Len(Payload(f)), FragmentSize, Stated(f)))
        BY <4>3, <4>4, <4>5, PiecesJoin
      <4> QED BY <4>2, <4>3, <4>6
    <3>a. m.length = Size[f] /\ m.stamp = Stamp[f]
      BY <1>2, <1>4
    <3>b. /\ ~Binary => m.length = None /\ m.stamp = None /\ whole = Payload(f)
          /\ Binary => /\ m.length = Size[f] /\ m.stamp = Stamp[f]
                       /\ whole = SubSeq(Payload(f), 1, Stop(Size[f], FragmentSize, Stated(f)))
      BY <1>4, <3>1, <3>a
    <3>2. Job(f, Name[f], m, whole) = Made(f)
      BY <3>b, JobIsMade
    <3> QED BY <1>4, <2>3, <2>4, <2>5, <2>6, <3>2
  <2>7. CASE i # Stated(f)
    <3>1. i < Stated(f)
      BY <1>1, <2>1, <2>7
    <3>2. /\ partial' = [s \in DOMAIN partial \union {f} |->
                           IF s = f THEN [total |-> old.total, chunks |-> new]
                           ELSE partial[s]]
          /\ UNCHANGED <<jobs, decodeQ, down>>
      BY <2>3, <2>4, <2>5, <2>7
    <3>3. DOMAIN partial' = DOMAIN partial \union {f}
          /\ partial'[f] = [total |-> old.total, chunks |-> new]
      BY <3>2
    <3>4. partial'[f].total = Stated(f) /\ partial'[f].chunks = new
      BY <2>3, <3>3
    <3> QED BY <1>4, <2>4, <3>1, <3>2, <3>3, <3>4
  <2> QED BY <2>6, <2>7
<1> QED BY <1>3, <1>4

(* The sequence of a job is its frame. *)
LEMMA JobFacts ==
  ASSUME NEW job \in JobSet
  PROVE  job.sequence \in Decodable /\ job = Made(job.sequence) /\ job.sequence \in Nat
<1>1. PICK f \in Decodable : job = Made(f)
  BY DEF JobSet
<1>2. job.sequence = f /\ f \in Nat
  BY <1>1, FrameFacts DEF Made, Decodable
<1> QED BY <1>1, <1>2

(* A frame that is whole makes its job. *)
LEMMA AcceptMakes ==
  ASSUME HoldInv, setting' = setting, NEW f \in Decodable, Accept(Made(f))
  PROVE  /\ jobs' \in Seq(JobSet') /\ decodeQ' \in Seq(JobSet') /\ down' \in Seq(Answers')
         /\ Len(jobs) \in Nat /\ Len(jobs') = Len(jobs) + 1
         /\ \A n \in 1..Len(jobs) : jobs'[n] = jobs[n] /\ jobs[n] \in JobSet
         /\ jobs'[Len(jobs) + 1] = Made(f)
<1>1. setting \in Settings
  BY DEF HoldInv
<1>2. Made(f) \in JobSet /\ FrameOf(Made(f).payload) = f
  BY <1>1, MadeFacts DEF JobSet
<1>3. Answer(Ack(Made(f)), f) \in Answers
  BY DEF Answers, FromPipeline
<1>4. /\ jobs' = Append(jobs, Made(f)) /\ decodeQ' = Append(decodeQ, Made(f))
      /\ down' = Append(down, Answer(Ack(Made(f)), f))
  BY <1>2 DEF Accept
<1>5. jobs \in Seq(JobSet) /\ decodeQ \in Seq(JobSet) /\ down \in Seq(Answers)
  BY DEF HoldInv
<1>6. jobs' \in Seq(JobSet) /\ decodeQ' \in Seq(JobSet) /\ down' \in Seq(Answers)
  BY <1>2, <1>3, <1>4, <1>5, AppendProperties
<1>7. /\ Len(jobs) \in Nat /\ Len(jobs') = Len(jobs) + 1
      /\ \A n \in 1..Len(jobs) : jobs'[n] = jobs[n] /\ jobs[n] \in JobSet
      /\ jobs'[Len(jobs) + 1] = Made(f)
  BY <1>2, <1>4, <1>5, AppendProperties
<1> QED BY <1>6, <1>7, Stays

(* Reading on, the server has heard as much as it was sent. *)
LEMMA HeardMore ==
  ASSUME HoldInv, JobsDiffer, setting' = setting,
         NEW f \in Frames, NEW i \in 1..Total(f), Heard(<<f, i>>),
         NEW m, m = FromWire(ToWire(Messages(f)[i])), m # None, RecvData(m)
  PROVE  /\ jobs' \in Seq(JobSet') /\ decodeQ' \in Seq(JobSet') /\ down' \in Seq(Answers')
         /\ JobsDiffer' /\ Heard(Follower(<<f, i>>))'
<1>1. setting \in Settings /\ jobs \in Seq(JobSet)
  BY DEF HoldInv
<1>2. /\ Total(f) \in Nat \ {0} /\ Stated(f) \in 0..Total(f) /\ i \in Nat \ {0} /\ i <= Total(f)
      /\ f \in Nat
  BY <1>1, TotalFacts, FrameFacts
<1>3. \A n \in 1..Len(jobs) : jobs[n] \in JobSet /\ jobs[n].sequence \in Nat
  BY <1>1, JobFacts
<1>4. \A n \in 1..Len(jobs) :
        jobs[n].sequence < f \/ (jobs[n].sequence = f /\ i > Stated(f))
  BY DEF Heard
<1> DEFINE q == Follower(<<f, i>>)
<1>5. q = IF i < Total(f) THEN <<f, i + 1>> ELSE <<f + 1, 1>>
  BY DEF Follower
<1> HIDE DEF q
<1>6. f + 1 \in Frames => Stated(f + 1) \in Nat
  BY <1>1, TotalFacts
<1>7. q' = q
  BY Stays DEF q
<1>8. ASSUME i = Stated(f), Accept(Made(f)), DOMAIN partial' = DOMAIN partial \ {f},
             ~Binary => DOMAIN partial = {}
      PROVE  /\ jobs' \in Seq(JobSet') /\ decodeQ' \in Seq(JobSet') /\ down' \in Seq(Answers')
             /\ JobsDiffer' /\ Heard(q)'
  <2>1. f \in Decodable
    BY <1>2, <1>8 DEF Decodable
  <2>2. /\ jobs' \in Seq(JobSet') /\ decodeQ' \in Seq(JobSet') /\ down' \in Seq(Answers')
        /\ Len(jobs) \in Nat /\ Len(jobs') = Len(jobs) + 1
        /\ \A n \in 1..Len(jobs) : jobs'[n] = jobs[n] /\ jobs[n] \in JobSet
        /\ jobs'[Len(jobs) + 1] = Made(f)
    BY <1>8, <2>1, AcceptMakes
  <2>3. \A n \in 1..Len(jobs) : jobs'[n].sequence < f
    <3>1. ~(i > Stated(f))
      BY <1>2, <1>8
    <3>2. \A n \in 1..Len(jobs) : jobs[n].sequence < f
      BY <1>4, <3>1
    <3> QED BY <2>2, <3>2
  <2>4. jobs'[Len(jobs) + 1].sequence = f
    BY <2>2 DEF Made
  <2>5. \A n \in 1..Len(jobs') : n \in 1..Len(jobs) \/ n = Len(jobs) + 1
    BY <2>2
  <2>6. JobsDiffer'
    <3>1. ASSUME NEW a \in 1..Len(jobs'), NEW b \in 1..Len(jobs'),
                 jobs'[a].sequence = jobs'[b].sequence
          PROVE  a = b
      <4>1. CASE a \in 1..Len(jobs) /\ b \in 1..Len(jobs)
        BY <2>2, <3>1, <4>1 DEF JobsDiffer
      <4>2. CASE a \in 1..Len(jobs) /\ b = Len(jobs) + 1
        <5>1. jobs'[a].sequence < f /\ jobs'[a].sequence \in Nat
          BY <1>3, <2>2, <2>3, <4>2
        <5> QED BY <1>2, <2>4, <3>1, <4>2, <5>1
      <4>3. CASE b \in 1..Len(jobs) /\ a = Len(jobs) + 1
        <5>1. jobs'[b].sequence < f /\ jobs'[b].sequence \in Nat
          BY <1>3, <2>2, <2>3, <4>3
        <5> QED BY <1>2, <2>4, <3>1, <4>3, <5>1
      <4> QED BY <2>5, <4>1, <4>2, <4>3
    <3> QED BY <3>1 DEF JobsDiffer
  <2>7. DOMAIN partial' = {}
    <3>1. DOMAIN partial = {} \/ DOMAIN partial = {f}
      BY DEF Heard, Gathered
    <3> QED BY <1>8, <3>1
  <2>8. CASE i < Total(f)
    <3>1. q = <<f, i + 1>> /\ i + 1 = Stated(f) + 1 /\ i + 1 \notin 2..Stated(f)
      BY <1>2, <1>5, <1>8, <2>8
    <3>2. \A n \in 1..Len(jobs') : \/ jobs'[n].sequence < f
                                   \/ jobs'[n].sequence = f /\ i + 1 > Stated(f)
      BY <1>2, <1>8, <2>3, <2>4, <2>5
    <3>3. i + 1 <= Stated(f) + 1
      BY <1>2, <1>8
    <3>4. Heard(<<f, i + 1>>)'
      BY <3>1, <3>2, <3>3, <2>7, Stays DEF Heard
    <3> QED BY <2>2, <2>6, <1>7, <3>1, <3>4 DEF q
  <2>9. CASE ~(i < Total(f))
    <3>1. q = <<f + 1, 1>>
      BY <1>5, <2>9
    <3>2. \A n \in 1..Len(jobs') : jobs'[n].sequence < f + 1
      <4>1. \A n \in 1..Len(jobs) : jobs'[n].sequence \in Nat
        BY <1>3, <2>2
      <4> QED BY <1>2, <2>3, <2>4, <2>5, <4>1
    <3>3. f + 1 \in Frames => 1 <= Stated(f + 1) + 1 /\ 1 \notin 2..Stated(f + 1)
      BY <1>6
    <3>4. Heard(<<f + 1, 1>>)'
      BY <3>2, <3>3, <2>7, Stays DEF Heard
    <3> QED BY <2>2, <2>6, <1>7, <3>1, <3>4 DEF q
  <2> QED BY <2>8, <2>9
<1>9. ASSUME Binary, i < Stated(f), DOMAIN partial' = DOMAIN partial \union {f},
             partial'[f].total = Stated(f), DOMAIN partial'[f].chunks = 0..(i - 1),
             \A k \in 0..(i - 1) : partial'[f].chunks[k] = Part(f, k + 1),
             UNCHANGED <<jobs, decodeQ, down>>
      PROVE  /\ jobs' \in Seq(JobSet') /\ decodeQ' \in Seq(JobSet') /\ down' \in Seq(Answers')
             /\ JobsDiffer' /\ Heard(q)'
  <2>1. q = <<f, i + 1>> /\ i + 1 <= Stated(f) + 1 /\ i + 1 \in 2..Stated(f)
        /\ (i + 1) - 1 = i
    BY <1>2, <1>5, <1>9
  <2>2. DOMAIN partial' = {f}
    <3>1. DOMAIN partial = {} \/ DOMAIN partial = {f}
      BY DEF Heard, Gathered
    <3> QED BY <1>9, <3>1
  <2>3. Gathered(f, i)'
    BY <1>9, <2>2, Stays DEF Gathered
  <2>4. \A n \in 1..Len(jobs') : jobs'[n].sequence < f
    <3>1. ~(i > Stated(f))
      BY <1>2, <1>9
    <3> QED BY <1>4, <1>9, <3>1
  <2>5. Heard(<<f, i + 1>>)'
    BY <1>9, <2>1, <2>3, <2>4, Stays DEF Heard
  <2>6. JobsDiffer'
    BY <1>9 DEF JobsDiffer
  <2>7. jobs' \in Seq(JobSet') /\ decodeQ' \in Seq(JobSet') /\ down' \in Seq(Answers')
    BY <1>9, Stays DEF HoldInv
  <2> QED BY <1>7, <2>1, <2>5, <2>6, <2>7 DEF q
<1>10. \/ /\ ~Binary /\ i = 1 /\ Total(f) = 1 /\ Stated(f) = 1
          /\ Accept(Made(f)) /\ partial' = partial
       \/ /\ Binary /\ i = Stated(f)
          /\ Accept(Made(f)) /\ partial' = [s \in DOMAIN partial \ {f} |-> partial[s]]
       \/ /\ Binary /\ i < Stated(f) /\ DOMAIN partial' = DOMAIN partial \union {f}
          /\ partial'[f].total = Stated(f) /\ DOMAIN partial'[f].chunks = 0..(i - 1)
          /\ \A k \in 0..(i - 1) : partial'[f].chunks[k] = Part(f, k + 1)
          /\ UNCHANGED <<jobs, decodeQ, down>>
  BY <1>1, RecvDataIs
<1>11. CASE ~Binary /\ i = Stated(f) /\ Accept(Made(f)) /\ partial' = partial
  <2>1. DOMAIN partial = {}
    BY <1>11 DEF Heard
  <2> QED BY <1>8, <1>11, <2>1 DEF q
<1>12. CASE /\ Binary /\ i = Stated(f) /\ Accept(Made(f))
            /\ partial' = [s \in DOMAIN partial \ {f} |-> partial[s]]
  BY <1>8, <1>12 DEF q
<1>13. CASE /\ Binary /\ i < Stated(f) /\ DOMAIN partial' = DOMAIN partial \union {f}
            /\ partial'[f].total = Stated(f) /\ DOMAIN partial'[f].chunks = 0..(i - 1)
            /\ \A k \in 0..(i - 1) : partial'[f].chunks[k] = Part(f, k + 1)
            /\ UNCHANGED <<jobs, decodeQ, down>>
  BY <1>9, <1>13 DEF q
<1> QED BY <1>10, <1>11, <1>12, <1>13

LEMMA RecvKeeps ==
  ASSUME IInv, Recv
  PROVE  IInv'
<1> DEFINE m == FromWire(Head(up))
<1>1. setting \in Settings /\ setting' = setting /\ setting.handler = "pipeline"
      /\ serving = "open"
  BY DEF IInv, HoldInv, Recv
<1>2. PICK p : Line(p) /\ Heard(p[1])
  BY <1>1 DEF IInv, WireInv
<1>3. /\ up \in Seq(Wires) /\ up # <<>> /\ up' = Tail(up) /\ UNCHANGED <<sender, outbox, next>>
  BY DEF IInv, WireInv, Recv, client
<1>4. /\ p[1] \in Places /\ Head(up) = Sent(p[1]) /\ up' \in Seq(Wires')
      /\ \E r : Line(r)' /\ r[1] = Follower(p[1])
  BY <1>1, <1>2, <1>3, LineMoves
<1>5. PICK r : Line(r)' /\ r[1] = Follower(p[1])
  BY <1>4
<1>6. SenderInv'
  BY <1>1, <1>3, Stays DEF IInv, SenderInv
<1>7. /\ UNCHANGED <<sendQ, work, disk>> /\ inflight' = inflight /\ UNCHANGED results
  BY DEF Recv, client
<1>8. FilesHold'
  BY <1>1, <1>7, Stays DEF IInv, HoldInv, FilesHold
<1>9. ASSUME serving' # "open", UNCHANGED <<jobs, decodeQ, down>>
      PROVE  IInv'
  <2>1. HoldInv'
    BY <1>1, <1>7, <1>9, HoldStays DEF IInv, HoldInv
  <2>2. WireInv'
    BY <1>4, <1>5, <1>9 DEF WireInv
  <2>3. JobsDiffer'
    BY <1>9 DEF IInv, JobsDiffer
  <2> QED BY <1>1, <1>6, <1>7, <2>1, <2>2, <2>3, ResultsStay DEF IInv
<1>10. CASE m = None /\ serving' = "failed" /\ UNCHANGED <<partial, jobs, decodeQ, down>>
  BY <1>9, <1>10
<1>11. CASE serving' = "draining" /\ UNCHANGED <<partial, jobs, decodeQ, down>>
  BY <1>9, <1>11
<1>12. CASE m # None /\ m.kind = "data" /\ RecvData(m) /\ UNCHANGED serving
  <2>1. PICK f, i : p[1] = <<f, i>>
    BY <1>4 DEF Places
  <2>2. f \in Frames
    <3>1. SUFFICES ASSUME f \notin Frames PROVE FALSE
      OBVIOUS
    <3>2. m = FromWire(ToWire(Eof))
      BY <1>4, <2>1, <3>1 DEF Sent
    <3>3. m.kind = "eof"
      BY <3>2, EofReturns
    <3> QED BY <1>12, <3>3
  <2>3. i \in 1..Total(f)
    BY <1>1, <1>4, <2>1, <2>2, PlaceFacts
  <2>4. m = FromWire(ToWire(Messages(f)[i]))
    BY <1>4, <2>1, <2>2 DEF Sent
  <2> HIDE DEF m
  <2>5. /\ jobs' \in Seq(JobSet') /\ decodeQ' \in Seq(JobSet') /\ down' \in Seq(Answers')
        /\ JobsDiffer' /\ Heard(Follower(<<f, i>>))'
    BY <1>1, <1>2, <1>12, <2>1, <2>2, <2>3, <2>4, HeardMore DEF IInv
  <2>6. HoldInv'
    BY <1>1, <1>7, <1>8, <2>5, Stays DEF IInv, HoldInv
  <2>7. Heard(r[1])'
    <3>1. Follower(<<f, i>>)' = Follower(<<f, i>>)
      BY <1>1, Stays
    <3>2. r[1] = Follower(<<f, i>>)
      BY <1>5, <2>1
    <3> QED BY <2>5, <3>1, <3>2
  <2>8. WireInv'
    BY <1>4, <1>5, <2>7 DEF WireInv
  <2> QED BY <1>1, <1>6, <1>7, <2>5, <2>6, <2>8, ResultsStay DEF IInv
<1>13. \/ m = None /\ serving' = "failed" /\ UNCHANGED <<partial, jobs, decodeQ, down>>
       \/ serving' = "draining" /\ UNCHANGED <<partial, jobs, decodeQ, down>>
       \/ m # None /\ m.kind = "data" /\ RecvData(m) /\ UNCHANGED serving
  BY DEF Recv
<1> QED BY <1>10, <1>11, <1>12, <1>13

-----------------------------------------------------------------------------
(* The files *)

(* Frames do not share files. *)
LEMMA FileNames ==
  ASSUME NEW f \in Frames, NEW g \in Frames
  PROVE  /\ Drc(Made(f)) = Drc(Made(g)) => f = g
         /\ Ply(Made(f)) = Ply(Made(g)) => f = g
         /\ Drc(Made(f)) # Ply(Made(g))
<1>1. Name[f] \in Seq(Words) /\ Name[g] \in Seq(Words)
  BY FrameFacts
<1>2. ".drc" \in Words /\ ".decoded.ply" \in Words /\ ".drc" # ".decoded.ply"
  BY DEF Words
<1>3. /\ Drc(Made(f)) = Append(Name[f], ".drc") /\ Ply(Made(f)) = Append(Name[f], ".decoded.ply")
      /\ Drc(Made(g)) = Append(Name[g], ".drc") /\ Ply(Made(g)) = Append(Name[g], ".decoded.ply")
  BY DEF Drc, Ply, Stem, Made
<1>4. Name[f] = Name[g] => f = g
  BY FramesAssumption
<1>a. \A s, t \in Seq(Words), x, y \in Words : Append(s, x) = Append(t, y) => s = t /\ x = y
  BY AppendInjective
<1>5. Append(Name[f], ".drc") = Append(Name[g], ".drc") => Name[f] = Name[g]
  BY <1>1, <1>2, <1>a
<1>6. Append(Name[f], ".decoded.ply") = Append(Name[g], ".decoded.ply") => Name[f] = Name[g]
  BY <1>1, <1>2, <1>a
<1>7. Append(Name[f], ".drc") # Append(Name[g], ".decoded.ply")
  BY <1>1, <1>2, <1>a
<1> QED BY <1>3, <1>4, <1>5, <1>6, <1>7

LEMMA FileIs ==
  ASSUME FilesHold, NEW f \in Decodable
  PROVE  /\ Drc(Made(f)) \in DOMAIN disk => disk[Drc(Made(f))] = Made(f).payload
         /\ Ply(Made(f)) \in DOMAIN disk => disk[Ply(Made(f))] = Points(f)
<1>1. f \in Frames
  BY DEF Decodable
<1>2. ASSUME Drc(Made(f)) \in DOMAIN disk PROVE disk[Drc(Made(f))] = Made(f).payload
  <2>1. PICK g \in Decodable :
          \/ Drc(Made(f)) = Drc(Made(g)) /\ disk[Drc(Made(f))] = Made(g).payload
          \/ Drc(Made(f)) = Ply(Made(g)) /\ disk[Drc(Made(f))] = Points(g)
    BY <1>2 DEF FilesHold
  <2>2. g \in Frames
    BY DEF Decodable
  <2> QED BY <1>1, <2>1, <2>2, FileNames
<1>3. ASSUME Ply(Made(f)) \in DOMAIN disk PROVE disk[Ply(Made(f))] = Points(f)
  <2>1. PICK g \in Decodable :
          \/ Ply(Made(f)) = Drc(Made(g)) /\ disk[Ply(Made(f))] = Made(g).payload
          \/ Ply(Made(f)) = Ply(Made(g)) /\ disk[Ply(Made(f))] = Points(g)
    BY <1>3 DEF FilesHold
  <2>2. g \in Frames
    BY DEF Decodable
  <2> QED BY <1>1, <2>1, <2>2, FileNames
<1> QED BY <1>2, <1>3

LEMMA FileAdded ==
  ASSUME FilesHold, setting' = setting, NEW f \in Decodable, NEW file, NEW content,
         \/ file = Drc(Made(f)) /\ content = Made(f).payload
         \/ file = Ply(Made(f)) /\ content = Points(f),
         disk' = WithFile(file, content)
  PROVE  FilesHold'
<1>1. DOMAIN disk' = DOMAIN disk \union {file}
  BY DEF WithFile
<1>2. \A x \in DOMAIN disk' : disk'[x] = IF x = file THEN content ELSE disk[x]
  BY <1>1 DEF WithFile
<1>3. ASSUME NEW x \in DOMAIN disk'
      PROVE  \E g \in Decodable : \/ x = Drc(Made(g)) /\ disk'[x] = Made(g).payload
                                  \/ x = Ply(Made(g)) /\ disk'[x] = Points(g)
  <2>1. CASE x = file
    BY <1>2, <2>1
  <2>2. CASE x # file
    <3>1. x \in DOMAIN disk /\ disk'[x] = disk[x]
      BY <1>1, <1>2, <2>2
    <3> QED BY <3>1 DEF FilesHold
  <2> QED BY <2>1, <2>2
<1>4. /\ \A g : Drc(Made(g))' = Drc(Made(g)) /\ Ply(Made(g))' = Ply(Made(g))
      /\ \A g : Made(g)' = Made(g)
  BY Stays DEF Drc, Ply
<1> QED BY <1>3, <1>4, Stays DEF FilesHold

LEMMA FileRemoved ==
  ASSUME FilesHold, setting' = setting, NEW file, disk' = WithoutFile(file)
  PROVE  FilesHold'
<1>1. \A x \in DOMAIN disk' : x \in DOMAIN disk /\ disk'[x] = disk[x]
  BY DEF WithoutFile
<1>2. \A g : Drc(Made(g))' = Drc(Made(g)) /\ Ply(Made(g))' = Ply(Made(g)) /\ Made(g)' = Made(g)
  BY Stays DEF Drc, Ply
<1> QED BY <1>1, <1>2, Stays DEF FilesHold

-----------------------------------------------------------------------------
(* The rest of the server *)

(* What the workers, the send loop and the end of a session may do. *)
LEMMA ServerKeeps ==
  ASSUME IInv, setting' = setting, UNCHANGED <<client, up, partial, jobs, results>>,
         serving' = "open" => serving' = serving,
         down' \in Seq(Answers), decodeQ' \in Seq(JobSet), sendQ' \in Seq(Outcomes),
         work' \in [Workers -> WorkSet], FilesHold'
  PROVE  IInv'
<1>1. HoldInv'
  BY Stays DEF IInv, HoldInv, client
<1>2. SenderInv' /\ WireInv'
  BY WireStays DEF IInv, client
<1>3. JobsDiffer'
  BY DEF IInv, JobsDiffer
<1>4. AnswersMatch' /\ PublishedExact'
  BY ResultsStay DEF IInv
<1> QED BY <1>1, <1>2, <1>3, <1>4 DEF IInv

LEMMA TakeJobKeeps ==
  ASSUME IInv, NEW w \in Workers, TakeJob(w)
  PROVE  IInv'
<1>1. decodeQ \in Seq(JobSet) /\ decodeQ # <<>>
  BY DEF IInv, HoldInv, TakeJob
<1>2. Head(decodeQ) \in JobSet /\ decodeQ' \in Seq(JobSet)
  BY <1>1, HeadTailProperties DEF TakeJob
<1>3. PICK f \in Decodable : Head(decodeQ) = Made(f)
  BY <1>2 DEF JobSet
<1>4. FilesHold'
  <2>1. disk' = WithFile(Drc(Made(f)), Made(f).payload)
    BY <1>3 DEF TakeJob
  <2>2. FilesHold /\ setting' = setting
    BY DEF IInv, HoldInv, TakeJob
  <2> QED BY <2>1, <2>2, FileAdded
<1>5. work' \in [Workers -> WorkSet]
  <2>1. [at |-> "written", job |-> Head(decodeQ)] \in WorkSet
    BY <1>2 DEF WorkSet, Working
  <2> QED BY <2>1 DEF IInv, HoldInv, TakeJob
<1> QED BY <1>2, <1>4, <1>5, ServerKeeps DEF IInv, HoldInv, TakeJob

(* A worker that is at work has the job of a frame. *)
LEMMA AtWork ==
  ASSUME HoldInv, NEW w \in Workers, work[w].at \in {"written", "run"}
  PROVE  work[w].job \in JobSet
<1>1. work[w] \in WorkSet
  BY DEF HoldInv
<1> QED BY <1>1 DEF WorkSet, Working, Idle

LEMMA ErrorKeeps ==
  ASSUME IInv, NEW w \in Workers, work[w].job \in JobSet, Error(w), setting' = setting,
         UNCHANGED <<client, up, down, partial, jobs, results>>
  PROVE  IInv'
<1>1. [at |-> "left"] \in WorkSet
  BY DEF WorkSet
<1>2. work' \in [Workers -> WorkSet]
  BY <1>1 DEF IInv, HoldInv, Error
<1>3. [job |-> work[w].job, decoded |-> None] \in Outcomes
  BY DEF JobSet, Outcomes
<1>4. sendQ' \in Seq(Outcomes)
  BY <1>3, AppendProperties DEF IInv, HoldInv, Error
<1>5. FilesHold'
  BY FileRemoved DEF IInv, HoldInv, Error
<1>6. decodeQ' \in Seq(JobSet) /\ serving' # "open"
  BY DEF Error
<1> QED BY <1>2, <1>4, <1>5, <1>6, ServerKeeps DEF IInv, HoldInv

LEMMA RunDecoderKeeps ==
  ASSUME IInv, NEW w \in Workers, RunDecoder(w)
  PROVE  IInv'
<1>1. setting \in Settings /\ work[w].at = "written" /\ HoldInv
  BY DEF IInv, HoldInv, RunDecoder
<1>2. work[w].job \in JobSet
  BY <1>1, AtWork
<1>3. PICK f \in Decodable : work[w].job = Made(f)
  BY <1>2 DEF JobSet
<1>4. setting' = setting /\ UNCHANGED <<client, up, down, partial, jobs, results>>
  BY DEF RunDecoder
<1>5. CASE /\ Drc(Made(f)) \in DOMAIN disk
           /\ work' = [work EXCEPT ![w] = [at |-> "run", job |-> Made(f)]]
           /\ disk' = WithFile(Ply(Made(f)), Points(FrameOf(disk[Drc(Made(f))])))
           /\ UNCHANGED <<serving, decodeQ, sendQ>>
  <2>1. FrameOf(disk[Drc(Made(f))]) = f
    BY <1>1, <1>5, FileIs, MadeFacts DEF HoldInv
  <2>2. FilesHold'
    BY <1>1, <1>4, <1>5, <2>1, FileAdded DEF HoldInv
  <2>3. [at |-> "run", job |-> Made(f)] \in WorkSet
    BY <1>2, <1>3 DEF WorkSet, Working
  <2>4. work' \in [Workers -> WorkSet]
    BY <1>1, <1>5, <2>3 DEF HoldInv
  <2> QED BY <1>1, <1>4, <1>5, <2>2, <2>4, ServerKeeps DEF HoldInv
<1>6. CASE Error(w)
  BY <1>2, <1>4, <1>6, ErrorKeeps
<1> QED BY <1>3, <1>5, <1>6 DEF RunDecoder

LEMMA ReadBackKeeps ==
  ASSUME IInv, NEW w \in Workers, ReadBack(w)
  PROVE  IInv'
<1>1. setting \in Settings /\ work[w].at = "run" /\ HoldInv
  BY DEF IInv, HoldInv, ReadBack
<1>2. work[w].job \in JobSet
  BY <1>1, AtWork
<1>3. PICK f \in Decodable : work[w].job = Made(f)
  BY <1>2 DEF JobSet
<1>4. setting' = setting /\ UNCHANGED <<client, up, down, partial, jobs, results>>
  BY DEF ReadBack
<1>5. CASE Ply(Made(f)) \in DOMAIN disk
  <2>1. disk[Ply(Made(f))] = Points(f)
    BY <1>1, <1>5, FileIs DEF HoldInv
  <2>2. /\ sendQ' = IF serving = "failed" THEN sendQ
                    ELSE Append(sendQ, [job |-> Made(f), decoded |-> Points(f)])
        /\ work' = [work EXCEPT ![w] = Idle] /\ disk' = WithoutFile(Drc(Made(f)))
        /\ UNCHANGED <<serving, decodeQ>>
    BY <1>3, <1>5, <2>1 DEF ReadBack
  <2>3. FilesHold'
    BY <1>1, <1>4, <2>2, FileRemoved DEF HoldInv
  <2>4. [job |-> Made(f), decoded |-> Points(f)] \in Outcomes
    BY DEF Outcomes
  <2>5. sendQ' \in Seq(Outcomes)
    BY <1>1, <2>2, <2>4, AppendProperties DEF HoldInv
  <2>6. work' \in [Workers -> WorkSet]
    BY <1>1, <2>2 DEF HoldInv, WorkSet
  <2> QED BY <1>1, <1>4, <2>2, <2>3, <2>5, <2>6, ServerKeeps DEF HoldInv
<1>6. CASE Ply(Made(f)) \notin DOMAIN disk
  <2>1. Error(w)
    BY <1>3, <1>6 DEF ReadBack
  <2> QED BY <1>2, <1>4, <2>1, ErrorKeeps
<1> QED BY <1>5, <1>6

LEMMA SendKeeps ==
  ASSUME IInv, Send
  PROVE  IInv'
<1>1. setting \in Settings /\ HoldInv /\ sendQ \in Seq(Outcomes) /\ sendQ # <<>>
  BY DEF IInv, HoldInv, Send
<1>2. Head(sendQ) \in Outcomes /\ sendQ' \in Seq(Outcomes)
  BY <1>1, HeadTailProperties DEF Send
<1>3. setting' = setting /\ UNCHANGED <<client, up, partial, decodeQ, work, jobs, results>>
  BY DEF Send
<1>4. PICK f \in Decodable : /\ Head(sendQ).job = Made(f)
                             /\ Head(sendQ).decoded \in {None, Points(f)}
  BY <1>2 DEF Outcomes
<1>5. FrameOf(Made(f).payload) = f
  BY <1>1, MadeFacts
<1>6. CASE Head(sendQ).decoded = None
  <2>1. /\ down' = Append(down, Answer(ErrorReply(Made(f)), f))
        /\ serving' = "failed" /\ UNCHANGED disk
    BY <1>4, <1>5, <1>6 DEF Send
  <2>2. Answer(ErrorReply(Made(f)), f) \in Answers
    BY DEF Answers, FromPipeline
  <2>3. down' \in Seq(Answers)
    BY <1>1, <2>1, <2>2, AppendProperties DEF HoldInv
  <2>4. FilesHold'
    BY <1>1, <1>3, <2>1, Stays DEF HoldInv, FilesHold
  <2> QED BY <1>1, <1>2, <1>3, <2>1, <2>3, <2>4, ServerKeeps DEF HoldInv
<1>7. CASE Head(sendQ).decoded # None
  <2>1. Head(sendQ).decoded = Points(f)
    BY <1>4, <1>7
  <2>2. /\ down' = Append(down, Answer(Reply(Made(f), Points(f)), f))
        /\ disk' = WithoutFile(Ply(Made(f))) /\ UNCHANGED serving
    BY <1>4, <1>5, <1>7, <2>1 DEF Send
  <2>3. Answer(Reply(Made(f), Points(f)), f) \in Answers
    BY DEF Answers, FromPipeline
  <2>4. down' \in Seq(Answers)
    BY <1>1, <2>2, <2>3, AppendProperties DEF HoldInv
  <2>5. FilesHold'
    BY <1>1, <1>3, <2>2, FileRemoved DEF HoldInv
  <2> QED BY <1>1, <1>2, <1>3, <2>2, <2>4, <2>5, ServerKeeps DEF HoldInv
<1> QED BY <1>6, <1>7

LEMMA CloseKeeps ==
  ASSUME IInv, Close
  PROVE  IInv'
<1>1. HoldInv /\ setting' = setting
  BY DEF IInv, Close
<1>2. Closed \in Answers
  BY DEF Answers, FromPipeline
<1>3. down' \in Seq(Answers)
  BY <1>1, <1>2, AppendProperties DEF HoldInv, Close
<1>4. FilesHold'
  BY <1>1, Stays DEF HoldInv, FilesHold, Close
<1> QED BY <1>1, <1>3, <1>4, ServerKeeps DEF HoldInv, Close

-----------------------------------------------------------------------------
(* The legacy loop *)

(* A fragment is not empty and its units name its frame. *)
LEMMA PartNames ==
  ASSUME setting \in Settings, NEW f \in Frames, NEW i \in 1..Total(f)
  PROVE  FrameOf(Part(f, i)) = f
<1> DEFINE p == Payload(f)
           a == Start(FragmentSize, i) + 1
           b == Stop(Size[f], FragmentSize, i)
<1>1. FragmentSize \in Nat /\ Size[f] \in Nat \ {0} /\ i \in Nat
  BY TotalFacts, FrameFacts
<1>2. /\ Start(FragmentSize, i) \in Nat /\ b \in i..Size[f] /\ Start(FragmentSize, i) < b
  BY <1>1, NumberFacts DEF Total
<1>3. a \in 1..Size[f] /\ b \in 1..Size[f] /\ a <= b
  BY <1>1, <1>2
<1>4. p \in Seq({"drc"} \X {f} \X Nat) /\ Len(p) = Size[f]
      /\ \A k \in 1..Size[f] : p[k] = <<"drc", f, k>>
  BY <1>1, PayloadFacts DEF Payload
<1>5. Part(f, i) = SubSeq(p, a, b)
  BY <1>4 DEF Part, Piece
<1> HIDE DEF p, a, b
<1>6. \A k \in a..b : p[k] \in {"drc"} \X {f} \X Nat
  BY <1>1, <1>3, <1>4
<1>7. \A k \in 1..(b - a + 1) : SubSeq(p, a, b)[k] = p[a + k - 1]
  BY <1>3, <1>6, SubSeqProperties
<1>8. SubSeq(p, a, b)[1] = p[a]
  BY <1>1, <1>3, <1>7
<1>9. p[a] = <<"drc", f, a>>
  BY <1>3, <1>4
<1> QED BY <1>5, <1>8, <1>9 DEF FrameOf

(* The legacy loop answers each message by the address it came with. *)
LEMMA LegacyDataAnswers ==
  ASSUME HoldInv, setting.handler = "legacy", NEW f \in Frames, NEW i \in 1..Total(f),
         NEW m, m = FromWire(ToWire(Messages(f)[i])), m # None, LegacyData(m)
  PROVE  down' \in Seq(Answers)
<1>1. setting \in Settings /\ down \in Seq(Answers)
  BY DEF HoldInv
<1>2. /\ DecodeFrameAddress(m.name).sequence = f /\ DecodeFrameAddress(m.name).name = Name[f]
      /\ Name[f] # <<>> /\ FrameOf(m.payload) = f
  BY <1>1, DataReturns, FrameFacts, PartNames
<1>3. ReplyName(Name[f], ".decoded") = Append(Name[f], ".decoded")
  BY NameFacts
<1>4. \/ down' = down \o <<Answer(LegacyAck(f), f), Answer(LegacyReply(f), f)>>
      \/ down' = down \o <<Answer(LegacyAck(f), f), Answer(LegacyError(f), f)>>
  BY <1>2, <1>3 DEF LegacyData, LegacyAck, LegacyReply, LegacyError
<1>5. /\ Answer(LegacyAck(f), f) \in Answers /\ Answer(LegacyReply(f), f) \in Answers
      /\ Answer(LegacyError(f), f) \in Answers
  BY DEF Answers, FromLegacy
<1>6. \A a, b \in Answers : <<a, b>> \in Seq(Answers)
  OBVIOUS
<1> QED BY <1>1, <1>4, <1>5, <1>6, ConcatProperties

LEMMA LegacyRecvKeeps ==
  ASSUME IInv, LegacyRecv
  PROVE  IInv'
<1> DEFINE m == FromWire(Head(up))
<1>1. setting \in Settings /\ setting' = setting /\ setting.handler = "legacy" /\ HoldInv
  BY DEF IInv, HoldInv, LegacyRecv
<1>2. PICK p : Line(p)
  BY DEF IInv, WireInv
<1>3. /\ up \in Seq(Wires) /\ up # <<>> /\ up' = Tail(up) /\ UNCHANGED <<sender, outbox, next>>
  BY DEF IInv, WireInv, LegacyRecv, client
<1>4. /\ p[1] \in Places /\ Head(up) = Sent(p[1]) /\ up' \in Seq(Wires')
      /\ \E r : Line(r)' /\ r[1] = Follower(p[1])
  BY <1>1, <1>2, <1>3, LineMoves
<1>5. SenderInv' /\ WireInv'
  <2>1. SenderInv'
    BY <1>1, <1>3, Stays DEF IInv, SenderInv
  <2>2. setting'.handler # "pipeline"
    BY <1>1
  <2> QED BY <1>4, <2>1, <2>2 DEF WireInv
<1>6. UNCHANGED <<decodeQ, sendQ, work, disk, jobs, results>> /\ inflight' = inflight
  BY DEF LegacyRecv, client
<1>7. FilesHold'
  BY <1>1, <1>6, Stays DEF HoldInv, FilesHold
<1>8. down' \in Seq(Answers)
  <2>1. CASE down' = down
    BY <1>1, <2>1 DEF HoldInv
  <2>2. CASE down' = Append(down, Answer(Eof, None))
    <3>1. Answer(Eof, None) \in Answers
      BY <1>1 DEF Answers, FromLegacy
    <3> QED BY <1>1, <2>2, <3>1, AppendProperties DEF HoldInv
  <2>3. CASE m # None /\ m.kind = "data" /\ LegacyData(m)
    <3>1. PICK f, i : p[1] = <<f, i>>
      BY <1>4 DEF Places
    <3>2. f \in Frames
      <4>1. SUFFICES ASSUME f \notin Frames PROVE FALSE
        OBVIOUS
      <4>2. m = FromWire(ToWire(Eof))
        BY <1>4, <3>1, <4>1 DEF Sent
      <4>3. m.kind = "eof"
        BY <4>2, EofReturns
      <4> QED BY <2>3, <4>3
    <3>3. i \in 1..Total(f)
      BY <1>1, <1>4, <3>1, <3>2, PlaceFacts
    <3>4. m = FromWire(ToWire(Messages(f)[i]))
      BY <1>4, <3>1, <3>2 DEF Sent
    <3> HIDE DEF m
    <3> QED BY <1>1, <2>3, <3>2, <3>3, <3>4, LegacyDataAnswers
  <2> QED BY <2>1, <2>2, <2>3 DEF LegacyRecv
<1>9. HoldInv'
  BY <1>1, <1>6, <1>7, <1>8, Stays DEF HoldInv
<1>10. JobsDiffer'
  BY <1>6 DEF IInv, JobsDiffer
<1> QED BY <1>1, <1>5, <1>6, <1>9, <1>10, ResultsStay DEF IInv

-----------------------------------------------------------------------------
(* The client's consumer *)

(* What it takes an answer for. *)
LEMMA MatchKeeps ==
  ASSUME AnswersMatch, setting' = setting, NEW m, NEW about, NEW f, Match(m, about, f),
         (setting.handler = "pipeline" \/ ~Binary) => f \in {about, None}
  PROVE  AnswersMatch'
<1>1. Binary' = Binary
  BY DEF Binary
<1>2. CASE f = None
  <2>1. matches' = matches
    BY <1>2 DEF Match
  <2> QED BY <1>1, <2>1 DEF AnswersMatch
<1>3. CASE f # None
  <2>1. matches' = matches \union {[kind |-> m.kind, about |-> about, frame |-> f]}
    BY <1>3 DEF Match
  <2> QED BY <1>1, <1>3, <2>1 DEF AnswersMatch
<1> QED BY <1>2, <1>3

(* The client's side of an answer: nothing else changes. *)
LEMMA ConsumeKeeps ==
  ASSUME IInv, Consume
  PROVE  IInv'
<1> DEFINE d == Head(down)
           m == FromWire(d.bytes)
<1>1. HoldInv /\ setting \in Settings /\ inflight \subseteq Frames
  BY DEF IInv, HoldInv
<1>2. /\ setting' = setting /\ down # <<>> /\ down' = Tail(down)
      /\ UNCHANGED <<sender, outbox, next, server, up>>
  BY DEF Consume
<1>3. down \in Seq(Answers)
  BY <1>1 DEF HoldInv
<1>4. d \in Answers /\ down' \in Seq(Answers)
  BY <1>2, <1>3, HeadTailProperties
<1>5. UNCHANGED <<serving, partial, decodeQ, sendQ, work, disk, jobs>>
  BY <1>2 DEF server
<1>6. SenderInv' /\ WireInv' /\ JobsDiffer'
  <2>1. SenderInv' /\ WireInv'
    BY <1>2, <1>5, WireStays DEF IInv
  <2>2. JobsDiffer'
    BY <1>5 DEF IInv, JobsDiffer
  <2> QED BY <2>1, <2>2
<1>7. FilesHold'
  BY <1>1, <1>2, <1>5, Stays DEF HoldInv, FilesHold
<1>8. inflight' \subseteq Frames
  BY <1>1 DEF Consume, ConsumeMessage, ConsumeAck, ConsumeReply
<1>9. HoldInv'
  BY <1>1, <1>2, <1>4, <1>5, <1>7, <1>8, Stays DEF HoldInv
<1>10. AnswersMatch /\ PublishedExact
  BY DEF IInv
<1>11. AnswersMatch' /\ PublishedExact'
  <2>1. CASE d = Closed
    BY <1>2, <1>10, <2>1, ResultsStay DEF Consume
  <2>2. CASE d # Closed
    <3>1. ConsumeMessage(m, d.about)
      BY <2>2 DEF Consume
    <3> HIDE DEF d, m
    <3>2. \/ setting.handler = "legacy" /\ d \in FromLegacy
          \/ d \in FromPipeline
      BY <1>4 DEF Answers
    <3>3. /\ (d \in FromPipeline \/ ~Binary) /\ m.kind # "eof"
               => d.about \in Frames /\ Tells(m, d.about)
          /\ \A f : d \in FromLegacy /\ m.kind = "data" => Publication(m, f) = {}
          /\ d \in FromPipeline => \A x \in Publication(m, d.about) : m.kind = "data" => Exact(x)
      BY <1>1, <2>2, <3>2, PipelineAnswer, LegacyAnswer DEF m
    <3>4. CASE m.kind = "eof" /\ UNCHANGED results
      BY <1>2, <1>10, <3>4, ResultsStay
    <3>5. CASE m.kind = "ack" /\ ConsumeAck(m, d.about)
      <4> DEFINE sequence == SequenceOf(m, DecodeFrameAddress(m.name))
                 f == IF sequence \in inflight THEN sequence ELSE None
      <4>1. Match(m, d.about, f) /\ published' = published
        BY <3>5 DEF ConsumeAck
      <4>2. (setting.handler = "pipeline" \/ ~Binary) => f \in {d.about, None}
        <5>1. SUFFICES ASSUME setting.handler = "pipeline" \/ ~Binary
                       PROVE  f \in {d.about, None}
          OBVIOUS
        <5>2. Tells(m, d.about)
          BY <3>2, <3>3, <3>5, <5>1
        <5> QED BY <5>2 DEF Tells
      <4> HIDE DEF f
      <4>3. AnswersMatch'
        BY <1>2, <1>10, <4>1, <4>2, MatchKeeps
      <4>4. PublishedExact'
        BY <1>2, <1>10, <4>1 DEF PublishedExact, Binary
      <4> QED BY <4>3, <4>4
    <3>6. CASE m.kind \in {"data", "error"} /\ ConsumeReply(m, d.about)
      <4> DEFINE f == Candidate(m)
      <4>1. /\ Match(m, d.about, f)
            /\ published' = IF m.kind = "error" \/ f = None THEN published
                            ELSE published \union Publication(m, f)
        BY <3>6 DEF ConsumeReply
      <4>2. d \in FromPipeline \/ ~Binary => f \in {d.about, None}
        <5>1. SUFFICES ASSUME d \in FromPipeline \/ ~Binary PROVE f \in {d.about, None}
          OBVIOUS
        <5>2. d.about \in Frames /\ Tells(m, d.about) /\ m.kind # "ack"
          BY <3>3, <3>6, <5>1
        <5> QED BY <1>1, <5>2, CandidateIs
      <4> HIDE DEF f
      <4>3. AnswersMatch'
        <5>1. setting.handler = "pipeline" => d \in FromPipeline
          BY <3>2
        <5> QED BY <1>2, <1>10, <4>1, <4>2, <5>1, MatchKeeps
      <4>4. \A x \in published' : x \in published \/ Exact(x)
        <5>1. CASE m.kind = "error" \/ f = None
          BY <4>1, <5>1
        <5>2. CASE ~(m.kind = "error" \/ f = None)
          <6>1. published' = published \union Publication(m, f) /\ m.kind = "data"
            BY <3>6, <4>1, <5>2
          <6>2. \A x \in Publication(m, f) : Exact(x)
            BY <3>2, <3>3, <4>2, <5>2, <6>1
          <6> QED BY <6>1, <6>2
        <5> QED BY <5>1, <5>2
      <4>5. PublishedExact'
        <5>1. \A x \in published : Exact(x)
          BY <1>10 DEF PublishedExact, Exact
        <5>2. \A x \in published' : Exact(x)
          BY <4>4, <5>1
        <5>3. \A x : Exact(x)' = Exact(x)
          BY <1>2 DEF Exact, Binary
        <5> QED BY <5>2, <5>3 DEF PublishedExact, Exact
      <4> QED BY <4>3, <4>5
    <3> QED BY <3>1, <3>4, <3>5, <3>6 DEF ConsumeMessage
  <2> QED BY <2>1, <2>2
<1> QED BY <1>6, <1>9, <1>11 DEF IInv

-----------------------------------------------------------------------------
LEMMA StepInv == IInv /\ [Next]_vars => IInv'
<1> SUFFICES ASSUME IInv, [Next]_vars PROVE IInv'
  OBVIOUS
<1>1. CASE BeginFrame
  BY <1>1, BeginFrameKeeps
<1>2. CASE SendFragment
  BY <1>2, SendFragmentKeeps
<1>3. CASE Register
  BY <1>3, RegisterKeeps
<1>4. CASE SendEof
  BY <1>4, SendEofKeeps
<1>5. CASE Recv
  BY <1>5, RecvKeeps
<1>6. CASE Send
  BY <1>6, SendKeeps
<1>7. CASE Close
  BY <1>7, CloseKeeps
<1>8. CASE \E w \in Workers : TakeJob(w) \/ RunDecoder(w) \/ ReadBack(w)
  BY <1>8, TakeJobKeeps, RunDecoderKeeps, ReadBackKeeps
<1>9. CASE LegacyRecv
  BY <1>9, LegacyRecvKeeps
<1>10. CASE Consume
  BY <1>10, ConsumeKeeps
<1>11. CASE UNCHANGED vars
  <2>1. /\ setting' = setting /\ UNCHANGED <<sender, outbox, next, up, inflight, down>>
        /\ UNCHANGED <<serving, partial, jobs, decodeQ, sendQ, work, disk, results>>
    BY <1>11 DEF vars, client, server
  <2>2. HoldInv'
    BY <2>1, HoldStays DEF IInv, HoldInv
  <2>3. SenderInv' /\ WireInv'
    BY <2>1, WireStays DEF IInv
  <2>4. JobsDiffer'
    BY <2>1 DEF IInv, JobsDiffer
  <2> QED BY <2>1, <2>2, <2>3, <2>4, ResultsStay DEF IInv
<1> QED BY <1>1, <1>2, <1>3, <1>4, <1>5, <1>6, <1>7, <1>8, <1>9, <1>10, <1>11 DEF Next

THEOREM Invariance == Spec => []IInv
<1>1. Init => IInv
  BY InitInv
<1>2. IInv /\ [Next]_vars => IInv'
  BY StepInv
<1> QED BY <1>1, <1>2, PTL DEF Spec

(* The server decodes what the client encoded (decode_frame_address,         *)
(* FragmentInfo and FragmentBuffer.add): a job of the pipeline is a whole    *)
(* frame under its own sequence, name, length and timestamp, if the number   *)
(* of its fragments fits in the header, and no frame makes two jobs.         *)
THEOREM JobsAreExact == Spec => []JobsExact
<1>1. IInv => JobsExact
  <2> SUFFICES ASSUME IInv PROVE JobsExact
    OBVIOUS
  <2>1. setting \in Settings /\ jobs \in Seq(JobSet) /\ JobsDiffer
    BY DEF IInv, HoldInv
  <2>2. DOMAIN jobs = 1..Len(jobs) /\ \A i \in 1..Len(jobs) : jobs[i] \in JobSet
    BY <2>1
  <2>3. ASSUME NEW i \in DOMAIN jobs,
               Fragments(FrameOf(jobs[i].payload)) < Modulus
        PROVE  jobs[i] = JobOf(FrameOf(jobs[i].payload))
    <3>1. PICK f \in Decodable : jobs[i] = Made(f)
      BY <2>2, <2>3 DEF JobSet
    <3>2. FrameOf(jobs[i].payload) = f /\ f \in Frames
      BY <2>1, <3>1, MadeFacts
    <3>3. Total(f) < Modulus
      BY <2>1, <2>3, <3>2, TotalFacts
    <3> QED BY <2>1, <3>1, <3>2, <3>3, MadeFacts
  <2>4. IsInjective(jobs)
    BY <2>1, <2>2 DEF IsInjective, JobsDiffer
  <2> QED BY <2>3, <2>4 DEF JobsExact
<1> QED BY <1>1, Invariance, PTL

(* What reply_consumer takes for the ACK or the answer to a frame is about   *)
(* that frame: from the pipeline in both framings, from run_server_legacy in *)
(* text.                                                                     *)
THEOREM AnswersAreMatched == Spec => []AnswersMatch
<1>1. IInv => AnswersMatch
  BY DEF IInv
<1> QED BY <1>1, Invariance, PTL

(* What the client hands to playback for a frame is the decoded form of that *)
(* frame, under its name, sequence and timestamp.                            *)
THEOREM PublishedIsExact == Spec => []PublishedExact
<1>1. IInv => PublishedExact
  BY DEF IInv
<1> QED BY <1>1, Invariance, PTL

-----------------------------------------------------------------------------
(* How long the client waits for an answer: the heap of its deadlines.       *)
(* Lazy deletion keeps an entry of every live deadline (Covered), whence     *)
(* pop_due finds exactly what has passed and push reports exactly the        *)
(* changes of the earliest deadline.                                         *)

(* The call under way has so far done to _deadlines what it should have. *)
CallInv ==
  /\ call = "pushing" => deadlines = before
  /\ call = "pushed" =>
       /\ Earliest(before, previous)
       /\ deadlines = [before EXCEPT ![arg[2]] = arg[1]]
  /\ call = "popping" =>
       \A s \in Sequences :
         IF s \in due
         THEN deadlines[s] = NoDeadline /\ before[s] # NoDeadline /\ before[s] <= now
         ELSE deadlines[s] = before[s]

HeapInv == TypeOK /\ Covered /\ CallInv

-----------------------------------------------------------------------------
(* Entries are pairs. *)
LEMMA EntryFacts ==
  /\ \A d \in Times, s \in Sequences :
       <<d, s>> \in Entries /\ <<d, s>>[1] = d /\ <<d, s>>[2] = s
  /\ \A e \in Entries : e[1] \in Times /\ e[2] \in Sequences
BY DEF Entries

(* What next_deadline finds at the top of the heap is the earliest          *)
(* deadline: every live deadline has an entry, and none is below the top.   *)
LEMMA TopIsEarliest ==
  ASSUME TypeOK, Covered, NEW d \in Times \union {NoDeadline}, Next_deadline(d)
  PROVE  Earliest(deadlines, d)
<1> USE SequencesAssumption, BoundsAssumption, EntryFacts DEF Times, NoDeadline
<1>1. CASE Held = {} /\ d = NoDeadline
  <2>1. \A s \in Sequences : deadlines[s] = NoDeadline
    BY <1>1 DEF Held, Covered, TypeOK
  <2> QED BY <2>1, <1>1 DEF Earliest
<1>2. CASE \E e \in Held : Least(e) /\ ~Stale(e) /\ d = e[1]
  <2>1. PICK e \in Held : Least(e) /\ ~Stale(e) /\ d = e[1]
    BY <1>2
  <2>2. e \in Entries /\ e[2] \in Sequences /\ e[1] \in Times
    BY DEF Held
  <2>3. deadlines[e[2]] = d /\ d # NoDeadline
    BY <2>1, <2>2 DEF Stale
  <2>4. ASSUME NEW s \in Sequences, deadlines[s] # NoDeadline
        PROVE  d <= deadlines[s]
    <3>1. <<deadlines[s], s>> \in Held
      BY <2>4 DEF Held, Covered, TypeOK
    <3>2. deadlines[s] \in Times /\ <<deadlines[s], s>>[1] = deadlines[s]
      BY <2>4 DEF TypeOK
    <3>3. e[1] < deadlines[s] \/ e[1] = deadlines[s]
      BY <3>1, <3>2, <2>1 DEF Least
    <3> QED BY <3>2, <3>3, <2>1, <2>2
  <2> QED BY <2>2, <2>3, <2>4 DEF Earliest
<1> QED BY <1>1, <1>2 DEF Next_deadline

(* A dictionary has one earliest deadline at most. *)
LEMMA EarliestIsUnique ==
  ASSUME NEW f \in [Sequences -> Times \union {NoDeadline}],
         NEW c \in Times \union {NoDeadline}, NEW d \in Times \union {NoDeadline},
         Earliest(f, c), Earliest(f, d)
  PROVE  c = d
BY SequencesAssumption, BoundsAssumption DEF Earliest, Times, NoDeadline

-----------------------------------------------------------------------------
LEMMA HeapInitInv == HeapInit => HeapInv
<1> USE SequencesAssumption, BoundsAssumption, EntryFacts DEF Times, NoDeadline
<1> SUFFICES ASSUME HeapInit PROVE HeapInv
  OBVIOUS
<1>1. TypeOK
  <2>1. heap \in [Entries -> Nat]
    BY DEF HeapInit
  <2>2. deadlines \in [Sequences -> Times \union {NoDeadline}]
    BY DEF HeapInit
  <2>3. arg \in Entries /\ before \in [Sequences -> Times \union {NoDeadline}]
    BY <2>2 DEF HeapInit
  <2>4. now \in Times /\ pushes \in 0..MaxPushes /\ previous \in Times \union {NoDeadline}
    BY DEF HeapInit
  <2> QED BY <2>1, <2>2, <2>3, <2>4 DEF HeapInit, TypeOK
<1>2. Covered
  BY DEF HeapInit, Covered
<1> QED BY <1>1, <1>2 DEF HeapInit, HeapInv, CallInv

LEMMA HeapStepInv == HeapInv /\ [HeapNext]_heapVars => HeapInv'
<1> USE SequencesAssumption, BoundsAssumption, EntryFacts DEF Times, NoDeadline
<1> SUFFICES ASSUME HeapInv, [HeapNext]_heapVars PROVE HeapInv'
  OBVIOUS
<1> USE DEF HeapInv
<1>1. CASE Discard
  <2>1. PICK e \in Held : Stale(e) /\ heap' = Replaced(e)
    BY <1>1 DEF Discard
  <2>2. e \in Entries /\ heap[e] > 0 /\ deadlines[e[2]] # e[1]
    BY <2>1 DEF Held, Stale
  <2>3. heap' \in [Entries -> Nat]
    <3>1. Popped(e) \in [Entries -> Nat]
      BY <2>2 DEF Popped, TypeOK
    <3>2. CASE deadlines[e[2]] = NoDeadline
      BY <3>1, <3>2, <2>1 DEF Replaced
    <3>3. CASE deadlines[e[2]] # NoDeadline
      <4>1. <<deadlines[e[2]], e[2]>> \in Entries
        <5>1. e[2] \in Sequences
          BY <2>2
        <5>2. \A s \in Sequences : deadlines[s] # NoDeadline => deadlines[s] \in Times
          BY DEF TypeOK
        <5> QED BY <5>1, <5>2, <3>3
      <4>2. \A x \in Entries : Pushed(Popped(e), x) \in [Entries -> Nat]
        BY <3>1 DEF Pushed
      <4> QED BY <4>1, <4>2, <3>3, <2>1 DEF Replaced
    <3> QED BY <3>2, <3>3
  <2>4. \A s \in Sequences : deadlines[s] # NoDeadline =>
            heap'[<<deadlines[s], s>>] >= heap[<<deadlines[s], s>>]
    BY <2>1, <2>2 DEF Replaced, Pushed, Popped, TypeOK
  <2>5. TypeOK' /\ Covered'
    BY <1>1, <2>3, <2>4 DEF Discard, TypeOK, Covered
  <2>6. CallInv'
    BY <1>1 DEF Discard, CallInv, Earliest
  <2> QED BY <2>5, <2>6
<1>2. CASE \E e \in Entries : Push(e)
  BY <1>2 DEF Push, TypeOK, Covered, CallInv
<1>3. CASE PushEntry
  <2>1. arg \in Entries /\ arg[1] \in Times /\ arg[2] \in Sequences
    BY DEF TypeOK
  <2>2. TypeOK'
    BY <1>3, <2>1 DEF PushEntry, Pushed, TypeOK
  <2>3. Covered'
    <3> SUFFICES ASSUME NEW s \in Sequences, deadlines'[s] # NoDeadline
                 PROVE  heap'[<<deadlines'[s], s>>] > 0
      BY DEF Covered
    <3>1. heap' = [heap EXCEPT ![arg] = @ + 1] /\ heap[arg] \in Nat
      BY <1>3, <2>1 DEF PushEntry, Pushed, TypeOK
    <3>2. CASE s = arg[2]
      <4>1. <<deadlines'[s], s>> = arg
        BY <1>3, <2>1, <3>2 DEF PushEntry, TypeOK, Entries
      <4> QED BY <4>1, <3>1, <2>1 DEF TypeOK
    <3>3. CASE s # arg[2]
      <4>1. deadlines'[s] = deadlines[s] /\ deadlines[s] \in Times
        BY <1>3, <2>1, <3>3 DEF PushEntry, TypeOK
      <4>2. heap[<<deadlines[s], s>>] > 0 /\ <<deadlines[s], s>> # arg
        BY <4>1, <3>3 DEF Covered
      <4> QED BY <4>1, <4>2, <3>1 DEF TypeOK
    <3> QED BY <3>2, <3>3
  <2>4. Earliest(deadlines, previous')
    BY <1>3, TopIsEarliest DEF PushEntry
  <2>5. CallInv'
    BY <1>3, <2>4 DEF PushEntry, CallInv, Earliest
  <2> QED BY <2>2, <2>3, <2>5
<1>4. CASE PushReturn
  BY <1>4 DEF PushReturn, TypeOK, Covered, CallInv
<1>5. CASE \E s \in Sequences : Cancel(s)
  BY <1>5 DEF Cancel, TypeOK, Covered, CallInv
<1>6. CASE PopDue
  BY <1>6 DEF PopDue, TypeOK, Covered, CallInv
<1>7. CASE PopOne
  <2>1. PICK e \in Held :
          /\ ~Stale(e) /\ Passed(e[1])
          /\ heap' = Popped(e)
          /\ deadlines' = [deadlines EXCEPT ![e[2]] = NoDeadline]
          /\ due' = due \union {e[2]}
    BY <1>7 DEF PopOne
  <2>2. e \in Entries /\ e[1] \in Times /\ e[2] \in Sequences /\ heap[e] > 0
    BY DEF Held
  <2>3. deadlines[e[2]] = e[1] /\ e[1] <= now
    BY <2>1 DEF Stale, Passed
  <2>4. TypeOK'
    <3>1. heap' \in [Entries -> Nat]
      BY <2>1, <2>2 DEF Popped, TypeOK
    <3>2. deadlines' \in [Sequences -> Times \union {NoDeadline}]
      BY <2>1, <2>2 DEF TypeOK
    <3> QED BY <3>1, <3>2, <1>7, <2>1, <2>2 DEF PopOne, TypeOK
  <2>5. Covered'
    <3> SUFFICES ASSUME NEW s \in Sequences, deadlines'[s] # NoDeadline
                 PROVE  heap'[<<deadlines'[s], s>>] > 0
      BY DEF Covered
    <3>1. s # e[2] /\ deadlines'[s] = deadlines[s] /\ deadlines[s] \in Times
      BY <2>1, <2>2 DEF TypeOK
    <3>2. heap[<<deadlines[s], s>>] > 0 /\ <<deadlines[s], s>> # e
      BY <3>1 DEF Covered
    <3> QED BY <3>1, <3>2, <2>1 DEF Popped, TypeOK
  <2>6. CallInv'
    BY <1>7, <2>1, <2>2, <2>3 DEF PopOne, TypeOK, CallInv
  <2> QED BY <2>4, <2>5, <2>6
<1>8. CASE PopReturn
  BY <1>8 DEF PopReturn, TypeOK, Covered, CallInv
<1>9. CASE Tick
  BY <1>9 DEF Tick, TypeOK, Covered, CallInv
<1>10. CASE UNCHANGED heapVars
  BY <1>10 DEF heapVars, TypeOK, Covered, CallInv, Earliest
<1> QED
  BY <1>1, <1>2, <1>3, <1>4, <1>5, <1>6, <1>7, <1>8, <1>9, <1>10 DEF HeapNext, Step

LEMMA HeapInvariance == HeapSpec => []HeapInv
<1>1. HeapInit => HeapInv
  BY HeapInitInv
<1>2. HeapInv /\ [HeapNext]_heapVars => HeapInv'
  BY HeapStepInv
<1> QED BY <1>1, <1>2, PTL DEF HeapSpec

-----------------------------------------------------------------------------
(* Every variable keeps its type. *)
THEOREM HeapTypeCorrect == HeapSpec => []TypeOK
BY HeapInvariance, PTL DEF HeapInv

(* Lazy deletion never loses a live deadline, for any number of sequences   *)
(* and any use of push, cancel and pop_due.                                 *)
THEOREM LiveDeadlinesCovered == HeapSpec => []Covered
BY HeapInvariance, PTL DEF HeapInv

(* pop_due returns exactly the sequences whose deadline has passed and      *)
(* leaves the others alone.                                                 *)
THEOREM PopDueIsExact == HeapSpec => PopsExactly
<1> DEFINE A == PopReturn =>
       /\ due = {s \in Sequences : before[s] # NoDeadline /\ before[s] <= now}
       /\ deadlines = [s \in Sequences |-> IF s \in due THEN NoDeadline
                                                        ELSE before[s]]
<1>1. HeapInv => A
  <2> USE SequencesAssumption, BoundsAssumption, EntryFacts DEF Times, NoDeadline
  <2> SUFFICES ASSUME HeapInv, PopReturn PROVE A!2
    OBVIOUS
  <2> USE DEF HeapInv
  <2>1. \A s \in Sequences :
          IF s \in due
          THEN deadlines[s] = NoDeadline /\ before[s] # NoDeadline /\ before[s] <= now
          ELSE deadlines[s] = before[s]
    BY DEF PopReturn, CallInv
  <2>2. \A s \in Sequences :
          before[s] # NoDeadline /\ before[s] <= now => s \in due
    <3> SUFFICES ASSUME NEW s \in Sequences, before[s] # NoDeadline,
                        before[s] <= now, s \notin due
                 PROVE  FALSE
      OBVIOUS
    <3>1. deadlines[s] = before[s]
      BY <2>1
    <3>2. <<before[s], s>> \in Held
      BY <3>1 DEF Held, Covered, TypeOK
    <3>3. PICK e \in Held : Least(e) /\ ~Passed(e[1])
      BY <3>2 DEF PopReturn
    <3>4. e[1] <= before[s]
      BY <3>2, <3>3 DEF Least, Held, TypeOK
    <3> QED BY <3>3, <3>4 DEF Passed, Held, TypeOK
  <2>3. due = {s \in Sequences : before[s] # NoDeadline /\ before[s] <= now}
    BY <2>1, <2>2 DEF TypeOK
  <2>4. deadlines = [s \in Sequences |-> IF s \in due THEN NoDeadline ELSE before[s]]
    BY <2>1 DEF TypeOK
  <2> QED BY <2>3, <2>4
<1>2. HeapInv /\ [HeapNext]_heapVars => [A]_heapVars
  BY <1>1
<1> QED BY <1>2, HeapInvariance, PTL DEF HeapSpec, PopsExactly

(* push returns TRUE exactly when the earliest deadline is another one than *)
(* before, so a caller that re-arms its timer then never sleeps past one.   *)
THEOREM PushReportIsExact == HeapSpec => PushReportsChange
<1> DEFINE A == PushReturn =>
       (changed' <=> ~ \E d \in Times \union {NoDeadline} :
                         Earliest(before, d) /\ Earliest(deadlines, d))
<1>1. HeapInv => A
  <2> SUFFICES ASSUME HeapInv, PushReturn
               PROVE  changed' <=> ~ \E d \in Times \union {NoDeadline} :
                                      Earliest(before, d) /\ Earliest(deadlines, d)
    OBVIOUS
  <2> USE DEF HeapInv
  <2>1. Earliest(before, previous)
    BY DEF PushReturn, CallInv
  <2>2. PICK d \in Times \union {NoDeadline} :
          Next_deadline(d) /\ changed' = (d # previous)
    BY DEF PushReturn
  <2>3. Earliest(deadlines, d)
    BY <2>2, TopIsEarliest
  <2>4. \A c \in Times \union {NoDeadline} :
          /\ Earliest(deadlines, c) => c = d
          /\ Earliest(before, c) => c = previous
    BY <2>1, <2>3, EarliestIsUnique DEF TypeOK
  <2> QED BY <2>1, <2>2, <2>3, <2>4 DEF TypeOK
<1>2. HeapInv /\ [HeapNext]_heapVars => [A]_heapVars
  BY <1>1
<1> QED BY <1>2, HeapInvariance, PTL DEF HeapSpec, PushReportsChange
=============================================================================
